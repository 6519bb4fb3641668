---------------------------- MODULE MCMountOptions ----------------------------
(* Model of MountOptions for TLC: the options of an overlay mount, with their *)
(* lengths scaled to a few characters, so that one may be shorter than the    *)
(* number of options and one longer than what is left of an entry.            *)
EXTENDS MountOptions

Overlays == {<<"index", "workdir", "upperdir">>, <<"workdir", "upperdir", "lowerdir">>}

Lengths == [index |-> 2, workdir |-> 6, upperdir |-> 7, lowerdir |-> 8]
==============================================================================
