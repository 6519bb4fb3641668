--------------------------- MODULE ConfigGenerator ----------------------------
(***************************************************************************)
(* The configurations of the execution managers: which files               *)
(* generate_configs.py writes and with which keys, which keys the parsers  *)
(* of the managers know, and which ones the commands of the managers use.  *)
(* Three programs have to agree on them and none checks the others.        *)
(***************************************************************************)
EXTENDS Naturals, Sequences

\* The targets of generate_configs.py, in the order of its if and elif.
Target == {"containerd", "crun", "native"}

TargetOf(runtime) ==
    CASE runtime = "ctrd" -> "containerd"
      [] runtime \in {"crun", "crun_batch"} -> "crun"
      [] runtime = "native" -> "native"

\* The files written for a target with --config-type all, one after the other.
ConfigTypes(target) ==
    CASE target = "containerd" ->
           <<"prepare", "create", "start", "run", "killAndDeleteContainer",
             "killAndDeleteTask">>
      [] target = "crun" ->
           <<"mount", "umount", "create", "start", "kill", "delete", "run">>
      [] target = "native" -> <<"run">>

File == {f \in Target \X {"prepare", "mount", "umount", "create", "start", "run",
                          "kill", "delete", "killAndDeleteContainer",
                          "killAndDeleteTask"} :
            \E i \in DOMAIN ConfigTypes(f[1]) : f[2] = ConfigTypes(f[1])[i]}
------------------------------------------------------------------------------
BaseKeys == {"name", "command"}

MountKeys == {"mount_type", "mount_source", "mount_target", "mount_options"}

\* The class of the entries of a file, by its attributes.
Keys(f) == BaseKeys \cup
    CASE f = <<"crun", "mount">>  -> {"mount_target", "mount_options"}
      [] f = <<"crun", "umount">> -> {"mount_target"}
      [] f = <<"crun", "create">> -> {"bundle"}
      [] f = <<"crun", "run">>    -> {"bundle", "mount_target", "mount_options"}
      [] f = <<"containerd", "prepare">> -> {"runtime", "digest", "image", "oci_spec"}
      [] f \in {<<"containerd", "create">>, <<"containerd", "run">>} -> MountKeys
      [] f = <<"native", "run">>  -> {"config"}
      [] OTHER -> {}

\* What the parser of the manager stores.
KnownKeys(target) == BaseKeys \cup
    IF target = "containerd"
    THEN {"digest", "image", "oci_spec", "runtime"} \cup MountKeys
    ELSE {"bundle", "command_options", "mount_target", "mount_options", "config"}

\* What the managers' commands read of an entry.
UsedKeys(f) == BaseKeys \cup
    CASE f = <<"crun", "mount">>  -> {"mount_target", "mount_options"}
      [] f = <<"crun", "umount">> -> {"mount_target"}
      [] f = <<"crun", "create">> -> {"bundle"}
      [] f = <<"crun", "run">>    -> {"bundle", "mount_target", "mount_options"}
      [] f = <<"containerd", "prepare">> -> {"digest", "oci_spec", "runtime", "image"}
      [] f \in {<<"containerd", "create">>, <<"containerd", "run">>} -> MountKeys
      [] f = <<"native", "run">>  -> {"config"}
      [] OTHER -> {}

Sufficient(f) == UsedKeys(f) \subseteq Keys(f) \cap KnownKeys(f[1])
------------------------------------------------------------------------------
\* The files that one round of a test uses: to start, and to kill.
FilesUsed(runtime, sequentiell) ==
    CASE runtime = "ctrd" ->
           {"containerd"} \X ((IF sequentiell THEN {"create", "start"} ELSE {"run"})
                               \cup {"killAndDeleteTask"})
      [] runtime \in {"crun", "crun_batch"} ->
           {"crun"} \X ((IF sequentiell THEN {"mount", "create", "start"} ELSE {"run"})
                         \cup {"kill", "delete", "umount"})
      [] runtime = "native" -> {<<"native", "run">>}

\* The first k files of a target, in the order in which they are written.
FirstFiles(target, k) ==
    {f \in File : f[1] = target /\ \E i \in 1 .. k : f[2] = ConfigTypes(target)[i]}

\* The files after a call of the generator that wrote the first k of the target's
\* with num entries each.
Written(files, target, k, num) ==
    [f \in File |-> IF f \in FirstFiles(target, k) THEN num ELSE files[f]]
==============================================================================
