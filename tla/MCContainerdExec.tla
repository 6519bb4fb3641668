-------------------------- MODULE MCContainerdExec ---------------------------
(* Model of ContainerdExec for TLC.  The benchmark gives every container of  *)
(* a batch the same command; one batch here mixes two commands.              *)
EXTENDS ContainerdExec

UniformBatches == {[c \in Proc |-> cmd] : cmd \in Command}

MixedBatches ==
    UniformBatches \cup
    {[c \in Proc |-> IF c = 0 THEN "killAndDeleteContainer" ELSE "run"]}
==============================================================================
