---------------------------- MODULE MCCtrdSession ----------------------------
(* Model of CtrdSession for TLC: one test with create and start, and one     *)
(* with run.                                                                 *)
EXTENDS CtrdSession

UniformBatches == {[c \in Proc |-> cmd] : cmd \in Command}

TwoTests == <<"prepare", "create", "start", "sleep", "killAndDeleteTask",
              "run", "sleep", "killAndDeleteContainer">>

StagesOfTwoTests == <<"absent", "prepared", "created", "running", "running", "prepared",
                      "running", "running", "deleted">>
==============================================================================
