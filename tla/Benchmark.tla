------------------------------ MODULE Benchmark ------------------------------
(***************************************************************************)
(* benchmark.py driving the crun execution manager (or crun batch): in     *)
(* every round it starts all containers, lets them run, kills, deletes and *)
(* unmounts them, and never looks at an exit status.  This composes        *)
(* ExecManager with the script that calls it.                              *)
(*                                                                         *)
(* "tainted" is a history variable: the containers something has gone      *)
(* wrong for by itself (a fault of a call, a fork that failed, an          *)
(* application that ended early or did not stop within the script's sleep).*)
(* The properties say what holds for every container nothing went wrong    *)
(* for, whatever happens to its neighbours in the same batch.              *)
(***************************************************************************)
EXTENDS ExecManager, Sequences

CONSTANTS
    Rounds          \* the number of containers in each round of test_loop

\* max(config['num']) of the driver fails on an empty list.
ASSUME RoundsAssumption == Rounds \in Seq(1 .. MaxNum) \ {<<>>}

VARIABLES
    runType,    \* the run-type of the test: "run-sequentiell" or "run"
    round,      \* the current round, an index into Rounds
    step,       \* the next step of the round, an index into Script
    called,     \* the script is blocked in Popen.wait
    tainted

benchVars == <<runType, round, step, called, tainted>>
allVars == <<vars, benchVars>>

\* Faulty: the containers are created and not started.
NeverStarts == <<"mount", "create">>

\* run or run_sequentiell; the duration of the test is the first sleep.
StartScript ==
    IF runType = "run-sequentiell" THEN <<"mount", "create", "start">> ELSE <<"run">>

\* Faulty: delete follows the signal at once.
NoSleepAfterKill == <<"kill", "delete", "sleep", "umount">>

\* Faulty: the overlays stay mounted.
NeverUnmounts == <<"kill", "sleep", "delete", "sleep">>

\* kill: after SIGTERM two sleeps of one second, and one before the umount.
KillScript == <<"kill", "sleep", "delete", "sleep", "umount">>

Script == StartScript \o <<"sleep">> \o KillScript

Measuring == step = Len(StartScript) + 1
RoundOver == step > Len(Script) /\ ~called

BenchInit ==
    /\ ExecInit
    /\ runType \in {"run-sequentiell", "run"}
    /\ round = 1
    /\ step = 1
    /\ called = FALSE
    /\ tainted = {}

\* subprocess.Popen of the manager on the configuration of this command.
Call ==
    /\ ~called
    /\ step <= Len(Script)
    /\ Script[step] # "sleep"
    /\ RunBatch(Rounds[round], FALSE, [c \in Proc |-> Script[step]])
    /\ called' = TRUE
    /\ UNCHANGED <<runType, round, step, tainted>>

\* Faulty: the script goes on only after a batch without failures.
ReturnedWell ==
    /\ called
    /\ manager = "returned"
    /\ \A c \in Proc : outcome[c] # "failed"
    /\ called' = FALSE
    /\ step' = step + 1
    /\ UNCHANGED <<vars, runType, round, tainted>>

\* wait() returns; the return code is dropped.
Returned ==
    /\ called
    /\ manager = "returned"
    /\ called' = FALSE
    /\ step' = step + 1
    /\ UNCHANGED <<vars, runType, round, tainted>>

\* time.sleep: long enough for an application that stops in time.
Sleep ==
    /\ ~called
    /\ step <= Len(Script)
    /\ Script[step] = "sleep"
    /\ step' = step + 1
    /\ tainted' = tainted \cup {c \in Proc : container[c] = "stopping"}
    /\ UNCHANGED <<vars, runType, round, called>>

\* The next iteration of test_loop.
NextRound ==
    /\ RoundOver
    /\ round < Len(Rounds)
    /\ round' = round + 1
    /\ step' = 1
    /\ UNCHANGED <<vars, runType, called, tainted>>

\* test_loop is through.
Finished ==
    /\ RoundOver
    /\ round = Len(Rounds)
    /\ UNCHANGED allVars

ScriptStep == Call \/ Returned \/ Sleep \/ NextRound

\* The manager works; a failed fork taints every container it loses.
ManagerStep ==
    /\ MainStep
    /\ tainted' = IF manager = "forking" /\ nProc >= 0 /\ manager' # manager
                  THEN tainted \cup 0 .. nProc ELSE tainted
    /\ UNCHANGED <<runType, round, step, called>>

CommandStep(c) ==
    /\ ChildStep(c)
    /\ UNCHANGED benchVars

FaultStep(c) ==
    /\ ChildFault(c)
    /\ tainted' = tainted \cup {c}
    /\ UNCHANGED <<runType, round, step, called>>

StopStep(c) ==
    /\ ContainerStops(c)
    /\ tainted' = IF container[c] = "running" THEN tainted \cup {c} ELSE tainted
    /\ UNCHANGED <<runType, round, step, called>>

BenchNext ==
    \/ ScriptStep
    \/ ManagerStep
    \/ \E c \in Proc : CommandStep(c) \/ FaultStep(c) \/ StopStep(c)
    \/ Finished

BenchSpec == BenchInit /\ [][BenchNext]_allVars

(***************************************************************************)
(* Fairness: the script, the manager and the commands are processes that   *)
(* the operating system runs, and every command ends, well or with a       *)
(* fault.  No fairness for the applications: none needs to stop.           *)
(***************************************************************************)
BenchFairness ==
    /\ WF_allVars(ScriptStep)
    /\ WF_allVars(ManagerStep)
    /\ \A c \in Proc : WF_allVars(CommandStep(c) \/ FaultStep(c))

BenchFairSpec == BenchSpec /\ BenchFairness
------------------------------------------------------------------------------
BenchTypeOK ==
    /\ ExecTypeOK
    /\ runType \in {"run-sequentiell", "run"}
    /\ round \in 1 .. Len(Rounds)
    /\ step \in 1 .. Len(Script) + 1
    /\ called \in BOOLEAN
    /\ tainted \in SUBSET Proc

Sound == 0 .. num - 1 \ tainted

\* Each batch finds the world its predecessor was meant to leave: no command of
\* a container nothing went wrong for is ever refused.  This is what the wait
\* loop is for: create must not overtake mount, nor start create.
SoundCommandsSucceed == \A c \in Sound : outcome[c] # "failed"

\* While the script sleeps for the duration of the test, the containers it
\* measures are running, all of them.
MeasuredContainersRun ==
    Measuring /\ ~called => \A c \in Sound : container[c] = "running"

\* A root file system is mounted once or not at all, even over several rounds,
\* and it is there as long as the container needs it.
RootMountedOnce ==
    \A c \in Proc \ tainted :
        /\ overlay[c] <= 1
        /\ InUse(c) => overlay[c] = 1

\* A round leaves no container and no mount behind for the next one, of any
\* container nothing went wrong for.
RoundLeavesNothing ==
    RoundOver => \A c \in Proc \ tainted :
                    container[c] = "none" /\ overlay[c] = 0

\* The script gets through all its rounds, whatever fails.
BenchmarkEnds == <>(RoundOver /\ round = Len(Rounds))
==============================================================================
