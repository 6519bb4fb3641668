------------------------------ MODULE ForkWait -------------------------------
(***************************************************************************)
(* The process structure all three execution managers share: fork_rec      *)
(* forks one child per container, from the last container of the           *)
(* configuration down to the first, and main reaps the children in a wait  *)
(* loop (the native manager returns without waiting).                      *)
(*                                                                         *)
(* A failing fork ends the recursion: the containers below it are never    *)
(* launched, and main goes on as if they had been.  What a child does is   *)
(* left open here: ChildExit is refined by ExecManager and ContainerdExec. *)
(***************************************************************************)
EXTENDS Integers

CONSTANTS
    MaxNum      \* the largest number of containers of a configuration

ASSUME MaxNumAssumption == MaxNum \in Nat

Proc == 0 .. MaxNum - 1

VARIABLES
    num,        \* "num" of main: the containers found in the configuration
    native,     \* execution-manager --native
    manager,    \* where main is
    nProc,      \* the argument of the pending call of fork_rec
    child       \* the children, by container index

managerVars == <<num, native, manager, nProc, child>>

ChildState == {"unborn", "running", "zombie", "reaped"}

Init ==
    /\ num = 0
    /\ native = FALSE
    /\ manager = "idle"
    /\ nProc = -1
    /\ child = [c \in Proc |-> "unborn"]

(***************************************************************************)
(* A caller starts the manager on a configuration of n containers, once    *)
(* the previous call has returned.  Native applications it kills before it *)
(* calls again; for containers it relies on the manager's wait.            *)
(***************************************************************************)
Invoke(n, nat) ==
    /\ manager \in {"idle", "returned"}
    /\ native => \A c \in Proc : child[c] # "running"
    /\ num' = n
    /\ native' = nat
    /\ manager' = "forking"
    /\ nProc' = n - 1
    /\ child' = [c \in Proc |-> "unborn"]

\* What main does when fork_rec has returned to it.
AfterForks == IF native THEN "returned" ELSE "waiting"

\* Faulty: n_proc >= -1 lets fork_rec fork once more than there are containers.
ForkOneMore ==
    /\ manager = "forking"
    /\ nProc >= -1
    /\ child' = [child EXCEPT ![nProc] = "running"]
    /\ nProc' = nProc - 1
    /\ UNCHANGED <<num, native, manager>>

\* Faulty: fork_rec recurses with the same index.
ForkAgain ==
    /\ manager = "forking"
    /\ nProc >= 0
    /\ child' = [child EXCEPT ![nProc] = "running"]
    /\ UNCHANGED <<num, native, manager, nProc>>

\* fork_rec, fork() > 0: the child runs and the parent recurses.
Fork ==
    /\ manager = "forking"
    /\ nProc >= 0
    /\ child' = [child EXCEPT ![nProc] = "running"]
    /\ nProc' = nProc - 1
    /\ UNCHANGED <<num, native, manager>>

\* Faulty: a failed fork is skipped, and the recursion goes on below it.
SkipFailedFork ==
    /\ manager = "forking"
    /\ nProc >= 0
    /\ nProc' = nProc - 1
    /\ UNCHANGED <<num, native, manager, child>>

\* fork_rec, fork() < 0: perror, and the recursion unwinds.
ForkFails ==
    /\ manager = "forking"
    /\ nProc >= 0
    /\ manager' = AfterForks
    /\ UNCHANGED <<num, native, nProc, child>>

\* fork_rec with n_proc < 0 returns without a fork.
ForksDone ==
    /\ manager = "forking"
    /\ nProc < 0
    /\ manager' = AfterForks
    /\ UNCHANGED <<num, native, nProc, child>>

\* The command of container c ends, with whatever status: exit(0) of
\* fork_rec, exit(1) of fail_with_error, a signal.
ChildExit(c) ==
    /\ child[c] = "running"
    /\ child' = [child EXCEPT ![c] = "zombie"]
    /\ UNCHANGED <<num, native, manager, nProc>>

\* Faulty: the state of the child is polled and not reaped.
WaitNoReap(c) ==
    /\ manager = "waiting"
    /\ child[c] = "zombie"
    /\ UNCHANGED managerVars

\* wait(&status) > 0: one dead child is reaped, its status is not looked at.
Wait(c) ==
    /\ manager = "waiting"
    /\ child[c] = "zombie"
    /\ child' = [child EXCEPT ![c] = "reaped"]
    /\ UNCHANGED <<num, native, manager, nProc>>

\* Faulty: main waits at most for one child, or for none.
ReturnEarly ==
    /\ manager = "waiting"
    /\ manager' = "returned"
    /\ UNCHANGED <<num, native, nProc, child>>

\* wait(&status) = -1 (ECHILD): main returns EXIT_SUCCESS.
WaitReturns ==
    /\ manager = "waiting"
    /\ \A c \in Proc : child[c] \notin {"running", "zombie"}
    /\ manager' = "returned"
    /\ UNCHANGED <<num, native, nProc, child>>

Main ==
    \/ Fork
    \/ ForkFails
    \/ ForksDone
    \/ \E c \in Proc : Wait(c)
    \/ WaitReturns

Next ==
    \/ \E n \in 0 .. MaxNum, nat \in BOOLEAN : Invoke(n, nat)
    \/ Main
    \/ \E c \in Proc : ChildExit(c)

Spec == Init /\ [][Next]_managerVars

(***************************************************************************)
(* Fairness: the operating system schedules the manager, and every command *)
(* ends (the container runtime detaches the application).  A native        *)
(* manager's children are the applications themselves: they may run on.    *)
(***************************************************************************)
Fairness ==
    /\ WF_managerVars(Main)
    /\ \A c \in Proc : WF_managerVars(~native /\ ChildExit(c))

FairSpec == Spec /\ Fairness
------------------------------------------------------------------------------
TypeOK ==
    /\ num \in 0 .. MaxNum
    /\ native \in BOOLEAN
    /\ manager \in {"idle", "forking", "waiting", "returned"}
    /\ nProc \in -1 .. MaxNum - 1
    /\ child \in [Proc -> ChildState]

\* The children form a suffix of the configuration: exactly the containers
\* above the pending index of fork_rec were launched, so a failed fork loses
\* precisely the containers at and below its index and no other.
LaunchedIsSuffix ==
    /\ nProc < num
    /\ \A c \in Proc : child[c] # "unborn" <=> c \in nProc + 1 .. num - 1

\* main of the container managers returns (and lets the caller go on with the
\* next batch) only when no child of this batch is left, not even a zombie.
NoChildLeftBehind ==
    manager \in {"idle", "returned"} /\ ~native =>
        \A c \in Proc : child[c] \in {"unborn", "reaped"}

\* The inductive invariant.
IInv == TypeOK /\ LaunchedIsSuffix /\ NoChildLeftBehind

\* The refinement mapping to the batch a caller sees.
BatchPhase ==
    IF manager = "idle" THEN "idle"
    ELSE IF manager = "returned" THEN "done" ELSE "open"

B == INSTANCE Batch WITH
        Command  <- Proc,
        phase    <- BatchPhase,
        detached <- native,
        batch    <- 0 .. num - 1,
        launched <- {c \in Proc : child[c] # "unborn"},
        ended    <- {c \in Proc : child[c] \in {"zombie", "reaped"}}

\* fork_rec and the wait loop keep the promise of a batch: each container's
\* command is launched at most once, and the caller gets control back only
\* after every launched command ended (unless it runs applications natively).
ImplementsBatch == B!Spec

\* Whatever fork and the commands do, every invocation of the manager returns:
\* the wait loop ends once the launched commands have.
EveryBatchReturns == manager = "forking" ~> manager = "returned"
==============================================================================
