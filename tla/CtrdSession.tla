----------------------------- MODULE CtrdSession -----------------------------
(***************************************************************************)
(* A session with the containerd execution manager: the containers are     *)
(* prepared once, then rounds of benchmark.py create, start and kill their *)
(* tasks, and killAndDeleteContainer ends the session.  Nobody looks at a  *)
(* result.                                                                 *)
(*                                                                         *)
(* "tainted" is a history variable as in Benchmark: the containers         *)
(* something went wrong for by itself, here also those whose application   *)
(* does not stop within the second a child sleeps between kill and delete. *)
(***************************************************************************)
EXTENDS ContainerdExec

CONSTANTS
    Script,     \* the batches of the session; "sleep" is the duration of a test
    Expected    \* the stage its author expects the containers in before each step

ASSUME ScriptAssumption ==
    /\ Script \in Seq(Command \cup {"sleep"})
    /\ \A i \in 1 .. Len(Script) : Script[i] # "sleep" =>
            [c \in Proc |-> Script[i]] \in Batches

\* Where a container is between two batches.  killAndDeleteContainer leaves the
\* snapshot, so a deleted container is not an absent one.
Stage == {"absent", "prepared", "created", "running", "deleted"}

\* The order benchmark.py keeps to: a test runs between the start of the tasks and
\* their end.  The order of the batches is all that a caller answers for.
Leads(from, batch, to) ==
    \/ batch = "prepare" /\ from = "absent" /\ to = "prepared"
    \/ batch = "create" /\ from = "prepared" /\ to = "created"
    \/ batch = "start" /\ from = "created" /\ to = "running"
    \/ batch = "run" /\ from = "prepared" /\ to = "running"
    \/ batch = "sleep" /\ from = "running" /\ to = "running"
    \/ batch = "killAndDeleteTask" /\ from \in {"created", "running"} /\ to = "prepared"
    \/ batch = "killAndDeleteContainer" /\ from \in {"created", "running"} /\ to = "deleted"

ASSUME OrderAssumption ==
    /\ Expected \in [1 .. Len(Script) + 1 -> Stage]
    /\ Expected[1] = "absent"
    /\ \A i \in 1 .. Len(Script) : Leads(Expected[i], Script[i], Expected[i + 1])
    /\ Expected[Len(Script) + 1] \in {"absent", "deleted"}

VARIABLES
    step,       \* the next step of the script
    called,     \* the script is blocked in Popen.wait
    tainted,
    undeleted   \* history: the containers whose last deleteTask call failed

sessionVars == <<step, called, tainted, undeleted>>
allVars == <<vars, sessionVars>>

SessionOver == step > Len(Script)
Sleeping == ~SessionOver /\ Script[step] = "sleep"

SessionInit ==
    /\ CtrdInit
    /\ step = 1
    /\ called = FALSE
    /\ tainted = {}
    /\ undeleted = {}

\* subprocess.Popen of the manager, for all containers.
CallManager ==
    /\ ~called
    /\ ~SessionOver
    /\ ~Sleeping
    /\ RunBatch(MaxNum, [c \in Proc |-> Script[step]])
    /\ called' = TRUE
    /\ UNCHANGED <<step, tainted, undeleted>>

\* wait() returns; the return code is dropped.
Returned ==
    /\ called
    /\ manager = "returned"
    /\ called' = FALSE
    /\ step' = step + 1
    /\ UNCHANGED <<vars, tainted, undeleted>>

Sleep ==
    /\ Sleeping
    /\ step' = step + 1
    /\ UNCHANGED <<vars, called, tainted, undeleted>>

Over == SessionOver /\ UNCHANGED allVars

ScriptStep == CallManager \/ Returned \/ Sleep

Taint(cs) ==
    /\ tainted' = tainted \cup cs
    /\ UNCHANGED <<step, called>>

\* The manager works; a failed fork taints every container it loses.
ManagerStep ==
    /\ MainStep
    /\ Taint(IF manager = "forking" /\ nProc >= 0 /\ manager' # manager
             THEN 0 .. nProc ELSE {})
    /\ UNCHANGED undeleted

\* What a step of c does to the history of its deleteTask calls.
NoteDeleteTask(c, succeeds) ==
    \/ ~AtCall(c, "deleteTask") /\ UNCHANGED undeleted
    \/ /\ AtCall(c, "deleteTask")
       /\ undeleted' = IF succeeds THEN undeleted \ {c} ELSE undeleted \cup {c}

\* A refusal taints a container only when its application was too slow to stop.
CommandStep(c) ==
    /\ ChildStep(c)
    /\ Taint(IF failed'[c] /\ task[c] = "stopping" THEN {c} ELSE {})
    /\ NoteDeleteTask(c, Accepts(c, "deleteTask"))

FaultStep(c) ==
    /\ ChildFault(c)
    /\ Taint({c})
    /\ NoteDeleteTask(c, FALSE)

StopStep(c) ==
    /\ TaskStops(c)
    /\ Taint(IF task[c] = "running" THEN {c} ELSE {})
    /\ UNCHANGED undeleted

SessionNext ==
    \/ ScriptStep
    \/ ManagerStep
    \/ \E c \in Proc : CommandStep(c) \/ FaultStep(c) \/ StopStep(c)
    \/ Over

SessionSpec == SessionInit /\ [][SessionNext]_allVars

(***************************************************************************)
(* Fairness: the operating system runs the script, the manager and its     *)
(* children, and every gRPC call is answered (the client blocks on its     *)
(* completion queue without a deadline).                                   *)
(***************************************************************************)
SessionFairness ==
    /\ WF_allVars(ScriptStep)
    /\ WF_allVars(ManagerStep)
    /\ \A c \in Proc : WF_allVars(CommandStep(c) \/ FaultStep(c))

SessionFairSpec == SessionSpec /\ SessionFairness
------------------------------------------------------------------------------
SessionTypeOK ==
    /\ CtrdTypeOK
    /\ step \in 1 .. Len(Script) + 1
    /\ called \in BOOLEAN
    /\ {tainted, undeleted} \subseteq SUBSET Proc

Sound == Proc \ tainted

\* In this order of batches no call of a sound container is refused, so no
\* child runs into the client functions that end without a return value.
SoundCallsSucceed == \A c \in Sound : ~failed[c]

\* During a test every sound container's task is running.
MeasuredTasksRun == Sleeping => \A c \in Sound : task[c] = "running"

\* A task outlives its container record, which containerd itself would allow, only
\* when the child that deleted the record had failed to delete the task: whatever
\* else fails for a container, its task keeps the record by which it can be found.
NoOrphanTask == \A c \in Proc : task[c] # "none" /\ ~record[c] => c \in undeleted

\* The session leaves no task and no container record behind where nothing went
\* wrong by itself, and whatever went wrong before the last batch, a task stays only
\* when its deletion failed, or when no child was forked to delete it.
SessionLeavesNothing ==
    SessionOver =>
        /\ \A c \in Sound : task[c] = "none" /\ ~record[c]
        /\ \A c \in Proc : task[c] # "none" => c \in undeleted \/ child[c] = "unborn"

\* The script gets through, whatever fails.
SessionEnds == <>SessionOver
==============================================================================
