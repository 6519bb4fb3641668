--------------------------- MODULE ContainerdExec ----------------------------
(***************************************************************************)
(* The containerd execution manager: the processes of ForkWait, where a    *)
(* child carries its command out as a fixed sequence of gRPC calls to      *)
(* containerd, going on to the next call whatever the last one returned.   *)
(*                                                                         *)
(* containerd is external: per container a snapshot, a container record    *)
(* and a task.  A call can be refused because of that state, or fail for   *)
(* reasons of its own (a fault).  Several client functions fall off their  *)
(* end without a return value when the call failed; what the child does    *)
(* then is undefined: it goes on with garbage, or it crashes.              *)
(***************************************************************************)
EXTENDS ForkWait, Sequences

Command == {"prepare", "create", "run", "start", "kill",
            "killAndDeleteTask", "killAndDeleteContainer", "other"}

CONSTANTS
    Batches     \* the commands, per container, the manager is called with

ASSUME BatchesAssumption == Batches \subseteq [Proc -> Command]

VARIABLES
    command,    \* the command of each container in the configuration
    calls,      \* the calls each child still has to make
    failed,     \* a call of the child's command failed
    snapshot,   \* external: the container's snapshot exists
    record,     \* external: the container record exists
    task        \* external: the state of the container's task

worldVars == <<snapshot, record, task>>
ctrdVars == <<command, calls, failed, worldVars>>
vars == <<managerVars, ctrdVars>>

TaskState == {"none", "created", "running", "stopping", "stopped"}

Live(c) == task[c] \in {"running", "stopping"}

\* Faulty: the record goes before the task, or does not go, or the task of a
\* "run" is not started.
RecordFirst == <<"killTask", "deleteContainer", "deleteTask">>
RecordStays == <<"killTask", "deleteTask">>
RunCreates  == <<"createTask">>

KillAndDeleteContainer == <<"killTask", "deleteTask", "deleteContainer">>

\* "run" passes through the branches of "create" and of "start".
Run == <<"createTask", "startTask">>

\* The calls of command() and of the two killAndDelete functions of the client;
\* loadOciSpec reads a file and is no call to containerd.
Program ==
    [prepare                |-> <<"prepareSnapshot", "loadOciSpec", "createContainer">>,
     create                 |-> <<"createTask">>,
     run                    |-> Run,
     start                  |-> <<"startTask">>,
     kill                   |-> <<"killTask">>,
     killAndDeleteTask      |-> <<"killTask", "deleteTask">>,
     killAndDeleteContainer |-> KillAndDeleteContainer,
     other                  |-> <<>>]

Call == {"prepareSnapshot", "loadOciSpec", "createContainer", "createTask",
         "startTask", "killTask", "deleteTask", "deleteContainer"}

\* The functions that return no value after a failed call.
FallsOffEnd == {"prepareSnapshot", "createContainer", "startTask", "deleteTask"}

CtrdInit ==
    /\ Init
    /\ command = [c \in Proc |-> "other"]
    /\ calls = [c \in Proc |-> <<>>]
    /\ failed = [c \in Proc |-> FALSE]
    /\ snapshot = [c \in Proc |-> FALSE]
    /\ record = [c \in Proc |-> FALSE]
    /\ task = [c \in Proc |-> "none"]

\* main: the configuration is parsed and fork_rec is called on it; there is no
\* native mode.
RunBatch(n, cmds) ==
    /\ Invoke(n, FALSE)
    /\ command' = cmds
    /\ calls' = [c \in Proc |-> Program[cmds[c]]]
    /\ failed' = [c \in Proc |-> FALSE]
    /\ UNCHANGED worldVars

MainStep == Main /\ UNCHANGED ctrdVars
------------------------------------------------------------------------------
(* command(), in child c                                                    *)

AtCall(c, call) ==
    /\ child[c] = "running"
    /\ calls[c] # <<>>
    /\ Head(calls[c]) = call

\* external: what containerd accepts.  It deletes the record of a container
\* without a look at its task, and never lets a running task be deleted.
Accepts(c, call) ==
    \/ call = "prepareSnapshot" /\ ~snapshot[c]
    \/ call = "loadOciSpec"
    \/ call = "createContainer" /\ ~record[c]
    \/ call = "createTask" /\ record[c] /\ task[c] = "none"
    \/ call = "startTask" /\ task[c] = "created"
    \/ call = "killTask" /\ task[c] \in {"created", "running", "stopping"}
    \/ call = "deleteTask" /\ task[c] \in {"created", "stopped"}
    \/ call = "deleteContainer" /\ record[c]

\* external: the task after a call on it; SIGTERM means nothing to a task whose
\* process waits to be started.
TaskAfter(c, call) ==
    CASE call = "createTask"                       -> "created"
      [] call = "startTask"                        -> "running"
      [] call = "killTask" /\ task[c] = "running"  -> "stopping"
      [] call = "deleteTask"                       -> "none"
      [] OTHER                                     -> task[c]

Returns(c) ==
    /\ calls' = [calls EXCEPT ![c] = Tail(@)]
    /\ UNCHANGED <<managerVars, command>>

\* The call is made and succeeds.
CallSucceeds(c, call) ==
    /\ AtCall(c, call)
    /\ Accepts(c, call)
    /\ snapshot' = [snapshot EXCEPT ![c] = @ \/ call = "prepareSnapshot"]
    /\ record' = [record EXCEPT ![c] =
                    (@ \/ call = "createContainer") /\ call # "deleteContainer"]
    /\ task' = [task EXCEPT ![c] = TaskAfter(c, call)]
    /\ Returns(c)
    /\ UNCHANGED failed

\* Faulty: a failed call is tried again for ever.
Retries(c, call) ==
    /\ AtCall(c, call)
    /\ UNCHANGED vars

\* The call fails, and the child goes on: the error is printed, no more.
GoesOn(c, call) ==
    /\ AtCall(c, call)
    /\ call # "loadOciSpec"
    /\ failed' = [failed EXCEPT ![c] = TRUE]
    /\ Returns(c)
    /\ UNCHANGED worldVars

\* Faulty: the failure ends the manager instead of the child.
CrashesManager(c, call) ==
    /\ AtCall(c, call)
    /\ manager' = "returned"
    /\ UNCHANGED <<num, native, nProc, child, ctrdVars>>

\* The call fails, and the child dies of it: a missing OCI file throws, and a
\* function without a return value may do anything.
Crashes(c, call) ==
    /\ AtCall(c, call)
    /\ call \in FallsOffEnd \cup {"loadOciSpec"}
    /\ failed' = [failed EXCEPT ![c] = TRUE]
    /\ ChildExit(c)
    /\ UNCHANGED <<command, calls, worldVars>>

CallFails(c, call) == GoesOn(c, call) \/ Crashes(c, call)

CallRefused(c, call) == ~Accepts(c, call) /\ CallFails(c, call)

CallFault(c, call) == Accepts(c, call) /\ CallFails(c, call)

\* exit(0) of fork_rec: whatever failed, and also after "Unknown command".
ChildDone(c) ==
    /\ child[c] = "running"
    /\ calls[c] = <<>>
    /\ ChildExit(c)
    /\ UNCHANGED ctrdVars

ChildStep(c) ==
    \/ \E call \in Call : CallSucceeds(c, call) \/ CallRefused(c, call)
    \/ ChildDone(c)

ChildFault(c) == \E call \in Call : CallFault(c, call)

\* external: the application ends, after SIGTERM or by itself.
TaskStops(c) ==
    /\ Live(c)
    /\ task' = [task EXCEPT ![c] = "stopped"]
    /\ UNCHANGED <<managerVars, command, calls, failed, snapshot, record>>
------------------------------------------------------------------------------
CtrdNext ==
    \/ \E n \in 0 .. MaxNum, cmds \in Batches : RunBatch(n, cmds)
    \/ MainStep
    \/ \E c \in Proc : ChildStep(c) \/ ChildFault(c) \/ TaskStops(c)

CtrdSpec == CtrdInit /\ [][CtrdNext]_vars

CtrdTypeOK ==
    /\ TypeOK
    /\ command \in [Proc -> Command]
    /\ calls \in [Proc -> Seq(Call)]
    /\ failed \in [Proc -> BOOLEAN]
    /\ snapshot \in [Proc -> BOOLEAN]
    /\ record \in [Proc -> BOOLEAN]
    /\ task \in [Proc -> TaskState]

\* containerd's state is left alone, but for tasks that stop by themselves.
QuietWorld ==
    /\ UNCHANGED <<snapshot, record>>
    /\ \A c \in Proc : task'[c] \in {task[c], "stopped"}

\* Between two batches no call of an earlier child is still under way: the
\* seconds a killAndDelete command sleeps are waited for by main.
QuietBetweenBatches ==
    [][(manager \in {"idle", "returned"}) => QuietWorld]_vars

\* The children really run as ForkWait allows.
ImplementsForkWait == Spec

\* README of the configurations: "run" takes the runtime, digest, image and
\* oci-spec, all that is needed to run a container containerd does not know.
RunNeedsNoPrepare ==
    \A c \in Proc : command[c] = "run" /\ child[c] = "reaped" /\ ~record[c]
                        => ~failed[c]
==============================================================================
