----------------------------- MODULE ExecManager -----------------------------
(***************************************************************************)
(* The crun execution manager (execution-manager, and the same code as the *)
(* "batch" command patched into crun): the processes of ForkWait, and what *)
(* the command of a child does to its container.                           *)
(*                                                                         *)
(* The world outside is external: the kernel's mount table (how many       *)
(* overlays are mounted on a container's root) and crun's container states.*)
(* An external call may refuse, because the state does not allow it, or    *)
(* fail for reasons of its own (a fault).  Either way the child exits with *)
(* a failure status and main does not look at it.                          *)
(***************************************************************************)
EXTENDS ForkWait

CONSTANTS
    MaxOverlay      \* bound: overlays stacked on one mount target

ASSUME MaxOverlayAssumption == MaxOverlay \in Nat

VARIABLES
    command,    \* the command of each container in the configuration
    mounted,    \* the child of a "run" is past its mount call
    outcome,    \* how the child's command ended: "none" while it has not
    overlay,    \* external: overlays mounted on the container's root
    container   \* external: the container's state in crun

execVars == <<command, mounted, outcome, overlay, container>>
vars == <<managerVars, execVars>>

\* "other" stands for a command the manager does not know.
CrunCommand == {"create", "start", "run", "kill", "delete", "other"}
Command == CrunCommand \cup {"mount", "umount"}

Commands == [Proc -> Command]

ContainerState == {"none", "created", "running", "stopping", "stopped"}

\* A container whose processes hold its root file system.
InUse(c) == container[c] \in {"created", "running", "stopping"}

ExecInit ==
    /\ Init
    /\ command = [c \in Proc |-> "other"]
    /\ mounted = [c \in Proc |-> FALSE]
    /\ outcome = [c \in Proc |-> "none"]
    /\ overlay = [c \in Proc |-> 0]
    /\ container = [c \in Proc |-> "none"]

\* main: the configuration is parsed and fork_rec is called on it.  A native
\* command is the path of an executable, no command of this list.
RunBatch(n, nat, cmds) ==
    /\ Invoke(n, nat)
    /\ nat => cmds = [c \in Proc |-> "other"]
    /\ command' = cmds
    /\ mounted' = [c \in Proc |-> FALSE]
    /\ outcome' = [c \in Proc |-> "none"]
    /\ UNCHANGED <<overlay, container>>

MainStep == Main /\ UNCHANGED execVars
------------------------------------------------------------------------------
(* command_container, in child c                                            *)

\* The child leaves: exit(0) of fork_rec or crun's success, or a failure.
Exit(c, result) ==
    /\ ChildExit(c)
    /\ outcome' = [outcome EXCEPT ![c] = result]
    /\ UNCHANGED <<command, mounted>>

\* The child reaches the system call or the crun call its command is for.
AtCall(c) ==
    /\ ~native
    /\ child[c] = "running"
    /\ command[c] = "run" => mounted[c]

\* "mount": one more overlay on the target, whatever is mounted there.
CommandMount(c) ==
    /\ AtCall(c)
    /\ command[c] = "mount"
    /\ overlay[c] < MaxOverlay
    /\ overlay' = [overlay EXCEPT ![c] = @ + 1]
    /\ Exit(c, "ok")
    /\ UNCHANGED container

\* "umount": the topmost overlay goes.
CommandUmount(c) ==
    /\ AtCall(c)
    /\ command[c] = "umount"
    /\ overlay[c] > 0
    /\ overlay' = [overlay EXCEPT ![c] = @ - 1]
    /\ Exit(c, "ok")
    /\ UNCHANGED container

\* "run" mounts first and loses the result of mount: ret is assigned again
\* by execvp (by the command's handler in crun batch).
RunMount(c, done) ==
    /\ ~native
    /\ child[c] = "running"
    /\ command[c] = "run"
    /\ ~mounted[c]
    /\ mounted' = [mounted EXCEPT ![c] = TRUE]
    /\ IF done THEN /\ overlay[c] < MaxOverlay
                    /\ overlay' = [overlay EXCEPT ![c] = @ + 1]
               ELSE UNCHANGED overlay
    /\ UNCHANGED <<managerVars, command, outcome, container>>

\* What crun makes of a container in state s, with or without a mounted root;
\* the empty set when it refuses.  A created container's init has no handler
\* for SIGTERM and, as process 1 of its namespace, ignores it.
CrunResult(cmd, s, root) ==
    {t \in ContainerState :
        \/ cmd = "create" /\ s = "none" /\ root /\ t = "created"
        \/ cmd = "run" /\ s = "none" /\ root /\ t = "running"
        \/ cmd = "start" /\ s = "created" /\ t = "running"
        \/ cmd = "kill" /\ s = "created" /\ t = "created"
        \/ cmd = "kill" /\ s \in {"running", "stopping"} /\ t = "stopping"
        \/ cmd = "delete" /\ s = "stopped" /\ t = "none"}

Crun(c) == CrunResult(command[c], container[c], overlay[c] > 0)

\* execvp of crun: the process is replaced, crun's status is the child's.
CommandCrun(c) ==
    /\ AtCall(c)
    /\ command[c] \in CrunCommand
    /\ \E s \in Crun(c) : container' = [container EXCEPT ![c] = s]
    /\ Exit(c, "ok")
    /\ UNCHANGED overlay

\* The call of command c may be refused: nothing to unmount, a container state
\* that does not allow it, an unknown command; and a mount in use, which the
\* kernel may also let go (CommandUmount).
Refused(c) ==
    \/ command[c] = "umount" /\ (overlay[c] = 0 \/ InUse(c))
    \/ command[c] \in CrunCommand /\ Crun(c) = {}

\* Faulty: fail_with_error ends the manager instead of the child.
RefusedEndsManager(c) ==
    /\ AtCall(c)
    /\ Refused(c)
    /\ manager' = "returned"
    /\ UNCHANGED <<num, native, nProc, child, execVars>>

\* ret # 0: fail_with_error, exit(1); or crun's own error status.
CommandRefused(c) ==
    /\ AtCall(c)
    /\ Refused(c)
    /\ Exit(c, "failed")
    /\ UNCHANGED <<overlay, container>>

\* The call could have succeeded and did not: no memory, no crun, a signal.
CommandFault(c) ==
    /\ AtCall(c)
    /\ ~Refused(c)
    /\ Exit(c, "failed")
    /\ UNCHANGED <<overlay, container>>

\* command_native: the child becomes the application and ends when it does.
CommandNative(c) ==
    /\ native
    /\ \E result \in {"ok", "failed"} : Exit(c, result)
    /\ UNCHANGED <<overlay, container>>

ChildStep(c) ==
    \/ CommandMount(c)
    \/ CommandUmount(c)
    \/ RunMount(c, TRUE)
    \/ CommandCrun(c)
    \/ CommandRefused(c)
    \/ CommandNative(c)

ChildFault(c) == CommandFault(c) \/ RunMount(c, FALSE)

\* external: the application ends, after SIGTERM or by itself.
ContainerStops(c) ==
    /\ container[c] \in {"running", "stopping"}
    /\ container' = [container EXCEPT ![c] = "stopped"]
    /\ UNCHANGED <<managerVars, command, mounted, outcome, overlay>>
------------------------------------------------------------------------------
ExecNext ==
    \/ \E n \in 0 .. MaxNum, nat \in BOOLEAN, cmds \in Commands : RunBatch(n, nat, cmds)
    \/ MainStep
    \/ \E c \in Proc : ChildStep(c) \/ ChildFault(c) \/ ContainerStops(c)

ExecSpec == ExecInit /\ [][ExecNext]_vars

ExecTypeOK ==
    /\ TypeOK
    /\ command \in Commands
    /\ mounted \in [Proc -> BOOLEAN]
    /\ outcome \in [Proc -> {"none", "ok", "failed"}]
    /\ overlay \in [Proc -> 0 .. MaxOverlay]
    /\ container \in [Proc -> ContainerState]

\* The mount table is left alone, and containers at most stop by themselves.
QuietWorld ==
    /\ overlay' = overlay
    /\ \A c \in Proc : container'[c] \in {container[c], "stopped"}

\* Between two batches the world moves only by what containers do themselves:
\* no late child mounts, unmounts, creates or deletes under the feet of the
\* caller, who reads the manager's return as "all commands are done".
QuietBetweenBatches ==
    [][(manager \in {"idle", "returned"}) => QuietWorld]_vars

\* The commands the children really run are the ones ForkWait allows.
ImplementsForkWait == Spec
==============================================================================
