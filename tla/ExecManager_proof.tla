-------------------------- MODULE ExecManager_proof --------------------------
(***************************************************************************)
(* Proofs about ExecManager, for every number of containers, every batch   *)
(* and every bound on mounts: it implements ForkWait (and so Batch), and   *)
(* nothing it does to the world happens between two batches.               *)
(***************************************************************************)
EXTENDS ExecManager, ForkWait_proof

\* Every way a child's command can go is a ChildExit of ForkWait or leaves the
\* processes alone.
LEMMA ChildStepRefines ==
    ASSUME NEW c \in Proc, ChildStep(c) \/ ChildFault(c)
    PROVE  ChildExit(c) \/ UNCHANGED managerVars
BY DEF ChildStep, ChildFault, CommandMount, CommandUmount, RunMount, CommandCrun,
       CommandRefused, CommandFault, CommandNative, Exit

LEMMA StepRefines == [ExecNext]_vars => [Next]_managerVars
<1> SUFFICES ASSUME [ExecNext]_vars
             PROVE  [Next]_managerVars
    OBVIOUS
<1>1. ASSUME NEW n \in 0 .. MaxNum, NEW nat \in BOOLEAN, NEW cmds \in Commands,
             RunBatch(n, nat, cmds)
      PROVE  Next
    BY <1>1 DEF RunBatch, Next
<1>2. CASE MainStep
    BY <1>2 DEF MainStep, Next
<1>3. ASSUME NEW c \in Proc, ChildStep(c) \/ ChildFault(c)
      PROVE  [Next]_managerVars
    BY <1>3, ChildStepRefines DEF Next
<1>4. ASSUME NEW c \in Proc, ContainerStops(c)
      PROVE  UNCHANGED managerVars
    BY <1>4 DEF ContainerStops
<1>5. CASE UNCHANGED vars
    BY <1>5 DEF vars
<1> QED
    BY <1>1, <1>2, <1>3, <1>4, <1>5 DEF ExecNext

\* ExecManager implements ForkWait, and with it the batch of its caller.
THEOREM ExecImplementsForkWait == ExecSpec => ImplementsForkWait
<1>1. ExecInit => Init
    BY DEF ExecInit
<1> QED
    BY <1>1, StepRefines, PTL DEF ExecSpec, ImplementsForkWait, Spec

------------------------------------------------------------------------------
\* What a child's command may leave behind stays within the types.
LEMMA ChildStepTypes ==
    ASSUME ExecTypeOK, NEW c \in Proc, ChildStep(c) \/ ChildFault(c)
    PROVE  /\ command' \in Commands
           /\ mounted' \in [Proc -> BOOLEAN]
           /\ outcome' \in [Proc -> {"none", "ok", "failed"}]
           /\ overlay' \in [Proc -> 0 .. MaxOverlay]
           /\ container' \in [Proc -> ContainerState]
<1> USE MaxOverlayAssumption DEF ExecTypeOK
<1>1. CASE CommandMount(c)
    BY <1>1 DEF CommandMount, Exit
<1>2. CASE CommandUmount(c)
    BY <1>2 DEF CommandUmount, Exit
<1>3. ASSUME NEW done \in BOOLEAN, RunMount(c, done)
      PROVE  /\ command' \in Commands
             /\ mounted' \in [Proc -> BOOLEAN]
             /\ outcome' \in [Proc -> {"none", "ok", "failed"}]
             /\ overlay' \in [Proc -> 0 .. MaxOverlay]
             /\ container' \in [Proc -> ContainerState]
    BY <1>3 DEF RunMount
<1>4. CASE CommandCrun(c)
    <2>1. PICK s \in Crun(c) : container' = [container EXCEPT ![c] = s]
        BY <1>4 DEF CommandCrun
    <2>2. s \in ContainerState
        BY <2>1 DEF Crun, CrunResult
    <2> QED
        BY <1>4, <2>1, <2>2 DEF CommandCrun, Exit
<1>5. CASE CommandRefused(c) \/ CommandFault(c)
    BY <1>5 DEF CommandRefused, CommandFault, Exit
<1>6. CASE CommandNative(c)
    BY <1>6 DEF CommandNative, Exit
<1> QED
    BY <1>1, <1>2, <1>3, <1>4, <1>5, <1>6 DEF ChildStep, ChildFault

LEMMA ExecTypeStep == ExecTypeOK /\ IInv /\ [ExecNext]_vars => ExecTypeOK'
<1> SUFFICES ASSUME ExecTypeOK, IInv, [ExecNext]_vars
             PROVE  ExecTypeOK'
    OBVIOUS
<1>0. TypeOK'
    BY StepRefines, NextIInv DEF IInv
<1>1. ASSUME NEW n \in 0 .. MaxNum, NEW nat \in BOOLEAN, NEW cmds \in Commands,
             RunBatch(n, nat, cmds)
      PROVE  ExecTypeOK'
    BY <1>0, <1>1 DEF RunBatch, ExecTypeOK
<1>2. CASE MainStep
    BY <1>0, <1>2 DEF MainStep, execVars, ExecTypeOK
<1>3. ASSUME NEW c \in Proc, ChildStep(c) \/ ChildFault(c)
      PROVE  ExecTypeOK'
    BY <1>0, <1>3, ChildStepTypes DEF ExecTypeOK
<1>4. ASSUME NEW c \in Proc, ContainerStops(c)
      PROVE  ExecTypeOK'
    BY <1>0, <1>4 DEF ContainerStops, ContainerState, ExecTypeOK
<1>5. CASE UNCHANGED vars
    BY <1>0, <1>5 DEF vars, execVars, ExecTypeOK
<1> QED
    BY <1>1, <1>2, <1>3, <1>4, <1>5 DEF ExecNext

\* ForkWait's inductive invariant and the types hold of ExecManager.
LEMMA ExecInvariant == ExecSpec => [](IInv /\ ExecTypeOK)
<1>1. ExecInit => IInv /\ ExecTypeOK
    BY InitIInv, MaxOverlayAssumption
    DEF ExecInit, ExecTypeOK, IInv, Commands, Command, CrunCommand, ContainerState
<1>2. IInv /\ ExecTypeOK /\ [ExecNext]_vars => (IInv /\ ExecTypeOK)'
    BY StepRefines, NextIInv, ExecTypeStep
<1> QED
    BY <1>1, <1>2, PTL DEF ExecSpec

\* Types of the manager, its children and of the world they act on.
THEOREM ExecTypeCorrect == ExecSpec => []ExecTypeOK
<1> QED
    BY ExecInvariant, PTL
------------------------------------------------------------------------------
\* The command of a container acts on the world only while main waits for it:
\* for a caller that has control only native applications are left running.
LEMMA CallerAlone ==
    ASSUME IInv, manager \in {"idle", "returned"}, NEW c \in Proc, child[c] = "running"
    PROVE  native
BY DEF IInv, NoChildLeftBehind

LEMMA QuietStep ==
    IInv /\ ExecTypeOK /\ [ExecNext]_vars =>
        (manager \in {"idle", "returned"} => QuietWorld)
<1> SUFFICES ASSUME IInv, ExecTypeOK, [ExecNext]_vars,
                    manager \in {"idle", "returned"}
             PROVE  QuietWorld
    OBVIOUS
<1>1. ASSUME NEW n \in 0 .. MaxNum, NEW nat \in BOOLEAN, NEW cmds \in Commands,
             RunBatch(n, nat, cmds)
      PROVE  QuietWorld
    BY <1>1 DEF RunBatch, QuietWorld
<1>2. CASE MainStep
    BY <1>2 DEF MainStep, execVars, QuietWorld
<1>3. ASSUME NEW c \in Proc, ChildStep(c) \/ ChildFault(c)
      PROVE  QuietWorld
    <2>1. CASE CommandNative(c)
        BY <2>1 DEF CommandNative, QuietWorld
    <2>2. CASE ~CommandNative(c)
        <3>1. child[c] = "running" /\ ~native
            BY <1>3, <2>2
            DEF ChildStep, ChildFault, CommandMount, CommandUmount, RunMount,
                CommandCrun, CommandRefused, CommandFault, AtCall
        <3> QED
            BY <3>1, CallerAlone
    <2> QED
        BY <2>1, <2>2
<1>4. ASSUME NEW c \in Proc, ContainerStops(c)
      PROVE  QuietWorld
    BY <1>4 DEF ContainerStops, QuietWorld, ExecTypeOK
<1>5. CASE UNCHANGED vars
    BY <1>5 DEF vars, execVars, QuietWorld
<1> QED
    BY <1>1, <1>2, <1>3, <1>4, <1>5 DEF ExecNext

\* While the caller has control, no command acts on mounts or containers.
THEOREM QuietAfterReturn == ExecSpec => QuietBetweenBatches
<1> QED
    BY ExecInvariant, QuietStep, PTL DEF ExecSpec, QuietBetweenBatches
==============================================================================
