------------------------- MODULE ContainerdExec_proof -------------------------
(***************************************************************************)
(* Proofs about ContainerdExec, for every number of containers and every   *)
(* batch: it implements ForkWait (and so Batch), and nothing it does to    *)
(* containerd happens between two batches.                                 *)
(***************************************************************************)
EXTENDS ContainerdExec, ForkWait_proof

\* Every way a call can end is a ChildExit of ForkWait or leaves the processes
\* alone.
LEMMA ChildStepRefines ==
    ASSUME NEW c \in Proc, ChildStep(c) \/ ChildFault(c)
    PROVE  ChildExit(c) \/ UNCHANGED managerVars
BY DEF ChildStep, ChildFault, CallSucceeds, CallRefused, CallFault, CallFails,
       GoesOn, Crashes, ChildDone, Returns

LEMMA StepRefines == [CtrdNext]_vars => [Next]_managerVars
<1> SUFFICES ASSUME [CtrdNext]_vars
             PROVE  [Next]_managerVars
    OBVIOUS
<1>1. ASSUME NEW n \in 0 .. MaxNum, NEW cmds \in Batches, RunBatch(n, cmds)
      PROVE  Next
    BY <1>1 DEF RunBatch, Next
<1>2. CASE MainStep
    BY <1>2 DEF MainStep, Next
<1>3. ASSUME NEW c \in Proc, ChildStep(c) \/ ChildFault(c)
      PROVE  [Next]_managerVars
    BY <1>3, ChildStepRefines DEF Next
<1>4. ASSUME NEW c \in Proc, TaskStops(c)
      PROVE  UNCHANGED managerVars
    BY <1>4 DEF TaskStops
<1>5. CASE UNCHANGED vars
    BY <1>5 DEF vars
<1> QED
    BY <1>1, <1>2, <1>3, <1>4, <1>5 DEF CtrdNext

\* ContainerdExec implements ForkWait, and with it the batch of its caller.
THEOREM CtrdImplementsForkWait == CtrdSpec => ImplementsForkWait
<1>1. CtrdInit => Init
    BY DEF CtrdInit
<1> QED
    BY <1>1, StepRefines, PTL DEF CtrdSpec, ImplementsForkWait, Spec
------------------------------------------------------------------------------
\* What a child has to do is a sequence of calls.
LEMMA ProgramCalls == \A cmd \in Command : Program[cmd] \in Seq(Call)
<1>1. /\ <<"prepareSnapshot", "loadOciSpec", "createContainer">> \in Seq(Call)
      /\ KillAndDeleteContainer \in Seq(Call)
    BY DEF Call, KillAndDeleteContainer
<1>2. /\ Run \in Seq(Call)
      /\ <<"killTask", "deleteTask">> \in Seq(Call)
    BY DEF Call, Run
<1>3. /\ <<"createTask">> \in Seq(Call)
      /\ <<"startTask">> \in Seq(Call)
      /\ <<"killTask">> \in Seq(Call)
      /\ <<>> \in Seq(Call)
    BY DEF Call
<1>4. /\ Program["prepare"] \in Seq(Call)
      /\ Program["killAndDeleteContainer"] \in Seq(Call)
    BY <1>1 DEF Program
<1>5. /\ Program["run"] \in Seq(Call)
      /\ Program["killAndDeleteTask"] \in Seq(Call)
    BY <1>2 DEF Program
<1>6. /\ Program["create"] \in Seq(Call)
      /\ Program["start"] \in Seq(Call)
      /\ Program["kill"] \in Seq(Call)
      /\ Program["other"] \in Seq(Call)
    BY <1>3 DEF Program
<1> QED
    BY <1>4, <1>5, <1>6 DEF Command

\* The types of all that the children and the tasks change.
CtrdTypes ==
    /\ command \in [Proc -> Command]
    /\ calls \in [Proc -> Seq(Call)]
    /\ failed \in [Proc -> BOOLEAN]
    /\ snapshot \in [Proc -> BOOLEAN]
    /\ record \in [Proc -> BOOLEAN]
    /\ task \in [Proc -> TaskState]

LEMMA ChildStepTypes ==
    ASSUME CtrdTypes, NEW c \in Proc, ChildStep(c) \/ ChildFault(c)
    PROVE  CtrdTypes'
<1> USE DEF CtrdTypes
<1>1. ASSUME NEW call \in Call, CallSucceeds(c, call)
      PROVE  CtrdTypes'
    <2>1. calls' \in [Proc -> Seq(Call)]
        <3>1. Tail(calls[c]) \in Seq(Call)
            BY <1>1 DEF CallSucceeds, AtCall
        <3> QED
            BY <1>1, <3>1 DEF CallSucceeds, Returns
    <2>2. TaskAfter(c, call) \in TaskState
        BY DEF TaskAfter, TaskState
    <2>3. task' \in [Proc -> TaskState]
        BY <1>1, <2>2 DEF CallSucceeds
    <2>4. snapshot' \in [Proc -> BOOLEAN] /\ record' \in [Proc -> BOOLEAN]
        BY <1>1, Zenon DEF CallSucceeds
    <2> QED
        BY <1>1, <2>1, <2>3, <2>4 DEF CallSucceeds, Returns
<1>2. ASSUME NEW call \in Call, CallFails(c, call)
      PROVE  CtrdTypes'
    <2>1. CASE GoesOn(c, call)
        <3>1. Tail(calls[c]) \in Seq(Call)
            BY <2>1 DEF GoesOn, AtCall
        <3> QED
            BY <2>1, <3>1 DEF GoesOn, Returns, worldVars
    <2>2. CASE Crashes(c, call)
        BY <2>2 DEF Crashes, worldVars
    <2> QED
        BY <1>2, <2>1, <2>2 DEF CallFails
<1>3. CASE ChildDone(c)
    BY <1>3 DEF ChildDone, ctrdVars, worldVars
<1> QED
    BY <1>1, <1>2, <1>3 DEF ChildStep, ChildFault, CallRefused, CallFault

LEMMA CtrdTypesStep == CtrdTypes /\ [CtrdNext]_vars => CtrdTypes'
<1> SUFFICES ASSUME CtrdTypes, [CtrdNext]_vars
             PROVE  CtrdTypes'
    OBVIOUS
<1>1. ASSUME NEW n \in 0 .. MaxNum, NEW cmds \in Batches, RunBatch(n, cmds)
      PROVE  CtrdTypes'
    <2>1. cmds \in [Proc -> Command]
        BY BatchesAssumption
    <2> QED
        BY <1>1, <2>1, ProgramCalls DEF RunBatch, CtrdTypes, worldVars
<1>2. CASE MainStep
    BY <1>2 DEF MainStep, ctrdVars, worldVars, CtrdTypes
<1>3. ASSUME NEW c \in Proc, ChildStep(c) \/ ChildFault(c)
      PROVE  CtrdTypes'
    BY <1>3, ChildStepTypes
<1>4. ASSUME NEW c \in Proc, TaskStops(c)
      PROVE  CtrdTypes'
    BY <1>4 DEF TaskStops, TaskState, CtrdTypes
<1>5. CASE UNCHANGED vars
    BY <1>5 DEF vars, ctrdVars, worldVars, CtrdTypes
<1> QED
    BY <1>1, <1>2, <1>3, <1>4, <1>5 DEF CtrdNext

\* There is no native mode.
Attached == native = FALSE

LEMMA AttachedStep == Attached /\ [CtrdNext]_vars => Attached'
<1> SUFFICES ASSUME Attached, [CtrdNext]_vars
             PROVE  Attached'
    OBVIOUS
<1>1. ASSUME NEW n \in 0 .. MaxNum, NEW cmds \in Batches, RunBatch(n, cmds)
      PROVE  Attached'
    BY <1>1 DEF RunBatch, Invoke, Attached
<1>2. CASE MainStep
    BY <1>2 DEF MainStep, Main, Fork, ForkFails, ForksDone, Wait, WaitReturns, Attached
<1>3. ASSUME NEW c \in Proc, ChildStep(c) \/ ChildFault(c)
      PROVE  Attached'
    BY <1>3, ChildStepRefines DEF ChildExit, managerVars, Attached
<1>4. ASSUME NEW c \in Proc, TaskStops(c)
      PROVE  Attached'
    BY <1>4 DEF TaskStops, managerVars, Attached
<1>5. CASE UNCHANGED vars
    BY <1>5 DEF vars, managerVars, Attached
<1> QED
    BY <1>1, <1>2, <1>3, <1>4, <1>5 DEF CtrdNext

\* The inductive invariant: that of ForkWait, the types, and no native mode.
CtrdIInv == IInv /\ CtrdTypes /\ Attached

LEMMA CtrdInvariant == CtrdSpec => []CtrdIInv
<1>1. CtrdInit => CtrdIInv
    <2> SUFFICES ASSUME CtrdInit
                 PROVE  CtrdIInv
        OBVIOUS
    <2>1. IInv /\ Attached
        BY InitIInv DEF CtrdInit, Init, Attached
    <2>2. CtrdTypes
        BY DEF CtrdInit, CtrdTypes, Command, Call, TaskState
    <2> QED
        BY <2>1, <2>2 DEF CtrdIInv
<1>2. CtrdIInv /\ [CtrdNext]_vars => CtrdIInv'
    BY StepRefines, NextIInv, CtrdTypesStep, AttachedStep DEF CtrdIInv
<1> QED
    BY <1>1, <1>2, PTL DEF CtrdSpec

\* Types of the manager, its children's programs and containerd's state.
THEOREM CtrdTypeCorrect == CtrdSpec => []CtrdTypeOK
<1>1. CtrdIInv => CtrdTypeOK
    BY DEF CtrdIInv, IInv, CtrdTypes, CtrdTypeOK
<1> QED
    BY <1>1, CtrdInvariant, PTL
------------------------------------------------------------------------------
LEMMA QuietStep ==
    CtrdIInv /\ [CtrdNext]_vars => (manager \in {"idle", "returned"} => QuietWorld)
<1> SUFFICES ASSUME CtrdIInv, [CtrdNext]_vars, manager \in {"idle", "returned"}
             PROVE  QuietWorld
    OBVIOUS
<1>1. ASSUME NEW n \in 0 .. MaxNum, NEW cmds \in Batches, RunBatch(n, cmds)
      PROVE  QuietWorld
    BY <1>1 DEF RunBatch, worldVars, QuietWorld
<1>2. CASE MainStep
    BY <1>2 DEF MainStep, ctrdVars, worldVars, QuietWorld
<1>3. ASSUME NEW c \in Proc, ChildStep(c) \/ ChildFault(c)
      PROVE  QuietWorld
    <2>1. child[c] = "running"
        BY <1>3 DEF ChildStep, ChildFault, CallSucceeds, CallRefused, CallFault,
                    CallFails, GoesOn, Crashes, ChildDone, AtCall
    <2>2. child[c] \in {"unborn", "reaped"}
        BY DEF CtrdIInv, IInv, NoChildLeftBehind, Attached
    <2> QED
        BY <2>1, <2>2
<1>4. ASSUME NEW c \in Proc, TaskStops(c)
      PROVE  QuietWorld
    BY <1>4 DEF TaskStops, QuietWorld, CtrdIInv, CtrdTypes
<1>5. CASE UNCHANGED vars
    BY <1>5 DEF vars, ctrdVars, worldVars, QuietWorld
<1> QED
    BY <1>1, <1>2, <1>3, <1>4, <1>5 DEF CtrdNext

\* While the caller has control, no command acts on containerd.
THEOREM CtrdQuietAfterReturn == CtrdSpec => QuietBetweenBatches
<1> QED
    BY CtrdInvariant, QuietStep, PTL DEF CtrdSpec, QuietBetweenBatches
==============================================================================
