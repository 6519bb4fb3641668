--------------------------- MODULE ForkWait_proof ----------------------------
(***************************************************************************)
(* Proofs about ForkWait, for every number of containers: the inductive    *)
(* invariant, what the checked invariants say, and the refinement of       *)
(* Batch.                                                                  *)
(***************************************************************************)
EXTENDS ForkWait, TLAPS

\* Main's continuation after the forks is one of two program points.
LEMMA AfterForksCases ==
    /\ native => AfterForks = "returned"
    /\ ~native => AfterForks = "waiting"
BY DEF AfterForks

\* The inductive invariant holds initially.
LEMMA InitIInv == Init => IInv
<1> SUFFICES ASSUME Init
             PROVE  IInv
    OBVIOUS
<1>1. native \in BOOLEAN
    BY Zenon DEF Init
<1> QED
    BY <1>1, MaxNumAssumption
    DEF Init, IInv, TypeOK, LaunchedIsSuffix, NoChildLeftBehind, Proc, ChildState

\* Every step of the manager and of its children preserves it.
LEMMA NextIInv == IInv /\ [Next]_managerVars => IInv'
<1> SUFFICES ASSUME IInv, [Next]_managerVars
             PROVE  IInv'
    OBVIOUS
<1> USE MaxNumAssumption
    DEF IInv, TypeOK, LaunchedIsSuffix, NoChildLeftBehind, Proc, ChildState
<1>1. ASSUME NEW n \in 0 .. MaxNum, NEW nat \in BOOLEAN, Invoke(n, nat)
      PROVE  IInv'
    BY <1>1 DEF Invoke
<1>2. CASE Fork
    <2>1. TypeOK'
        BY <1>2 DEF Fork
    <2>2. LaunchedIsSuffix'
        BY <1>2 DEF Fork
    <2>3. NoChildLeftBehind'
        BY <1>2 DEF Fork
    <2> QED
        BY <2>1, <2>2, <2>3
<1>3. CASE ForkFails
    <2>1. TypeOK' /\ LaunchedIsSuffix'
        BY <1>3, AfterForksCases DEF ForkFails
    <2>2. NoChildLeftBehind'
        BY <1>3, AfterForksCases DEF ForkFails
    <2> QED
        BY <2>1, <2>2
<1>4. CASE ForksDone
    <2>1. TypeOK' /\ LaunchedIsSuffix'
        BY <1>4, AfterForksCases DEF ForksDone
    <2>2. NoChildLeftBehind'
        BY <1>4, AfterForksCases DEF ForksDone
    <2> QED
        BY <2>1, <2>2
<1>5. ASSUME NEW c \in Proc, Wait(c)
      PROVE  IInv'
    BY <1>5 DEF Wait
<1>6. CASE WaitReturns
    BY <1>6 DEF WaitReturns
<1>7. ASSUME NEW c \in Proc, ChildExit(c)
      PROVE  IInv'
    BY <1>7 DEF ChildExit
<1>8. CASE UNCHANGED managerVars
    BY <1>8 DEF managerVars
<1> QED
    BY <1>1, <1>2, <1>3, <1>4, <1>5, <1>6, <1>7, <1>8 DEF Next, Main

\* IInv is an invariant of the manager, whatever the number of containers.
THEOREM IInvInvariant == Spec => []IInv
<1> QED
    BY InitIInv, NextIInv, PTL DEF Spec

\* Type correctness of main's variables and the children's states.
THEOREM TypeCorrect == Spec => []TypeOK
<1>1. IInv => TypeOK
    BY DEF IInv
<1> QED
    BY <1>1, IInvInvariant, PTL

\* A failing fork loses exactly the containers at and below its index.
THEOREM LaunchedSuffix == Spec => []LaunchedIsSuffix
<1>1. IInv => LaunchedIsSuffix
    BY DEF IInv
<1> QED
    BY <1>1, IInvInvariant, PTL

\* When a container manager returns, no child of its batch is left.
THEOREM NothingLeftBehind == Spec => []NoChildLeftBehind
<1>1. IInv => NoChildLeftBehind
    BY DEF IInv
<1> QED
    BY <1>1, IInvInvariant, PTL
------------------------------------------------------------------------------
(***************************************************************************)
(* The refinement: the initial state maps to an initial state of Batch,    *)
(* every step to a step of Batch or to a stutter.                          *)
(***************************************************************************)
LEMMA RefinementInit == Init => B!Init
BY MaxNumAssumption DEF Init, B!Init, BatchPhase, Proc

LEMMA RefinementNext == IInv /\ [Next]_managerVars => [B!Next]_B!vars
<1> SUFFICES ASSUME IInv, [Next]_managerVars
             PROVE  [B!Next]_B!vars
    OBVIOUS
<1> USE MaxNumAssumption
    DEF IInv, TypeOK, LaunchedIsSuffix, NoChildLeftBehind, Proc, ChildState
<1> USE DEF BatchPhase
<1>1. ASSUME NEW n \in 0 .. MaxNum, NEW nat \in BOOLEAN, Invoke(n, nat)
      PROVE  B!Next
    <2>1. \E cmds \in SUBSET Proc, d \in BOOLEAN : B!Begin(cmds, d)
        <3>1. 0 .. n - 1 \in SUBSET Proc
            OBVIOUS
        <3> WITNESS 0 .. n - 1 \in SUBSET Proc, nat \in BOOLEAN
        <3> QED
            BY <1>1 DEF Invoke, B!Begin
    <2> QED
        BY <2>1 DEF B!Next
<1>2. ASSUME Fork
      PROVE  B!Next
    <2>1. PICK c \in Proc : c = nProc
        BY <1>2 DEF Fork
    <2>2. B!Launch(c)
        BY <1>2, <2>1 DEF Fork, B!Launch
    <2> QED
        BY <2>2 DEF B!Next
<1>3. ASSUME ForkFails \/ ForksDone
      PROVE  [B!Next]_B!vars
    <2>1. CASE native
        <3>1. B!Finish
            BY <1>3, <2>1, AfterForksCases DEF ForkFails, ForksDone, B!Finish
        <3> QED
            BY <3>1 DEF B!Next
    <2>2. CASE ~native
        BY <1>3, <2>2, AfterForksCases DEF ForkFails, ForksDone, B!vars
    <2> QED
        BY <2>1, <2>2
<1>4. ASSUME NEW c \in Proc, Wait(c)
      PROVE  UNCHANGED B!vars
    BY <1>4 DEF Wait, B!vars
<1>5. ASSUME WaitReturns
      PROVE  B!Next
    <2>1. B!Finish
        BY <1>5 DEF WaitReturns, B!Finish
    <2> QED
        BY <2>1 DEF B!Next
<1>6. ASSUME NEW c \in Proc, ChildExit(c)
      PROVE  B!Next
    <2>1. B!End(c)
        BY <1>6 DEF ChildExit, B!End
    <2> QED
        BY <2>1 DEF B!Next
<1>7. ASSUME UNCHANGED managerVars
      PROVE  UNCHANGED B!vars
    BY <1>7 DEF managerVars, B!vars
<1>8. Next \/ UNCHANGED managerVars
    OBVIOUS
<1> HIDE DEF IInv, TypeOK, LaunchedIsSuffix, NoChildLeftBehind, BatchPhase
<1> QED
    BY <1>1, <1>2, <1>3, <1>4, <1>5, <1>6, <1>7, <1>8 DEF Next, Main

\* fork_rec and the wait loop implement the batch they are used for.
THEOREM ForkWaitImplementsBatch == Spec => ImplementsBatch
<1> QED
    BY RefinementInit, RefinementNext, IInvInvariant, PTL
    DEF Spec, ImplementsBatch, B!Spec
==============================================================================
