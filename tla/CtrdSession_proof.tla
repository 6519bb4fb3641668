-------------------------- MODULE CtrdSession_proof --------------------------
(***************************************************************************)
(* Proofs about CtrdSession, for every number of containers and every      *)
(* script whose batches come in an order Leads allows: a session is a      *)
(* behaviour of ContainerdExec, and whatever goes wrong for some           *)
(* containers, each batch takes all others to the stage the script expects *)
(* next, passing through known states call by call.                        *)
(***************************************************************************)
EXTENDS CtrdSession, ContainerdExec_proof

\* containerd's state of a container at each stage.
InStage(s, c) ==
    /\ s \in {"absent", "deleted"} => task[c] = "none" /\ ~record[c]
    /\ s = "absent" => ~snapshot[c]
    /\ s = "prepared" => task[c] = "none" /\ record[c]
    /\ s = "created" => task[c] = "created" /\ record[c]
    /\ s = "running" => task[c] = "running" /\ record[c]

\* containerd's state of a container before a call of its child.
Before(call, c) ==
    /\ call = "prepareSnapshot" => ~snapshot[c]
    /\ call \in {"prepareSnapshot", "loadOciSpec", "createContainer"} =>
        task[c] = "none" /\ ~record[c]
    /\ call \in {"createTask", "deleteContainer"} => task[c] = "none" /\ record[c]
    /\ call = "startTask" => task[c] = "created" /\ record[c]
    /\ call = "killTask" => task[c] \in {"created", "running"} /\ record[c]
    /\ call = "deleteTask" => task[c] \in {"created", "stopping", "stopped"} /\ record[c]

\* The calls a child of each command may have left, while there are any.
Left(cmd, rest) ==
    \/ /\ cmd = "prepare"
       /\ rest \in {<<"prepareSnapshot", "loadOciSpec", "createContainer">>,
                    <<"loadOciSpec", "createContainer">>, <<"createContainer">>}
    \/ cmd = "create" /\ rest = <<"createTask">>
    \/ cmd = "start" /\ rest = <<"startTask">>
    \/ cmd = "run" /\ rest \in {<<"createTask", "startTask">>, <<"startTask">>}
    \/ cmd = "killAndDeleteTask" /\ rest \in {<<"killTask", "deleteTask">>, <<"deleteTask">>}
    \/ /\ cmd = "killAndDeleteContainer"
       /\ rest \in {<<"killTask", "deleteTask", "deleteContainer">>,
                    <<"deleteTask", "deleteContainer">>, <<"deleteContainer">>}

\* Where a container is while its child runs.
Midway(c) ==
    \/ Left(Script[step], calls[c]) /\ Before(Head(calls[c]), c)
    \/ calls[c] = <<>> /\ InStage(Expected[step + 1], c)

\* The script's own variables.
ScriptTypes ==
    /\ step \in 1 .. Len(Script) + 1
    /\ called \in BOOLEAN
    /\ tainted \in SUBSET Proc
    /\ undeleted \in SUBSET Proc

\* What the script knows of the manager: during a call it works on the batch of
\* this step, and a fork that failed cost only tainted containers.
CallInv ==
    /\ ~called => manager \in {"idle", "returned"}
    /\ called =>
        /\ manager \in {"forking", "waiting", "returned"}
        /\ ~SessionOver
        /\ ~Sleeping
        /\ num = MaxNum
        /\ manager # "forking" => 0 .. nProc \subseteq tainted

\* A container nothing went wrong for, by the state of its child.
OnStage(c) ==
    /\ ~failed[c]
    /\ ~called => InStage(Expected[step], c)
    /\ called =>
        /\ child[c] = "unborn" => /\ calls[c] = Program[Script[step]]
                                  /\ InStage(Expected[step], c)
        /\ child[c] = "running" => Midway(c)
        /\ child[c] \in {"zombie", "reaped"} => InStage(Expected[step + 1], c)

StageInv == \A c \in Proc \ tainted : OnStage(c)

SessionIInv == CtrdIInv /\ ScriptTypes /\ CallInv /\ StageInv
------------------------------------------------------------------------------
(* A session is a behaviour of ContainerdExec.                              *)

LEMMA SessionStepRefines ==
    ASSUME IInv, ScriptTypes, [SessionNext]_allVars
    PROVE  [CtrdNext]_vars
<1>1. CASE CallManager
    <2>1. RunBatch(MaxNum, [c \in Proc |-> Script[step]])
        BY <1>1 DEF CallManager
    <2>2. step \in 1 .. Len(Script) /\ Script[step] # "sleep"
        BY <1>1, ScriptAssumption DEF CallManager, SessionOver, Sleeping, ScriptTypes
    <2>3. [c \in Proc |-> Script[step]] \in Batches
        BY <2>2, ScriptAssumption
    <2> QED
        BY <2>1, <2>3, MaxNumAssumption DEF CtrdNext
<1>2. CASE Returned \/ Sleep \/ Over
    BY <1>2 DEF Returned, Sleep, Over, allVars
<1>3. CASE ManagerStep
    BY <1>3 DEF ManagerStep, CtrdNext
<1>4. ASSUME NEW c \in Proc, CommandStep(c) \/ FaultStep(c) \/ StopStep(c)
      PROVE  CtrdNext
    BY <1>4 DEF CommandStep, FaultStep, StopStep, CtrdNext
<1>5. CASE UNCHANGED allVars
    BY <1>5 DEF allVars
<1> QED
    BY <1>1, <1>2, <1>3, <1>4, <1>5 DEF SessionNext, ScriptStep

\* The script's variables stay within their types.
LEMMA ScriptTypesStep ==
    ASSUME IInv, ScriptTypes, CallInv, [SessionNext]_allVars
    PROVE  ScriptTypes'
<1> USE ScriptAssumption DEF ScriptTypes
<1>1. CASE CallManager
    BY <1>1 DEF CallManager
<1>2. CASE Returned
    <2>1. step + 1 \in 1 .. Len(Script) + 1
        BY <1>2 DEF Returned, CallInv, SessionOver
    <2> QED
        BY <1>2, <2>1 DEF Returned
<1>3. CASE Sleep
    BY <1>3 DEF Sleep, Sleeping, SessionOver
<1>4. CASE ManagerStep
    <2>1. 0 .. nProc \subseteq Proc
        BY MaxNumAssumption DEF IInv, TypeOK, Proc
    <2> QED
        BY <1>4, <2>1 DEF ManagerStep, Taint
<1>5. ASSUME NEW c \in Proc, CommandStep(c) \/ FaultStep(c) \/ StopStep(c)
      PROVE  ScriptTypes'
    <2>1. undeleted' \in {undeleted, undeleted \ {c}, undeleted \cup {c}}
        BY <1>5 DEF CommandStep, FaultStep, StopStep, NoteDeleteTask
    <2> QED
        BY <1>5, <2>1 DEF CommandStep, FaultStep, StopStep, Taint
<1>6. CASE Over \/ UNCHANGED allVars
    BY <1>6 DEF Over, allVars, sessionVars
<1> QED
    BY <1>1, <1>2, <1>3, <1>4, <1>5, <1>6 DEF SessionNext, ScriptStep
------------------------------------------------------------------------------
(* The script and the manager                                               *)

\* A child's step changes nothing of the manager or of other containers.
LEMMA ChildFrame ==
    ASSUME CtrdIInv, NEW c \in Proc, CommandStep(c) \/ FaultStep(c) \/ StopStep(c)
    PROVE  /\ UNCHANGED <<step, called, num, native, manager, nProc>>
           /\ tainted \subseteq tainted'
           /\ \A d \in Proc \ {c} :
                /\ child'[d] = child[d]
                /\ calls'[d] = calls[d]
                /\ failed'[d] = failed[d]
                /\ snapshot'[d] = snapshot[d]
                /\ record'[d] = record[d]
                /\ task'[d] = task[d]
                /\ d \in undeleted' <=> d \in undeleted
<1>1. /\ UNCHANGED <<step, called>> /\ tainted \subseteq tainted'
      /\ \A d \in Proc \ {c} : d \in undeleted' <=> d \in undeleted
    BY DEF CommandStep, FaultStep, StopStep, Taint, NoteDeleteTask
<1>2. CASE ChildStep(c) \/ ChildFault(c)
    BY <1>1, <1>2
    DEF ChildStep, ChildFault, CallSucceeds, CallRefused, CallFault, CallFails, GoesOn,
        Crashes, ChildDone, Returns, ChildExit, managerVars, ctrdVars, worldVars,
        CtrdIInv, CtrdTypes, IInv, TypeOK
<1>3. CASE StopStep(c)
    BY <1>1, <1>3 DEF StopStep, TaskStops, managerVars, CtrdIInv, CtrdTypes
<1> QED
    BY <1>2, <1>3 DEF CommandStep, FaultStep

LEMMA CallStep ==
    ASSUME CtrdIInv, ScriptTypes, CallInv, [SessionNext]_allVars
    PROVE  CallInv'
<1> USE DEF CallInv, SessionOver, Sleeping
<1>1. CASE CallManager
    BY <1>1 DEF CallManager, RunBatch, Invoke
<1>2. CASE Returned
    BY <1>2 DEF Returned, vars, managerVars
<1>3. CASE Sleep
    BY <1>3 DEF Sleep, vars, managerVars
<1>4. CASE ManagerStep
    <2>1. UNCHANGED <<step, called, num>>
        BY <1>4 DEF ManagerStep, Taint, MainStep, Main, Fork, ForkFails, ForksDone, Wait, WaitReturns
    <2>2. called
        BY <1>4 DEF ManagerStep, MainStep, Main, Fork, ForkFails, ForksDone, Wait, WaitReturns
    <2>3. manager' \in {"forking", "waiting", "returned"}
        BY <1>4, AfterForksCases
        DEF ManagerStep, MainStep, Main, Fork, ForkFails, ForksDone, Wait, WaitReturns,
            CtrdIInv, Attached
    <2>4. manager' # "forking" => 0 .. nProc' \subseteq tainted'
        <3>1. CASE Fork
            BY <3>1 DEF Fork
        <3>2. CASE ForkFails
            BY <1>4, <3>2, AfterForksCases DEF ForkFails, ManagerStep, Taint, CtrdIInv, Attached
        <3>3. CASE ForksDone
            BY <3>3 DEF ForksDone, CtrdIInv, IInv, TypeOK
        <3>4. CASE WaitReturns \/ \E c \in Proc : Wait(c)
            BY <1>4, <2>2, <3>4 DEF WaitReturns, Wait, ManagerStep, Taint
        <3> QED
            BY <1>4, <3>1, <3>2, <3>3, <3>4 DEF ManagerStep, MainStep, Main
    <2> QED
        BY <2>1, <2>2, <2>3, <2>4
<1>5. ASSUME NEW c \in Proc, CommandStep(c) \/ FaultStep(c) \/ StopStep(c)
      PROVE  CallInv'
    BY <1>5, ChildFrame
<1>6. CASE Over \/ UNCHANGED allVars
    BY <1>6 DEF Over, allVars, sessionVars, vars, managerVars
<1> QED
    BY <1>1, <1>2, <1>3, <1>4, <1>5, <1>6 DEF SessionNext, ScriptStep
------------------------------------------------------------------------------
(* The containers nothing went wrong for                                    *)

\* The programs of the commands a session is made of, call by call.
LEMMA Programs ==
    /\ Program["prepare"] = <<"prepareSnapshot", "loadOciSpec", "createContainer">>
    /\ Program["create"] = <<"createTask">>
    /\ Program["start"] = <<"startTask">>
    /\ Program["run"] = <<"createTask", "startTask">>
    /\ Program["killAndDeleteTask"] = <<"killTask", "deleteTask">>
    /\ Program["killAndDeleteContainer"] = <<"killTask", "deleteTask", "deleteContainer">>
BY DEF Program, Run, KillAndDeleteContainer

\* What the order of the batches says of the current one.
LEMMA CurrentBatch ==
    ASSUME ScriptTypes, CallInv, called
    PROVE  Leads(Expected[step], Script[step], Expected[step + 1]) /\ Script[step] # "sleep"
BY OrderAssumption, ScriptAssumption DEF ScriptTypes, CallInv, SessionOver, Sleeping

\* A batch begins on a stage its first call is made for.
LEMMA BatchBegins ==
    ASSUME NEW c, NEW from, NEW cmd, NEW to, Leads(from, cmd, to), cmd # "sleep", InStage(from, c)
    PROVE  Left(cmd, Program[cmd]) /\ Before(Head(Program[cmd]), c)
<1>1. Left(cmd, Program[cmd])
    BY Programs DEF Leads, Left
<1>2. Before(Head(Program[cmd]), c)
    <2>1. CASE cmd = "prepare" /\ from = "absent"
        BY <2>1, Programs DEF InStage, Before
    <2>2. CASE cmd = "create" /\ from = "prepared"
        BY <2>2, Programs DEF InStage, Before
    <2>3. CASE cmd = "start" /\ from = "created"
        BY <2>3, Programs DEF InStage, Before
    <2>4. CASE cmd = "run" /\ from = "prepared"
        BY <2>4, Programs DEF InStage, Before
    <2>5. CASE cmd = "killAndDeleteTask" /\ from \in {"created", "running"}
        BY <2>5, Programs DEF InStage, Before
    <2>6. CASE cmd = "killAndDeleteContainer" /\ from \in {"created", "running"}
        BY <2>6, Programs DEF InStage, Before
    <2> QED
        BY <2>1, <2>2, <2>3, <2>4, <2>5, <2>6 DEF Leads
<1> QED
    BY <1>1, <1>2

\* The calls that can follow one another, and the last call of each command.
Follows(call, next) ==
    \/ call = "prepareSnapshot" /\ next = "loadOciSpec"
    \/ call = "loadOciSpec" /\ next = "createContainer"
    \/ call = "createTask" /\ next = "startTask"
    \/ call = "killTask" /\ next = "deleteTask"
    \/ call = "deleteTask" /\ next = "deleteContainer"

Ends(cmd, call) ==
    \/ cmd = "prepare" /\ call = "createContainer"
    \/ cmd = "create" /\ call = "createTask"
    \/ cmd \in {"start", "run"} /\ call = "startTask"
    \/ cmd = "killAndDeleteTask" /\ call = "deleteTask"
    \/ cmd = "killAndDeleteContainer" /\ call = "deleteContainer"

LEMMA Remaining ==
    ASSUME NEW cmd, NEW rest, Left(cmd, rest)
    PROVE  /\ rest # <<>>
           /\ Head(rest) \in Call
           /\ \/ Tail(rest) = <<>> /\ Ends(cmd, Head(rest))
              \/ Left(cmd, Tail(rest)) /\ Follows(Head(rest), Head(Tail(rest)))
<1>1. CASE cmd = "prepare"
    <2>1. CASE rest = <<"prepareSnapshot", "loadOciSpec", "createContainer">>
        <3>1. /\ Head(rest) = "prepareSnapshot"
              /\ Tail(rest) = <<"loadOciSpec", "createContainer">>
            BY <2>1
        <3> QED
            BY <1>1, <2>1, <3>1 DEF Left, Follows, Call
    <2>2. CASE rest = <<"loadOciSpec", "createContainer">>
        <3>1. Head(rest) = "loadOciSpec" /\ Tail(rest) = <<"createContainer">>
            BY <2>2
        <3> QED
            BY <1>1, <2>2, <3>1 DEF Left, Follows, Call
    <2>3. CASE rest = <<"createContainer">>
        BY <1>1, <2>3 DEF Ends, Call
    <2> QED
        BY <1>1, <2>1, <2>2, <2>3 DEF Left
<1>2. CASE cmd = "create" /\ rest = <<"createTask">>
    BY <1>2 DEF Ends, Call
<1>3. CASE cmd \in {"start", "run"} /\ rest = <<"startTask">>
    BY <1>3 DEF Ends, Call
<1>4. CASE cmd = "run" /\ rest = <<"createTask", "startTask">>
    <2>1. Head(rest) = "createTask" /\ Tail(rest) = <<"startTask">>
        BY <1>4
    <2> QED
        BY <1>4, <2>1 DEF Left, Follows, Call
<1>5. CASE cmd = "killAndDeleteTask"
    <2>1. CASE rest = <<"killTask", "deleteTask">>
        <3>1. Head(rest) = "killTask" /\ Tail(rest) = <<"deleteTask">>
            BY <2>1
        <3> QED
            BY <1>5, <2>1, <3>1 DEF Left, Follows, Call
    <2>2. CASE rest = <<"deleteTask">>
        BY <1>5, <2>2 DEF Ends, Call
    <2> QED
        BY <1>5, <2>1, <2>2 DEF Left
<1>6. CASE cmd = "killAndDeleteContainer"
    <2>1. CASE rest = <<"killTask", "deleteTask", "deleteContainer">>
        <3>1. /\ Head(rest) = "killTask"
              /\ Tail(rest) = <<"deleteTask", "deleteContainer">>
            BY <2>1
        <3> QED
            BY <1>6, <2>1, <3>1 DEF Left, Follows, Call
    <2>2. CASE rest = <<"deleteTask", "deleteContainer">>
        <3>1. Head(rest) = "deleteTask" /\ Tail(rest) = <<"deleteContainer">>
            BY <2>2
        <3> QED
            BY <1>6, <2>2, <3>1 DEF Left, Follows, Call
    <2>3. CASE rest = <<"deleteContainer">>
        BY <1>6, <2>3 DEF Ends, Call
    <2> QED
        BY <1>6, <2>1, <2>2, <2>3 DEF Left
<1> QED
    BY <1>1, <1>2, <1>3, <1>4, <1>5, <1>6 DEF Left

\* No call is refused on the way, except to a task that is slow to stop.
LEMMA AcceptedMidway ==
    ASSUME NEW c \in Proc, Midway(c), NEW call, AtCall(c, call)
    PROVE  Accepts(c, call) \/ task[c] = "stopping"
<1>1. Before(call, c) /\ call \in Call
    BY Remaining DEF AtCall, Midway
<1> QED
    BY <1>1 DEF Before, Accepts, Call

\* What an accepted call leaves: the state before the call that follows, and the
\* stage its command leads to when it is the last one.
LEMMA CallMovesOn ==
    ASSUME SessionIInv, called, NEW c \in Proc, Midway(c), UNCHANGED step,
           NEW call, CallSucceeds(c, call)
    PROVE  Midway(c)'
<1>1. /\ Left(Script[step], calls[c])
      /\ Before(call, c) /\ Accepts(c, call)
      /\ call = Head(calls[c])
    BY DEF CallSucceeds, AtCall, Midway
<1>2. /\ calls'[c] = Tail(calls[c])
      /\ record'[c] = ((record[c] \/ call = "createContainer") /\ call # "deleteContainer")
      /\ task'[c] = TaskAfter(c, call)
    BY DEF CallSucceeds, Returns, SessionIInv, CtrdIInv, CtrdTypes
<1>3. /\ call \in {"prepareSnapshot", "loadOciSpec", "createContainer", "deleteContainer"} =>
            task'[c] = task[c]
      /\ call = "createTask" => task'[c] = "created"
      /\ call = "startTask" => task'[c] = "running"
      /\ call = "killTask" => task'[c] = IF task[c] = "running" THEN "stopping" ELSE task[c]
      /\ call = "deleteTask" => task'[c] = "none"
    BY <1>2 DEF TaskAfter
<1>4. CASE Left(Script[step], Tail(calls[c])) /\ Follows(call, Head(Tail(calls[c])))
    <2>1. Before(Head(calls[c]), c)'
        BY <1>1, <1>2, <1>3, <1>4 DEF Follows, Before
    <2> QED
        BY <1>2, <1>4, <2>1 DEF Midway
<1>5. CASE Tail(calls[c]) = <<>> /\ Ends(Script[step], call)
    <2>1. Leads(Expected[step], Script[step], Expected[step + 1])
        BY CurrentBatch DEF SessionIInv
    <2>2. InStage(Expected[step + 1], c)'
        BY <1>1, <1>2, <1>3, <1>5, <2>1 DEF Ends, Leads, Before, InStage
    <2> QED
        BY <1>2, <1>5, <2>2 DEF Midway
<1> QED
    BY <1>1, <1>4, <1>5, Remaining

\* A step of a child, with nothing going wrong, leaves its container on the way
\* or at its end.
LEMMA OwnStep ==
    ASSUME SessionIInv, NEW c \in Proc \ tainted, CommandStep(c), c \notin tainted'
    PROVE  OnStage(c)'
<1>1. child[c] = "running"
    BY DEF CommandStep, ChildStep, CallSucceeds, CallRefused, CallFails, GoesOn, Crashes,
           ChildDone, AtCall
<1>2. called
    BY <1>1 DEF SessionIInv, CallInv, CtrdIInv, IInv, NoChildLeftBehind, Attached
<1>3. Midway(c) /\ ~failed[c]
    BY <1>1, <1>2 DEF SessionIInv, StageInv, OnStage
<1>4. UNCHANGED <<step, called>>
    BY DEF CommandStep, Taint
<1>5. ASSUME NEW call, CallSucceeds(c, call)
      PROVE  OnStage(c)'
    <2>1. UNCHANGED <<child, failed>>
        BY <1>5 DEF CallSucceeds, Returns, managerVars
    <2>2. Midway(c)'
        BY <1>2, <1>3, <1>4, <1>5, CallMovesOn
    <2> QED
        BY <1>1, <1>2, <1>3, <1>4, <2>1, <2>2 DEF OnStage
<1>6. ASSUME NEW call, CallRefused(c, call)
      PROVE  FALSE
    <2>1. task[c] = "stopping"
        BY <1>3, <1>6, AcceptedMidway DEF CallRefused, CallFails, GoesOn, Crashes
    <2>2. failed'[c]
        BY <1>6 DEF CallRefused, CallFails, GoesOn, Crashes, SessionIInv, CtrdIInv, CtrdTypes
    <2> QED
        BY <2>1, <2>2 DEF CommandStep, Taint
<1>7. CASE ChildDone(c)
    <2>1. child'[c] = "zombie" /\ UNCHANGED <<calls, failed, snapshot, record, task>>
        BY <1>7 DEF ChildDone, ChildExit, ctrdVars, worldVars, SessionIInv, CtrdIInv, IInv, TypeOK
    <2>2. InStage(Expected[step + 1], c)
        BY <1>3, <1>7, Remaining DEF ChildDone, Midway
    <2> QED
        BY <1>2, <1>3, <1>4, <2>1, <2>2 DEF OnStage, InStage
<1> QED
    BY <1>5, <1>6, <1>7 DEF CommandStep, ChildStep

\* A task stops by itself only on the way, after killTask.
LEMMA StopIsExpected ==
    ASSUME SessionIInv, NEW c \in Proc \ tainted, StopStep(c), c \notin tainted'
    PROVE  OnStage(c)'
<1>1. task[c] = "stopping" /\ task'[c] = "stopped"
    BY DEF StopStep, TaskStops, Live, Taint, SessionIInv, CtrdIInv, CtrdTypes
<1>2. UNCHANGED <<step, called, child, calls, failed, snapshot, record>>
    BY DEF StopStep, TaskStops, Taint, managerVars
<1>3. ~InStage(Expected[step], c)
    <2>1. Expected[step] \in Stage
        BY OrderAssumption DEF SessionIInv, ScriptTypes
    <2> QED
        BY <1>1, <2>1 DEF InStage, Stage
<1>4. called => ~InStage(Expected[step + 1], c)
    <2>1. called => Expected[step + 1] \in Stage
        BY CurrentBatch DEF SessionIInv, Leads, Stage
    <2> QED
        BY <1>1, <2>1 DEF InStage, Stage
<1>5. OnStage(c)
    BY DEF SessionIInv, StageInv
<1>6. ASSUME called, Midway(c)
      PROVE  Midway(c)'
    BY <1>1, <1>2, <1>4, <1>6, Remaining DEF Midway, Before, Call
<1> QED
    BY <1>2, <1>3, <1>4, <1>5, <1>6 DEF OnStage, SessionIInv, CtrdIInv, IInv, TypeOK, ChildState

\* Every step of a child leaves every container where the script expects it.
LEMMA ChildStage ==
    ASSUME SessionIInv, NEW c \in Proc, CommandStep(c) \/ FaultStep(c) \/ StopStep(c)
    PROVE  StageInv'
<1> SUFFICES ASSUME NEW d \in Proc, d \notin tainted'
             PROVE  OnStage(d)'
    BY DEF StageInv
<1>1. d \notin tainted /\ OnStage(d)
    BY ChildFrame DEF SessionIInv, StageInv
<1>2. CASE d # c
    BY <1>1, <1>2, ChildFrame DEF SessionIInv, OnStage, Midway, Before, InStage
<1>3. CASE d = c /\ StopStep(c)
    BY <1>1, <1>3, StopIsExpected
<1>4. CASE d = c /\ CommandStep(c)
    BY <1>1, <1>4, OwnStep
<1>5. ~(d = c /\ FaultStep(c))
    BY DEF FaultStep, Taint
<1> QED
    BY <1>2, <1>3, <1>4, <1>5

\* What a step of the manager is to a child.
ChildMoves(c) ==
    \/ child'[c] = child[c]
    \/ child[c] = "zombie" /\ child'[c] = "reaped"
    \/ child[c] = "unborn" /\ child'[c] = "running"

LEMMA ManagerMoves ==
    ASSUME SessionIInv, ManagerStep, NEW d \in Proc
    PROVE  ChildMoves(d)
<1> USE DEF ChildMoves
<1>1. child \in [Proc -> ChildState]
    BY DEF SessionIInv, CtrdIInv, IInv, TypeOK
<1>2. CASE Fork
    BY <1>1, <1>2, MaxNumAssumption
    DEF Fork, SessionIInv, CtrdIInv, IInv, LaunchedIsSuffix, TypeOK, Proc
<1>3. CASE ForkFails \/ ForksDone \/ WaitReturns
    BY <1>3 DEF ForkFails, ForksDone, WaitReturns
<1>4. CASE \E c \in Proc : Wait(c)
    BY <1>1, <1>4 DEF Wait
<1> QED
    BY <1>2, <1>3, <1>4 DEF ManagerStep, MainStep, Main

\* Every step of the manager does so, too.
LEMMA ManagerStage ==
    ASSUME SessionIInv, ManagerStep
    PROVE  StageInv'
<1> SUFFICES ASSUME NEW d \in Proc, d \notin tainted'
             PROVE  OnStage(d)'
    BY DEF StageInv
<1>1. UNCHANGED <<step, called, calls, failed, snapshot, record, task>>
    BY DEF ManagerStep, MainStep, Taint, ctrdVars, worldVars
<1>2. d \notin tainted /\ OnStage(d)
    BY DEF ManagerStep, Taint, SessionIInv, StageInv
<1>3. ChildMoves(d)
    BY ManagerMoves
<1>4. called
    BY DEF ManagerStep, MainStep, Main, Fork, ForkFails, ForksDone, Wait, WaitReturns,
       SessionIInv, CallInv
<1>5. child[d] = "unborn" => Midway(d)
    BY <1>2, <1>4, CurrentBatch, BatchBegins DEF OnStage, Midway, SessionIInv
<1>6. Midway(d) => Midway(d)'
    BY <1>1 DEF Midway, Before, InStage
<1> QED
    BY <1>1, <1>2, <1>3, <1>4, <1>5, <1>6 DEF ChildMoves, OnStage, InStage

\* The script begins and ends its batches and tests on the stages it expects.
LEMMA ScriptStage ==
    ASSUME SessionIInv, ScriptStep
    PROVE  StageInv'
<1> SUFFICES ASSUME NEW d \in Proc \ tainted
             PROVE  OnStage(d)'
    BY DEF StageInv, ScriptStep, CallManager, Returned, Sleep
<1>1. OnStage(d)
    BY DEF SessionIInv, StageInv
<1>2. CASE CallManager
    <2>1. /\ ~called /\ called' /\ UNCHANGED <<step, snapshot, record, task>>
          /\ child'[d] = "unborn" /\ ~failed'[d]
          /\ calls'[d] = Program[Script[step]]
        BY <1>2 DEF CallManager, RunBatch, Invoke, worldVars
    <2> QED
        BY <1>1, <2>1 DEF OnStage, InStage
<1>3. CASE Returned
    <2>1. /\ called /\ ~called' /\ step' = step + 1 /\ manager = "returned"
          /\ UNCHANGED <<failed, snapshot, record, task>>
        BY <1>3 DEF Returned, vars, ctrdVars, worldVars
    <2>2. child[d] = "reaped"
        <3>1. d > nProc /\ d < num
            BY <2>1, MaxNumAssumption DEF SessionIInv, CallInv, CtrdIInv, IInv, TypeOK, Proc
        <3>2. child[d] # "unborn"
            BY <3>1 DEF SessionIInv, CtrdIInv, IInv, LaunchedIsSuffix, TypeOK, Proc
        <3> QED
            BY <2>1, <3>2 DEF SessionIInv, CtrdIInv, IInv, NoChildLeftBehind, Attached
    <2> QED
        BY <1>1, <2>1, <2>2 DEF OnStage, InStage
<1>4. CASE Sleep
    <2>1. /\ step' = step + 1 /\ Sleeping
          /\ UNCHANGED <<called, failed, snapshot, record, task>>
        BY <1>4 DEF Sleep, vars, ctrdVars, worldVars
    <2>2. ~called
        BY <2>1 DEF SessionIInv, CallInv
    <2>3. Expected[step] = "running" /\ Expected[step + 1] = "running"
        BY <2>1, OrderAssumption, ScriptAssumption
        DEF SessionIInv, ScriptTypes, Sleeping, SessionOver, Leads
    <2> QED
        BY <1>1, <2>1, <2>2, <2>3 DEF OnStage, InStage
<1> QED
    BY <1>2, <1>3, <1>4 DEF ScriptStep

LEMMA SessionIInvStep == SessionIInv /\ [SessionNext]_allVars => SessionIInv'
<1> SUFFICES ASSUME SessionIInv, [SessionNext]_allVars
             PROVE  SessionIInv'
    OBVIOUS
<1>1. CtrdIInv'
    BY SessionStepRefines, StepRefines, NextIInv, CtrdTypesStep, AttachedStep
    DEF SessionIInv, CtrdIInv
<1>2. ScriptTypes' /\ CallInv'
    BY ScriptTypesStep, CallStep DEF SessionIInv, CtrdIInv
<1>3. StageInv'
    <2>1. CASE \E c \in Proc : CommandStep(c) \/ FaultStep(c) \/ StopStep(c)
        BY <2>1, ChildStage
    <2>2. CASE UNCHANGED allVars
        BY <2>2
        DEF SessionIInv, StageInv, OnStage, Midway, Before, InStage,
            allVars, sessionVars, vars, managerVars, ctrdVars, worldVars
    <2> QED
        BY <2>1, <2>2, ScriptStage, ManagerStage DEF SessionNext, Over
<1> QED
    BY <1>1, <1>2, <1>3 DEF SessionIInv

LEMMA SessionIInvInit == SessionInit => SessionIInv
<1> SUFFICES ASSUME SessionInit
             PROVE  SessionIInv
    OBVIOUS
<1>1. IInv /\ Attached
    BY InitIInv DEF SessionInit, CtrdInit, Init, Attached
<1>2. CtrdTypes
    BY DEF SessionInit, CtrdInit, CtrdTypes, Command, Call, TaskState
<1>3. ScriptTypes /\ CallInv
    <2>1. 1 \in 1 .. Len(Script) + 1
        BY ScriptAssumption
    <2>2. ScriptTypes
        BY <2>1 DEF SessionInit, ScriptTypes
    <2>3. CallInv
        BY DEF SessionInit, CtrdInit, Init, CallInv
    <2> QED
        BY <2>2, <2>3
<1>4. StageInv
    BY OrderAssumption DEF SessionInit, CtrdInit, StageInv, OnStage, InStage
<1> QED
    BY <1>1, <1>2, <1>3, <1>4 DEF SessionIInv, CtrdIInv

LEMMA SessionInvariant == SessionSpec => []SessionIInv
<1> QED
    BY SessionIInvInit, SessionIInvStep, PTL DEF SessionSpec
------------------------------------------------------------------------------
(* What becomes of the tasks of all containers                              *)

\* The child's calls are what its command still has to do, for any container.
OnProgram(c) ==
    /\ calls[c] = <<>> \/ Left(Script[step], calls[c])
    /\ child[c] = "unborn" => calls[c] = Program[Script[step]]

TaskGone(c) == task[c] = "none" \/ c \in undeleted

\* The child has its deleteTask call before it.
ToDelete(c) ==
    /\ child[c] = "running"
    /\ calls[c] # <<>>
    /\ Head(calls[c]) \in {"killTask", "deleteTask"}

Deletion(c) ==
    /\ ~record[c] => TaskGone(c)
    /\ called => OnProgram(c)
    /\ called /\ Script[step] = "killAndDeleteContainer" =>
          child[c] = "unborn" \/ ToDelete(c) \/ TaskGone(c)
    /\ ~called /\ step = 1 => task[c] = "none"
    /\ ~called /\ step > 1 /\ Script[step - 1] = "killAndDeleteContainer" =>
          child[c] = "unborn" \/ TaskGone(c)

DeletionInv == \A c \in Proc : Deletion(c)

LEMMA SteppingChild ==
    ASSUME SessionIInv, NEW c \in Proc, CommandStep(c) \/ FaultStep(c)
    PROVE  called /\ child[c] = "running"
<1>1. child[c] = "running"
    BY DEF CommandStep, FaultStep, ChildStep, ChildFault, CallSucceeds, CallRefused, CallFault,
           CallFails, GoesOn, Crashes, ChildDone, AtCall
<1>2. called
    BY <1>1 DEF SessionIInv, CallInv, CtrdIInv, IInv, NoChildLeftBehind, Attached
<1> QED
    BY <1>1, <1>2

\* The call that comes after the current one, above all in killAndDeleteContainer.
LEMMA NextCall ==
    ASSUME NEW cmd, NEW rest, Left(cmd, rest)
    PROVE  /\ Tail(rest) = <<>> \/ Left(cmd, Tail(rest))
           /\ cmd = "killAndDeleteContainer" =>
                /\ Head(rest) \in {"killTask", "deleteTask", "deleteContainer"}
                /\ Head(rest) = "killTask" =>
                      Tail(rest) # <<>> /\ Head(Tail(rest)) = "deleteTask"
           /\ Head(rest) = "deleteContainer" => cmd = "killAndDeleteContainer"
<1>1. Tail(rest) = <<>> \/ Left(cmd, Tail(rest))
    BY Remaining
<1>2. CASE cmd = "killAndDeleteContainer"
    <2>1. CASE rest = <<"killTask", "deleteTask", "deleteContainer">>
        <3>1. Head(rest) = "killTask" /\ Tail(rest) = <<"deleteTask", "deleteContainer">>
            BY <2>1
        <3>2. /\ Head(<<"deleteTask", "deleteContainer">>) = "deleteTask"
              /\ <<"deleteTask", "deleteContainer">> # <<>>
            OBVIOUS
        <3> QED
            BY <1>1, <1>2, <3>1, <3>2
    <2>2. CASE rest \in {<<"deleteTask", "deleteContainer">>, <<"deleteContainer">>}
        BY <1>1, <1>2, <2>2
    <2> QED
        BY <1>2, <2>1, <2>2 DEF Left
<1>3. CASE cmd # "killAndDeleteContainer"
    <2>1. Head(rest) # "deleteContainer"
        BY <1>3 DEF Left
    <2> QED
        BY <1>1, <1>3, <2>1
<1> QED
    BY <1>2, <1>3

\* What a deletion that was made or tried has left of a task stays so.
LEMMA CallDeletes ==
    ASSUME SessionIInv, NEW c \in Proc, CommandStep(c), NEW call, CallSucceeds(c, call)
    PROVE  /\ call = "deleteTask" => TaskGone(c)'
           /\ call # "createTask" /\ TaskGone(c) => TaskGone(c)'
           /\ calls'[c] = Tail(calls[c]) /\ child'[c] = child[c]
           /\ record'[c] = ((record[c] \/ call = "createContainer") /\ call # "deleteContainer")
<1>1. /\ task'[c] = TaskAfter(c, call)
      /\ calls'[c] = Tail(calls[c]) /\ child'[c] = child[c]
      /\ record'[c] = ((record[c] \/ call = "createContainer") /\ call # "deleteContainer")
    BY DEF CallSucceeds, Returns, managerVars, SessionIInv, CtrdIInv, CtrdTypes
<1>2. Accepts(c, call) /\ AtCall(c, call)
    BY DEF CallSucceeds
<1>3. call = "deleteTask" => task'[c] = "none"
    BY <1>1 DEF TaskAfter
<1>4. ASSUME call # "createTask", call # "deleteTask", TaskGone(c)
      PROVE  TaskGone(c)'
    <2>1. undeleted' = undeleted
        BY <1>2, <1>4 DEF CommandStep, NoteDeleteTask, AtCall
    <2>2. task[c] = "none" => task'[c] = "none"
        BY <1>1, <1>2, <1>4 DEF TaskAfter, Accepts
    <2> QED
        BY <1>4, <2>1, <2>2 DEF TaskGone
<1> QED
    BY <1>1, <1>3, <1>4 DEF TaskGone

LEMMA CallLeaves ==
    ASSUME SessionIInv, NEW c \in Proc, NEW call,
           \/ CommandStep(c) /\ CallRefused(c, call)
           \/ FaultStep(c) /\ CallFault(c, call)
    PROVE  /\ undeleted \subseteq undeleted'
           /\ call = "deleteTask" => c \in undeleted'
           /\ UNCHANGED <<record, task>>
           /\ \/ calls'[c] = Tail(calls[c]) /\ child'[c] = child[c]
              \/ /\ calls'[c] = calls[c] /\ child'[c] = "zombie"
                 /\ call \notin {"killTask", "deleteContainer"}
<1>1. AtCall(c, call) /\ UNCHANGED <<record, task>>
    BY DEF CallRefused, CallFault, CallFails, GoesOn, Crashes, worldVars
<1>2. undeleted \subseteq undeleted' /\ (call = "deleteTask" => c \in undeleted')
    <2>1. CASE CommandStep(c) /\ CallRefused(c, call)
        BY <1>1, <2>1 DEF CommandStep, NoteDeleteTask, CallRefused, AtCall
    <2>2. CASE FaultStep(c) /\ CallFault(c, call)
        BY <1>1, <2>2 DEF FaultStep, NoteDeleteTask, AtCall
    <2> QED
        BY <2>1, <2>2
<1>3. CASE GoesOn(c, call)
    BY <1>1, <1>2, <1>3 DEF GoesOn, Returns, managerVars, SessionIInv, CtrdIInv, CtrdTypes
<1>4. CASE Crashes(c, call)
    BY <1>1, <1>2, <1>4
    DEF Crashes, ChildExit, FallsOffEnd, SessionIInv, CtrdIInv, IInv, TypeOK
<1> QED
    BY <1>3, <1>4 DEF CallRefused, CallFault, CallFails

LEMMA OwnDeletion ==
    ASSUME SessionIInv, NEW c \in Proc, Deletion(c), CommandStep(c) \/ FaultStep(c)
    PROVE  Deletion(c)'
<1>1. called /\ child[c] = "running" /\ UNCHANGED <<step, called>>
    BY SteppingChild DEF CommandStep, FaultStep, Taint
<1>2. calls[c] = <<>> \/ Left(Script[step], calls[c])
    BY <1>1 DEF Deletion, OnProgram
<1>3. ASSUME NEW call, AtCall(c, call)
      PROVE  /\ calls[c] # <<>> /\ call = Head(calls[c]) /\ Left(Script[step], calls[c])
             /\ Tail(calls[c]) = <<>> \/ Left(Script[step], Tail(calls[c]))
             /\ Script[step] = "killAndDeleteContainer" =>
                  /\ call \in {"killTask", "deleteTask", "deleteContainer"}
                  /\ call = "killTask" =>
                        Tail(calls[c]) # <<>> /\ Head(Tail(calls[c])) = "deleteTask"
                  /\ call = "deleteContainer" => TaskGone(c)
             /\ call = "deleteContainer" => Script[step] = "killAndDeleteContainer"
    <2>1. calls[c] # <<>> /\ call = Head(calls[c]) /\ Left(Script[step], calls[c])
        BY <1>2, <1>3 DEF AtCall
    <2>2. Script[step] = "killAndDeleteContainer" /\ call = "deleteContainer" => TaskGone(c)
        BY <1>1, <2>1 DEF Deletion, ToDelete
    <2>3. /\ Tail(calls[c]) = <<>> \/ Left(Script[step], Tail(calls[c]))
          /\ Script[step] = "killAndDeleteContainer" =>
                /\ Head(calls[c]) \in {"killTask", "deleteTask", "deleteContainer"}
                /\ Head(calls[c]) = "killTask" =>
                      Tail(calls[c]) # <<>> /\ Head(Tail(calls[c])) = "deleteTask"
          /\ Head(calls[c]) = "deleteContainer" => Script[step] = "killAndDeleteContainer"
        BY <2>1, NextCall
    <2> QED
        BY <2>1, <2>2, <2>3
<1>4. ASSUME NEW call, CommandStep(c), CallSucceeds(c, call)
      PROVE  Deletion(c)'
    <2>1. AtCall(c, call) /\ Accepts(c, call)
        BY <1>4 DEF CallSucceeds
    <2>2. ~record'[c] => TaskGone(c)'
        <3>1. CASE call = "createTask"
            BY <1>4, <2>1, <3>1, CallDeletes DEF Accepts
        <3>2. CASE call # "createTask"
            BY <1>3, <1>4, <2>1, <3>2, CallDeletes DEF Deletion
        <3> QED
            BY <3>1, <3>2
    <2>3. OnProgram(c)'
        BY <1>1, <1>3, <1>4, <2>1, CallDeletes DEF OnProgram
    <2>4. Script[step] = "killAndDeleteContainer" => ToDelete(c)' \/ TaskGone(c)'
        BY <1>1, <1>3, <1>4, <2>1, CallDeletes DEF ToDelete
    <2> QED
        BY <1>1, <2>2, <2>3, <2>4 DEF Deletion
<1>5. ASSUME NEW call, \/ CommandStep(c) /\ CallRefused(c, call)
                       \/ FaultStep(c) /\ CallFault(c, call)
      PROVE  Deletion(c)'
    <2>1. AtCall(c, call)
        BY <1>5 DEF CallRefused, CallFault, CallFails, GoesOn, Crashes
    <2>2. TaskGone(c) => TaskGone(c)'
        BY <1>5, CallLeaves DEF TaskGone
    <2>3. OnProgram(c)'
        BY <1>1, <1>3, <1>5, <2>1, CallLeaves DEF OnProgram
    <2>4. Script[step] = "killAndDeleteContainer" => ToDelete(c)' \/ TaskGone(c)'
        BY <1>1, <1>3, <1>5, <2>1, <2>2, CallLeaves DEF ToDelete, TaskGone
    <2> QED
        BY <1>1, <1>5, <2>2, <2>3, <2>4, CallLeaves DEF Deletion
<1>6. CASE CommandStep(c) /\ ChildDone(c)
    <2>1. /\ child'[c] = "zombie" /\ calls[c] = <<>>
          /\ UNCHANGED <<calls, record, task, undeleted>>
        BY <1>6
        DEF CommandStep, NoteDeleteTask, AtCall, ChildDone, ChildExit, ctrdVars, worldVars,
            SessionIInv, CtrdIInv, IInv, TypeOK
    <2> QED
        BY <1>1, <2>1 DEF Deletion, OnProgram, TaskGone, ToDelete
<1> QED
    BY <1>4, <1>5, <1>6 DEF CommandStep, FaultStep, ChildStep, ChildFault

LEMMA ChildDeletion ==
    ASSUME SessionIInv, DeletionInv, NEW c \in Proc,
           CommandStep(c) \/ FaultStep(c) \/ StopStep(c)
    PROVE  DeletionInv'
<1> SUFFICES ASSUME NEW d \in Proc
             PROVE  Deletion(d)'
    BY DEF DeletionInv
<1>1. Deletion(d)
    BY DEF DeletionInv
<1>2. CASE d # c
    BY <1>1, <1>2, ChildFrame DEF SessionIInv, Deletion, OnProgram, TaskGone, ToDelete
<1>3. CASE d = c /\ StopStep(c)
    <2>1. /\ task[c] # "none"
          /\ UNCHANGED <<step, called, undeleted, child, calls, record>>
        BY <1>3 DEF StopStep, TaskStops, Live, Taint, managerVars
    <2> QED
        BY <1>1, <1>3, <2>1 DEF Deletion, OnProgram, TaskGone, ToDelete
<1> QED
    BY <1>1, <1>2, <1>3, OwnDeletion

LEMMA ManagerDeletion ==
    ASSUME SessionIInv, DeletionInv, ManagerStep
    PROVE  DeletionInv'
<1> SUFFICES ASSUME NEW d \in Proc
             PROVE  Deletion(d)'
    BY DEF DeletionInv
<1>1. Deletion(d) /\ called
    BY DEF DeletionInv, ManagerStep, MainStep, Main, Fork, ForkFails, ForksDone, Wait,
           WaitReturns, SessionIInv, CallInv
<1>2. UNCHANGED <<step, called, undeleted, calls, record, task>>
    BY DEF ManagerStep, MainStep, Taint, ctrdVars, worldVars
<1>3. ASSUME child[d] = "unborn", Script[step] = "killAndDeleteContainer"
      PROVE  calls[d] # <<>> /\ Head(calls[d]) = "killTask"
    BY <1>1, <1>3, Programs DEF Deletion, OnProgram
<1>4. ChildMoves(d)
    BY ManagerMoves
<1> QED
    BY <1>1, <1>2, <1>3, <1>4 DEF ChildMoves, Deletion, OnProgram, TaskGone, ToDelete

LEMMA ScriptDeletion ==
    ASSUME SessionIInv, DeletionInv, ScriptStep
    PROVE  DeletionInv'
<1> SUFFICES ASSUME NEW d \in Proc
             PROVE  Deletion(d)'
    BY DEF DeletionInv
<1>1. Deletion(d)
    BY DEF DeletionInv
<1>2. CASE CallManager
    <2>1. /\ ~called /\ called' /\ UNCHANGED <<step, undeleted, record, task>>
          /\ child'[d] = "unborn" /\ calls'[d] = Program[Script[step]]
          /\ ~SessionOver /\ ~Sleeping
        BY <1>2 DEF CallManager, RunBatch, Invoke, worldVars
    <2>2. Left(Script[step], Program[Script[step]])
        <3>1. Leads(Expected[step], Script[step], Expected[step + 1]) /\ Script[step] # "sleep"
            BY <2>1, OrderAssumption, ScriptAssumption
            DEF SessionIInv, ScriptTypes, SessionOver, Sleeping
        <3> QED
            BY <3>1, Programs DEF Leads, Left
    <2> QED
        BY <1>1, <2>1, <2>2 DEF Deletion, OnProgram, TaskGone
<1>3. CASE Returned
    <2>1. /\ called /\ ~called' /\ step' = step + 1 /\ manager = "returned"
          /\ UNCHANGED <<undeleted, child, calls, record, task>>
        BY <1>3 DEF Returned, vars, managerVars, ctrdVars, worldVars
    <2>2. child[d] # "running"
        BY <2>1 DEF SessionIInv, CtrdIInv, IInv, NoChildLeftBehind, Attached
    <2>3. step' - 1 = step /\ step' # 1
        BY <2>1 DEF SessionIInv, ScriptTypes
    <2>4. Script[step] = "killAndDeleteContainer" => child[d] = "unborn" \/ TaskGone(d)
        BY <1>1, <2>1, <2>2 DEF Deletion, ToDelete
    <2>5. TaskGone(d)' <=> TaskGone(d)
        BY <2>1 DEF TaskGone
    <2> QED
        BY <1>1, <2>1, <2>3, <2>4, <2>5 DEF Deletion, TaskGone, ToDelete
<1>4. CASE Sleep
    <2>1. /\ step' = step + 1 /\ Script[step] = "sleep"
          /\ UNCHANGED <<called, undeleted, child, calls, record, task>>
        BY <1>4 DEF Sleep, Sleeping, vars, managerVars, ctrdVars, worldVars
    <2>2. ~called /\ step' - 1 = step /\ step' # 1
        BY <1>4, <2>1 DEF Sleep, SessionIInv, CallInv, ScriptTypes
    <2> QED
        BY <1>1, <2>1, <2>2 DEF Deletion, TaskGone
<1> QED
    BY <1>2, <1>3, <1>4 DEF ScriptStep

LEMMA DeletionStep == SessionIInv /\ DeletionInv /\ [SessionNext]_allVars => DeletionInv'
<1> SUFFICES ASSUME SessionIInv, DeletionInv, [SessionNext]_allVars
             PROVE  DeletionInv'
    OBVIOUS
<1>1. CASE UNCHANGED allVars
    BY <1>1
    DEF DeletionInv, Deletion, OnProgram, TaskGone, ToDelete,
        allVars, sessionVars, vars, managerVars, ctrdVars, worldVars
<1> QED
    BY <1>1, ScriptDeletion, ManagerDeletion, ChildDeletion DEF SessionNext, Over

LEMMA DeletionInit == SessionInit => DeletionInv
BY DEF SessionInit, CtrdInit, DeletionInv, Deletion, TaskGone

LEMMA DeletionInvariant == SessionSpec => []DeletionInv
<1> QED
    BY DeletionInit, DeletionStep, SessionInvariant, PTL DEF SessionSpec
------------------------------------------------------------------------------
(* What it says of a session                                                *)

\* What the script does with the manager is what ContainerdExec's callers may
\* do: all that is proved of ContainerdExec holds during a session.
THEOREM SessionImplementsContainerdExec == SessionSpec => CtrdSpec
<1>1. SessionInit => CtrdInit
    BY DEF SessionInit
<1>2. SessionIInv /\ [SessionNext]_allVars => [CtrdNext]_vars
    BY SessionStepRefines DEF SessionIInv, CtrdIInv
<1> QED
    BY <1>1, <1>2, SessionInvariant, PTL DEF SessionSpec, CtrdSpec

\* Types of the script, the manager, its children and containerd.
THEOREM SessionTypeCorrect == SessionSpec => []SessionTypeOK
<1>1. SessionIInv => SessionTypeOK
    BY DEF SessionIInv, CtrdIInv, IInv, CtrdTypes, CtrdTypeOK, ScriptTypes, SessionTypeOK
<1> QED
    BY <1>1, SessionInvariant, PTL

\* No call for a container nothing went wrong for is refused, so no child of
\* such a container comes to the functions that end without a return value.
THEOREM CallsSucceed == SessionSpec => []SoundCallsSucceed
<1>1. SessionIInv => SoundCallsSucceed
    BY DEF SessionIInv, StageInv, OnStage, SoundCallsSucceed, Sound
<1> QED
    BY <1>1, SessionInvariant, PTL

\* Each test of a session measures tasks that are all running.
THEOREM TestsMeasureRunning == SessionSpec => []MeasuredTasksRun
<1>1. SessionIInv => MeasuredTasksRun
    <2> SUFFICES ASSUME SessionIInv, Sleeping, NEW c \in Sound
                 PROVE  task[c] = "running"
        BY DEF MeasuredTasksRun
    <2>1. ~called
        BY DEF SessionIInv, CallInv
    <2>2. Expected[step] = "running"
        BY OrderAssumption, ScriptAssumption
        DEF SessionIInv, ScriptTypes, Sleeping, SessionOver, Leads
    <2> QED
        BY <2>1, <2>2 DEF SessionIInv, StageInv, OnStage, InStage, Sound
<1> QED
    BY <1>1, SessionInvariant, PTL

\* A task without a container record is one whose deletion failed, whatever went
\* wrong for its container besides.
THEOREM NoTaskOrphaned == SessionSpec => []NoOrphanTask
<1>1. DeletionInv => NoOrphanTask
    BY DEF DeletionInv, Deletion, TaskGone, NoOrphanTask
<1> QED
    BY <1>1, DeletionInvariant, PTL

\* A session that is over has left nothing but snapshots of the containers nothing
\* went wrong for, and a task of any other only when its deletion failed or no child
\* was forked for it in the last batch.
THEOREM NothingLeft == SessionSpec => []SessionLeavesNothing
<1>1. SessionIInv /\ DeletionInv => SessionLeavesNothing
    <2> SUFFICES ASSUME SessionIInv, DeletionInv, SessionOver
                 PROVE  /\ \A c \in Sound : task[c] = "none" /\ ~record[c]
                        /\ \A c \in Proc : task[c] # "none" =>
                                              c \in undeleted \/ child[c] = "unborn"
        BY DEF SessionLeavesNothing
    <2>1. ~called
        BY DEF SessionIInv, CallInv
    <2>2. step = Len(Script) + 1
        BY ScriptAssumption DEF SessionIInv, ScriptTypes, SessionOver
    <2>3. \A c \in Sound : task[c] = "none" /\ ~record[c]
        BY <2>1, <2>2, OrderAssumption
        DEF SessionIInv, StageInv, OnStage, InStage, Sound
    <2>4. ASSUME NEW c \in Proc, task[c] # "none"
          PROVE  c \in undeleted \/ child[c] = "unborn"
        <3>1. CASE Len(Script) = 0
            BY <2>1, <2>2, <2>4, <3>1 DEF DeletionInv, Deletion
        <3>2. CASE Len(Script) > 0
            <4>1. /\ Len(Script) \in 1 .. Len(Script) /\ step - 1 = Len(Script) /\ step > 1
                BY <2>2, <3>2, ScriptAssumption
            <4>2. Script[Len(Script)] = "killAndDeleteContainer"
                BY <4>1, OrderAssumption DEF Leads
            <4> QED
                BY <2>1, <2>4, <4>1, <4>2 DEF DeletionInv, Deletion, TaskGone
        <3> QED
            BY <3>1, <3>2, ScriptAssumption
    <2> QED
        BY <2>3, <2>4
<1> QED
    BY <1>1, SessionInvariant, DeletionInvariant, PTL
==============================================================================
