--------------------------- MODULE Benchmark_proof ---------------------------
(***************************************************************************)
(* Proofs about Benchmark, for every list of rounds, every number of       *)
(* containers and every bound on mounts: what the rounds do is a behaviour *)
(* of ExecManager, and whatever goes wrong for some containers, each batch *)
(* takes all others from the state the script expects before the batch to  *)
(* the one it expects after it.                                            *)
(***************************************************************************)
EXTENDS Benchmark, ExecManager_proof

(***************************************************************************)
(* The two scripts of a round pass through the same states of a container: *)
(* "run" is mount, create and start in one.  A stage is where a container  *)
(* is between two commands, numbered as the steps of run-sequentiell.      *)
(***************************************************************************)
Stage == IF runType = "run" /\ step > 1 THEN step + 2 ELSE step
NextStage == IF Script[step] = "run" THEN 4 ELSE Stage + 1

\* The container is as the script expects it at stage s.
At(s, c) ==
    /\ overlay[c] = IF s \in 2 .. 9 THEN 1 ELSE 0
    /\ s \in {1, 2, 8, 9, 10} => container[c] = "none"
    /\ s = 3 => container[c] = "created"
    /\ s \in {4, 5} => container[c] = "running"
    /\ s = 6 => container[c] \in {"stopping", "stopped"}
    /\ s = 7 => container[c] = "stopped"

\* "run" is past its mount call and has not reached crun yet.
Mounted(c) ==
    /\ command[c] = "run"
    /\ overlay[c] = 1
    /\ container[c] = "none"

\* The script's own variables.
ScriptTypes ==
    /\ runType \in {"run-sequentiell", "run"}
    /\ round \in 1 .. Len(Rounds)
    /\ step \in 1 .. IF runType = "run" THEN 8 ELSE 10
    /\ called \in BOOLEAN
    /\ tainted \in SUBSET Proc
    /\ native = FALSE

\* What the script knows of the manager: during a call it works on the batch of
\* this step, and a fork that failed cost only tainted containers.
CallInv ==
    /\ ~called => manager \in {"idle", "returned"}
    /\ called =>
        /\ manager \in {"forking", "waiting", "returned"}
        /\ step <= Len(Script)
        /\ Script[step] # "sleep"
        /\ command = [c \in Proc |-> Script[step]]
        /\ manager # "forking" => 0 .. nProc \subseteq tainted
    /\ (called \/ step > 1) => num = Rounds[round]

\* A container of the current batch, by the state of its child.
InBatch(c) ==
    /\ child[c] = "unborn" => At(Stage, c) /\ ~mounted[c]
    /\ child[c] = "running" => IF mounted[c] THEN Mounted(c) ELSE At(Stage, c)
    /\ child[c] \in {"zombie", "reaped"} => At(NextStage, c)

\* A container nothing went wrong for is where the script expects it to be.
StageInv ==
    \A c \in Proc \ tainted :
        /\ outcome[c] # "failed"
        /\ called /\ c < num => InBatch(c)
        /\ ~called /\ c < num => At(Stage, c)
        /\ c >= num => At(1, c)

BenchIInv == IInv /\ ExecTypeOK /\ ScriptTypes /\ CallInv /\ StageInv
------------------------------------------------------------------------------
(* The scripts                                                              *)

ScriptStepName == Command \cup {"sleep"}

\* The commands of a round, one after the other.
LEMMA Concat ==
    ASSUME NEW S, NEW s \in Seq(S), NEW t \in Seq(S)
    PROVE  /\ s \o t \in Seq(S)
           /\ Len(s \o t) = Len(s) + Len(t)
           /\ \A i \in 1 .. Len(s) : (s \o t)[i] = s[i]
           /\ \A i \in 1 .. Len(t) : (s \o t)[Len(s) + i] = t[i]
OBVIOUS

Beginning == StartScript \o <<"sleep">>

LEMMA Beginnings ==
    /\ Beginning \in Seq(ScriptStepName)
    /\ runType = "run-sequentiell" =>
        /\ Len(StartScript) = 3 /\ Len(Beginning) = 4
        /\ Beginning[1] = "mount" /\ Beginning[2] = "create"
        /\ Beginning[3] = "start" /\ Beginning[4] = "sleep"
    /\ runType # "run-sequentiell" =>
        /\ Len(StartScript) = 1 /\ Len(Beginning) = 2
        /\ Beginning[1] = "run" /\ Beginning[2] = "sleep"
<1>1. StartScript \in Seq(ScriptStepName) /\ <<"sleep">> \in Seq(ScriptStepName)
    <2>1. <<"mount", "create", "start">> \in Seq(ScriptStepName) /\ <<"run">> \in Seq(ScriptStepName)
        BY DEF ScriptStepName, Command, CrunCommand
    <2>2. <<"sleep">> \in Seq(ScriptStepName)
        BY DEF ScriptStepName
    <2> QED
        BY <2>1, <2>2 DEF StartScript
<1>2. /\ Beginning \in Seq(ScriptStepName)
      /\ Len(Beginning) = Len(StartScript) + 1
      /\ \A i \in 1 .. Len(StartScript) : Beginning[i] = StartScript[i]
      /\ Beginning[Len(StartScript) + 1] = "sleep"
    BY <1>1, Concat DEF Beginning
<1>3. CASE runType = "run-sequentiell"
    BY <1>2, <1>3 DEF StartScript
<1>4. CASE runType # "run-sequentiell"
    BY <1>2, <1>4 DEF StartScript
<1> QED
    BY <1>2, <1>3, <1>4

LEMMA Scripts ==
    /\ Script \in Seq(ScriptStepName)
    /\ Script[Len(Beginning) + 1] = "kill"
    /\ Script[Len(Beginning) + 2] = "sleep"
    /\ Script[Len(Beginning) + 3] = "delete"
    /\ Script[Len(Beginning) + 4] = "sleep"
    /\ Script[Len(Beginning) + 5] = "umount"
    /\ Len(Script) = Len(Beginning) + 5
    /\ \A i \in 1 .. Len(Beginning) : Script[i] = Beginning[i]
<1>1. KillScript \in Seq(ScriptStepName)
    BY DEF KillScript, ScriptStepName, Command, CrunCommand
<1>2. Script = Beginning \o KillScript
    BY DEF Script, Beginning
<1>3. /\ Script \in Seq(ScriptStepName)
      /\ Len(Script) = Len(Beginning) + Len(KillScript)
      /\ \A i \in 1 .. Len(Beginning) : Script[i] = Beginning[i]
      /\ \A i \in 1 .. Len(KillScript) : Script[Len(Beginning) + i] = KillScript[i]
    BY <1>1, <1>2, Beginnings, Concat
<1> QED
    BY <1>3 DEF KillScript

\* The command of each stage, and the stage after it.
LEMMA StageCommand ==
    ASSUME ScriptTypes
    PROVE  /\ step \in 1 .. Len(Script) + 1
           /\ step <= Len(Script) <=> Stage <= 9
           /\ Stage \in 1 .. 10
           /\ Stage = 10 <=> step = Len(Script) + 1
           /\ Stage = 1 <=> step = 1
           /\ Stage = 4 <=> Measuring
           /\ Stage = 1 => Script[step] \in {"mount", "run"}
           /\ Stage = 2 => Script[step] = "create"
           /\ Stage = 3 => Script[step] = "start"
           /\ Stage \in {4, 6, 8} => Script[step] = "sleep"
           /\ Stage = 5 => Script[step] = "kill"
           /\ Stage = 7 => Script[step] = "delete"
           /\ Stage = 9 => Script[step] = "umount"
           /\ Len(Script) = IF runType = "run" THEN 7 ELSE 9
<1> USE DEF ScriptTypes, Stage, Measuring
<1>1. CASE runType = "run-sequentiell"
    <2>1. /\ Script[1] = "mount" /\ Script[2] = "create" /\ Script[3] = "start"
          /\ Script[4] = "sleep" /\ Script[5] = "kill" /\ Script[6] = "sleep"
          /\ Script[7] = "delete" /\ Script[8] = "sleep" /\ Script[9] = "umount"
          /\ Len(Script) = 9 /\ Len(StartScript) = 3
        <3>1. Len(Beginning) = 4
            BY <1>1, Beginnings
        <3>2. \A i \in 1 .. 4 : Script[i] = Beginning[i]
            BY <3>1, Scripts
        <3>3. /\ Script[5] = "kill"
              /\ Script[6] = "sleep"
              /\ Script[7] = "delete"
              /\ Script[8] = "sleep"
              /\ Script[9] = "umount"
              /\ Len(Script) = 9
            BY <3>1, Scripts
        <3> QED
            BY <1>1, <3>2, <3>3, Beginnings
    <2> QED
        BY <1>1, <2>1
<1>2. CASE runType = "run"
    <2>1. /\ Script[1] = "run" /\ Script[2] = "sleep" /\ Script[3] = "kill"
          /\ Script[4] = "sleep" /\ Script[5] = "delete" /\ Script[6] = "sleep"
          /\ Script[7] = "umount"
          /\ Len(Script) = 7 /\ Len(StartScript) = 1
        <3>1. Len(Beginning) = 2
            BY <1>2, Beginnings
        <3>2. \A i \in 1 .. 2 : Script[i] = Beginning[i]
            BY <3>1, Scripts
        <3>3. /\ Script[3] = "kill"
              /\ Script[4] = "sleep"
              /\ Script[5] = "delete"
              /\ Script[6] = "sleep"
              /\ Script[7] = "umount"
              /\ Len(Script) = 7
            BY <3>1, Scripts
        <3> QED
            BY <1>2, <3>2, <3>3, Beginnings
    <2> QED
        BY <1>2, <2>1
<1> QED
    BY <1>1, <1>2

LEMMA ScriptCommand ==
    ASSUME ScriptTypes, step <= Len(Script), Script[step] # "sleep"
    PROVE  [c \in Proc |-> Script[step]] \in Commands
<1>1. Script[step] \in Command
    BY StageCommand DEF Command, CrunCommand
<1> QED
    BY <1>1 DEF Commands

\* The script depends on the run-type only.
LEMMA SameScript ==
    ASSUME runType' = runType
    PROVE  /\ Script' = Script
           /\ step' = step => Stage' = Stage /\ NextStage' = NextStage
<1>1. Script' = Script
    BY DEF Script, StartScript, KillScript
<1> QED
    BY <1>1 DEF Stage, NextStage

------------------------------------------------------------------------------
(* What the rounds do is a behaviour of ExecManager.                        *)

LEMMA BenchStepRefines == ScriptTypes /\ [BenchNext]_allVars => [ExecNext]_vars
<1> SUFFICES ASSUME ScriptTypes, [BenchNext]_allVars
             PROVE  [ExecNext]_vars
    OBVIOUS
<1>1. CASE Call
    <2>1. RunBatch(Rounds[round], FALSE, [c \in Proc |-> Script[step]])
        BY <1>1 DEF Call
    <2>2. [c \in Proc |-> Script[step]] \in Commands
        BY <1>1, ScriptCommand DEF Call
    <2>3. Rounds[round] \in 0 .. MaxNum
        BY RoundsAssumption, MaxNumAssumption DEF ScriptTypes
    <2> QED
        BY <2>1, <2>2, <2>3 DEF ExecNext
<1>2. CASE Returned \/ Sleep \/ NextRound \/ Finished
    BY <1>2 DEF Returned, Sleep, NextRound, Finished, allVars
<1>3. CASE ManagerStep
    BY <1>3 DEF ManagerStep, ExecNext
<1>4. ASSUME NEW c \in Proc, CommandStep(c) \/ FaultStep(c) \/ StopStep(c)
      PROVE  ExecNext
    BY <1>4 DEF CommandStep, FaultStep, StopStep, ExecNext
<1>5. CASE UNCHANGED allVars
    BY <1>5 DEF allVars
<1> QED
    BY <1>1, <1>2, <1>3, <1>4, <1>5 DEF BenchNext, ScriptStep

LEMMA NextStepType ==
    ASSUME ScriptTypes, step <= Len(Script)
    PROVE  step + 1 \in 1 .. IF runType = "run" THEN 8 ELSE 10
<1>1. Len(Script) = IF runType = "run" THEN 7 ELSE 9
    BY StageCommand
<1>2. step \in 1 .. IF runType = "run" THEN 8 ELSE 10
    BY DEF ScriptTypes
<1>3. CASE runType = "run"
    BY <1>1, <1>2, <1>3
<1>4. CASE runType # "run"
    BY <1>1, <1>2, <1>4
<1> QED
    BY <1>3, <1>4

\* The script's variables stay within their types.
LEMMA ScriptTypesStep ==
    ASSUME IInv, ExecTypeOK, ScriptTypes, CallInv, [BenchNext]_allVars
    PROVE  ScriptTypes'
<1> USE DEF ScriptTypes
<1>1. CASE Call
    BY <1>1 DEF Call, RunBatch, Invoke
<1>2. CASE Returned
    <2>1. step <= Len(Script)
        BY <1>2 DEF Returned, CallInv
    <2> QED
        BY <1>2, <2>1, NextStepType DEF Returned, vars, managerVars
<1>3. CASE Sleep
    <2>1. tainted' \in SUBSET Proc
        BY <1>3 DEF Sleep
    <2> QED
        BY <1>3, <2>1, NextStepType DEF Sleep, vars, managerVars
<1>4. CASE NextRound
    <2>1. round + 1 \in 1 .. Len(Rounds)
        BY <1>4, RoundsAssumption DEF NextRound
    <2> QED
        BY <1>4, <2>1 DEF NextRound, vars, managerVars
<1>5. CASE ManagerStep
    <2>1. native' = native
        BY <1>5 DEF ManagerStep, MainStep, Main, Fork, ForkFails, ForksDone, Wait, WaitReturns
    <2>2. 0 .. nProc \subseteq Proc
        BY MaxNumAssumption DEF IInv, TypeOK, Proc
    <2>3. tainted' \in SUBSET Proc
        BY <1>5, <2>2 DEF ManagerStep
    <2> QED
        BY <1>5, <2>1, <2>3 DEF ManagerStep
<1>6. ASSUME NEW c \in Proc, CommandStep(c) \/ FaultStep(c) \/ StopStep(c)
      PROVE  ScriptTypes'
    <2>1. native' = native
        BY <1>6, ChildStepRefines
        DEF CommandStep, FaultStep, StopStep, ChildExit, managerVars, ContainerStops
    <2> QED
        BY <1>6, <2>1 DEF CommandStep, FaultStep, StopStep, benchVars
<1>7. CASE Finished \/ UNCHANGED allVars
    BY <1>7 DEF Finished, allVars, benchVars, vars, managerVars
<1> QED
    BY <1>1, <1>2, <1>3, <1>4, <1>5, <1>6, <1>7 DEF BenchNext, ScriptStep

------------------------------------------------------------------------------
(* The script and the manager                                               *)

\* A child's step changes nothing of the manager or of other containers.
LEMMA ChildFrame ==
    ASSUME ExecTypeOK, NEW c \in Proc, CommandStep(c) \/ FaultStep(c) \/ StopStep(c)
    PROVE  /\ UNCHANGED <<runType, round, step, called, num, native, manager, nProc, command>>
           /\ Script' = Script /\ Stage' = Stage /\ NextStage' = NextStage
           /\ tainted \subseteq tainted'
           /\ \A d \in Proc \ {c} :
                /\ child'[d] = child[d]
                /\ mounted'[d] = mounted[d]
                /\ outcome'[d] = outcome[d]
                /\ overlay'[d] = overlay[d]
                /\ container'[d] = container[d]
<1>1. UNCHANGED <<runType, round, step, called>> /\ tainted \subseteq tainted'
    BY DEF CommandStep, FaultStep, StopStep, benchVars
<1>2. Script' = Script /\ Stage' = Stage /\ NextStage' = NextStage
    BY <1>1, SameScript
<1>3. CASE ChildStep(c) \/ ChildFault(c)
    BY <1>1, <1>2, <1>3
    DEF ChildStep, ChildFault, CommandMount, CommandUmount, RunMount, CommandCrun,
        CommandRefused, CommandFault, CommandNative, Exit, ChildExit, managerVars,
        ExecTypeOK, TypeOK
<1>4. CASE StopStep(c)
    BY <1>1, <1>2, <1>4 DEF StopStep, ContainerStops, managerVars, ExecTypeOK
<1> QED
    BY <1>3, <1>4 DEF CommandStep, FaultStep

LEMMA CallStep ==
    ASSUME IInv, ExecTypeOK, ScriptTypes, CallInv, [BenchNext]_allVars
    PROVE  CallInv'
<1> USE DEF CallInv
<1>1. CASE Call
    <2>1. Script' = Script
        BY <1>1, SameScript DEF Call
    <2> QED
        BY <1>1, <2>1 DEF Call, RunBatch, Invoke
<1>2. CASE Returned
    BY <1>2 DEF Returned, vars, managerVars
<1>3. CASE Sleep
    <2>1. step > 1
        BY <1>3, StageCommand DEF Sleep
    <2> QED
        BY <1>3, <2>1 DEF Sleep, vars, managerVars
<1>4. CASE NextRound
    BY <1>4 DEF NextRound, RoundOver, vars, managerVars
<1>5. CASE ManagerStep
    <2>0. UNCHANGED <<runType, round, step, called, num, command>> /\ Script' = Script
        BY <1>5, SameScript
        DEF ManagerStep, MainStep, execVars, Main, Fork, ForkFails, ForksDone, Wait, WaitReturns
    <2>1. manager \in {"forking", "waiting"} /\ called
        BY <1>5 DEF ManagerStep, MainStep, Main, Fork, ForkFails, ForksDone, Wait, WaitReturns
    <2>2. manager' \in {"forking", "waiting", "returned"}
        BY <1>5, <2>1, AfterForksCases
        DEF ManagerStep, MainStep, Main, Fork, ForkFails, ForksDone, Wait, WaitReturns, ScriptTypes
    <2>3. manager' # "forking" => 0 .. nProc' \subseteq tainted'
        <3>1. CASE Fork
            BY <2>1, <3>1 DEF Fork
        <3>2. CASE ForkFails
            BY <1>5, <3>2, AfterForksCases DEF ForkFails, ManagerStep, ScriptTypes
        <3>3. CASE ForksDone
            BY <3>3, <1>5 DEF ForksDone, IInv, TypeOK
        <3>4. CASE WaitReturns \/ \E c \in Proc : Wait(c)
            BY <1>5, <3>4 DEF WaitReturns, Wait, ManagerStep
        <3> QED
            BY <1>5, <3>1, <3>2, <3>3, <3>4 DEF ManagerStep, MainStep, Main
    <2> QED
        BY <2>0, <2>1, <2>2, <2>3
<1>6. ASSUME NEW c \in Proc, CommandStep(c) \/ FaultStep(c) \/ StopStep(c)
      PROVE  CallInv'
    BY <1>6, ChildFrame
<1>7. CASE Finished \/ UNCHANGED allVars
    <2>1. UNCHANGED allVars
        BY <1>7 DEF Finished
    <2>2. Script' = Script
        BY <2>1, SameScript DEF allVars, benchVars
    <2> QED
        BY <2>1, <2>2 DEF allVars, benchVars, vars, managerVars, execVars
<1> QED
    BY <1>1, <1>2, <1>3, <1>4, <1>5, <1>6, <1>7 DEF BenchNext, ScriptStep

------------------------------------------------------------------------------
(* The containers nothing went wrong for                                    *)

\* The stages between which each command takes a container.
LEMMA CommandStages ==
    ASSUME ScriptTypes, step <= Len(Script), Script[step] # "sleep"
    PROVE  \/ Script[step] = "mount" /\ Stage = 1 /\ NextStage = 2
           \/ Script[step] = "create" /\ Stage = 2 /\ NextStage = 3
           \/ Script[step] = "start" /\ Stage = 3 /\ NextStage = 4
           \/ Script[step] = "run" /\ Stage = 1 /\ NextStage = 4
           \/ Script[step] = "kill" /\ Stage = 5 /\ NextStage = 6
           \/ Script[step] = "delete" /\ Stage = 7 /\ NextStage = 8
           \/ Script[step] = "umount" /\ Stage = 9 /\ NextStage = 10
<1>1. Stage \in 1 .. 9 /\ Stage \notin {4, 6, 8}
    BY StageCommand
<1> QED
    BY <1>1, StageCommand DEF NextStage

\* A command succeeds on a container that is where the script expects it, and
\* takes it to the next stage.
LEMMA CommandWorks ==
    ASSUME BenchIInv, called, NEW c \in Proc, InBatch(c), CommandStep(c)
    PROVE  /\ outcome'[c] # "failed" \/ outcome' = outcome
           /\ InBatch(c)'
<1> DEFINE S == Script[step]
<1>1. child[c] = "running" /\ ~native /\ command[c] = S
    BY DEF CommandStep, ChildStep, CommandMount, CommandUmount, RunMount, CommandCrun,
       CommandRefused, CommandNative, AtCall, BenchIInv, CallInv, ScriptTypes
<1>2. Stage' = Stage /\ NextStage' = NextStage
    BY ChildFrame DEF BenchIInv
<1>3. step <= Len(Script) /\ S # "sleep" /\ ScriptTypes
    BY DEF BenchIInv, CallInv
<1>5. IF mounted[c] THEN Mounted(c) ELSE At(Stage, c)
    BY <1>1 DEF InBatch
<1>6. /\ child \in [Proc -> ChildState]
      /\ mounted \in [Proc -> BOOLEAN]
      /\ outcome \in [Proc -> {"none", "ok", "failed"}]
      /\ overlay \in [Proc -> 0 .. MaxOverlay]
      /\ container \in [Proc -> ContainerState]
    BY DEF BenchIInv, ExecTypeOK, TypeOK
<1>7. ASSUME Exit(c, "ok"), At(NextStage, c)'
      PROVE  outcome'[c] # "failed" /\ InBatch(c)'
    <2>1. child'[c] = "zombie" /\ outcome'[c] = "ok"
        BY <1>6, <1>7 DEF Exit, ChildExit
    <2> QED
        BY <2>1, <1>7 DEF InBatch
<1>8. CASE CommandMount(c)
    <2>1. Stage = 1 /\ NextStage = 2 /\ ~mounted[c]
        BY <1>1, <1>3, <1>5, <1>8, CommandStages DEF CommandMount, Mounted
    <2>2. At(NextStage, c)'
        BY <1>2, <1>5, <1>6, <1>8, <2>1 DEF CommandMount, At
    <2> QED
        BY <1>7, <1>8, <2>2 DEF CommandMount
<1>9. CASE CommandUmount(c)
    <2>1. Stage = 9 /\ NextStage = 10 /\ ~mounted[c]
        BY <1>1, <1>3, <1>5, <1>9, CommandStages DEF CommandUmount, Mounted
    <2>2. At(NextStage, c)'
        BY <1>2, <1>5, <1>6, <1>9, <2>1 DEF CommandUmount, At
    <2> QED
        BY <1>7, <1>9, <2>2 DEF CommandUmount
<1>10. CASE RunMount(c, TRUE)
    <2>1. Stage = 1
        BY <1>1, <1>3, <1>10, CommandStages DEF RunMount
    <2>2. At(1, c) /\ mounted'[c] /\ child'[c] = "running"
        BY <1>1, <1>5, <1>6, <1>10, <2>1 DEF RunMount, managerVars
    <2>3. Mounted(c)'
        BY <1>6, <1>10, <2>2 DEF RunMount, At, Mounted
    <2> QED
        BY <1>10, <2>2, <2>3 DEF InBatch, RunMount
<1>11. CASE CommandCrun(c)
    <2>1. PICK s \in Crun(c) : container' = [container EXCEPT ![c] = s]
        BY <1>11 DEF CommandCrun
    <2>2. /\ S \in CrunCommand
          /\ S = "run" => mounted[c]
          /\ overlay' = overlay
        BY <1>1, <1>11 DEF CommandCrun, AtCall
    <2>3. s \in CrunResult(S, container[c], overlay[c] > 0) /\ container'[c] = s
        BY <1>1, <1>6, <2>1 DEF Crun
    <2>4. At(NextStage, c)'
        <3>1. CASE S = "run" /\ NextStage = 4 /\ Mounted(c)
            BY <1>2, <2>2, <2>3, <3>1 DEF At, Mounted, CrunResult
        <3>2. CASE S = "create" /\ NextStage = 3 /\ At(2, c)
            BY <1>2, <2>2, <2>3, <3>2 DEF At, CrunResult
        <3>3. CASE S = "start" /\ NextStage = 4 /\ At(3, c)
            BY <1>2, <2>2, <2>3, <3>3 DEF At, CrunResult
        <3>4. CASE S = "kill" /\ NextStage = 6 /\ At(5, c)
            BY <1>2, <2>2, <2>3, <3>4 DEF At, CrunResult
        <3>5. CASE S = "delete" /\ NextStage = 8 /\ At(7, c)
            BY <1>2, <2>2, <2>3, <3>5 DEF At, CrunResult
        <3>6. S # "mount" /\ S # "umount"
            BY <2>2 DEF CrunCommand
        <3>7. S # "run" => At(Stage, c)
            BY <1>1, <1>5 DEF Mounted
        <3>8. S = "run" => Mounted(c)
            BY <1>5, <2>2
        <3> QED
            BY <1>3, <3>1, <3>2, <3>3, <3>4, <3>5, <3>6, <3>7, <3>8, CommandStages
    <2> QED
        BY <1>7, <1>11, <2>4 DEF CommandCrun
<1>12. ~CommandRefused(c)
    <2> SUFFICES ASSUME Refused(c), AtCall(c)
                 PROVE  FALSE
        BY DEF CommandRefused
    <2>1. CASE S = "run"
        <3>1. overlay[c] > 0 /\ container[c] = "none" /\ command[c] = "run"
            BY <1>1, <1>5, <2>1 DEF AtCall, Mounted
        <3>2. "running" \in Crun(c)
            BY <3>1 DEF Crun, CrunResult, ContainerState
        <3> QED
            BY <3>1, <3>2 DEF Refused
    <2>2. CASE S # "run"
        <3>1. At(Stage, c)
            BY <1>1, <1>5, <2>2 DEF Mounted
        <3>2. CASE S = "mount"
            BY <1>1, <3>2 DEF Refused, CrunCommand
        <3>3. CASE S = "umount" /\ Stage = 9
            BY <1>1, <3>1, <3>3 DEF Refused, CrunCommand, At, InUse
        <3>4. CASE S = "create" /\ Stage = 2
            <4>1. "created" \in Crun(c)
                BY <1>1, <3>1, <3>4 DEF Crun, CrunResult, ContainerState, At
            <4> QED
                BY <1>1, <3>4, <4>1 DEF Refused
        <3>5. CASE S = "start" /\ Stage = 3
            <4>1. "running" \in Crun(c)
                BY <1>1, <3>1, <3>5 DEF Crun, CrunResult, ContainerState, At
            <4> QED
                BY <1>1, <3>5, <4>1 DEF Refused
        <3>6. CASE S = "kill" /\ Stage = 5
            <4>1. "stopping" \in Crun(c)
                BY <1>1, <3>1, <3>6 DEF Crun, CrunResult, ContainerState, At
            <4> QED
                BY <1>1, <3>6, <4>1 DEF Refused
        <3>7. CASE S = "delete" /\ Stage = 7
            <4>1. "none" \in Crun(c)
                BY <1>1, <3>1, <3>7 DEF Crun, CrunResult, ContainerState, At
            <4> QED
                BY <1>1, <3>7, <4>1 DEF Refused
        <3> QED
            BY <1>3, <2>2, <3>2, <3>3, <3>4, <3>5, <3>6, <3>7, CommandStages
    <2> QED
        BY <2>1, <2>2
<1> QED
    BY <1>1, <1>8, <1>9, <1>10, <1>11, <1>12 DEF CommandStep, ChildStep, CommandNative

\* One container at one time: StageInv is the conjunction of this.
OnStage(c) ==
    /\ outcome[c] # "failed"
    /\ called /\ c < num => InBatch(c)
    /\ ~called /\ c < num => At(Stage, c)
    /\ c >= num => At(1, c)

\* A container that stops by itself while it is expected to.
LEMMA StopIsExpected ==
    ASSUME BenchIInv, NEW c \in Proc \ tainted, StopStep(c), c \notin tainted'
    PROVE  OnStage(c)'
<1>1. container[c] = "stopping" /\ container' = [container EXCEPT ![c] = "stopped"]
    BY DEF StopStep, ContainerStops, BenchIInv, ScriptTypes
<1>2. /\ UNCHANGED <<runType, step, called, num, child, mounted, command, outcome, overlay>>
      /\ Stage' = Stage /\ NextStage' = NextStage
    BY ChildFrame DEF BenchIInv, StopStep, ContainerStops, managerVars
<1>3. container'[c] = "stopped"
    BY <1>1 DEF BenchIInv, ExecTypeOK
<1>4. OnStage(c)
    BY DEF BenchIInv, StageInv, OnStage
<1>5. Stage \in 1 .. 10
    BY StageCommand DEF BenchIInv
<1>6. called => NextStage \in 1 .. 10
    BY CommandStages DEF BenchIInv, CallInv
<1>7. At(Stage, c) => At(Stage, c)'
    BY <1>1, <1>2, <1>3, <1>5 DEF At
<1>8. called /\ At(NextStage, c) => At(NextStage, c)'
    BY <1>1, <1>2, <1>3, <1>6 DEF At
<1>9. ~At(1, c) /\ ~Mounted(c)
    BY <1>1 DEF At, Mounted
<1> QED
    BY <1>2, <1>4, <1>7, <1>8, <1>9 DEF OnStage, InBatch

\* Every step of a child leaves every container on its stage.
LEMMA ChildStage ==
    ASSUME BenchIInv, NEW c \in Proc, CommandStep(c) \/ FaultStep(c) \/ StopStep(c)
    PROVE  StageInv'
<1> SUFFICES ASSUME NEW d \in Proc, d \notin tainted'
             PROVE  OnStage(d)'
    BY DEF StageInv, OnStage
<1>1. d \notin tainted /\ OnStage(d)
    BY ChildFrame DEF BenchIInv, StageInv, OnStage
<1>2. CASE d # c
    BY <1>1, <1>2, ChildFrame DEF BenchIInv, OnStage, InBatch, At, Mounted
<1>3. CASE d = c /\ StopStep(c)
    BY <1>1, <1>3, StopIsExpected
<1>4. ~(d = c /\ FaultStep(c))
    BY DEF FaultStep
<1>5. CASE d = c /\ CommandStep(c)
    <2>1. child[c] = "running" /\ ~native
        BY <1>5
        DEF CommandStep, ChildStep, CommandMount, CommandUmount, RunMount, CommandCrun,
            CommandRefused, CommandNative, AtCall, BenchIInv, ScriptTypes
    <2>2. called /\ c < num
        BY <2>1 DEF BenchIInv, CallInv, IInv, NoChildLeftBehind, LaunchedIsSuffix, TypeOK
    <2>3. outcome'[c] # "failed" /\ InBatch(c)'
        BY <1>1, <1>5, <2>2, CommandWorks DEF OnStage
    <2>4. ~(c >= num)
        BY <2>2 DEF BenchIInv, IInv, TypeOK, Proc
    <2>5. OnStage(c)'
        BY <1>5, <2>2, <2>3, <2>4, ChildFrame DEF OnStage, BenchIInv
    <2> QED
        BY <1>5, <2>5
<1> QED
    BY <1>2, <1>3, <1>4, <1>5

\* So does every step of the manager.
LEMMA ManagerStage ==
    ASSUME BenchIInv, ManagerStep
    PROVE  StageInv'
<1> SUFFICES ASSUME NEW d \in Proc, d \notin tainted'
             PROVE  OnStage(d)'
    BY DEF StageInv, OnStage
<1>1. UNCHANGED <<runType, step, called, num, mounted, outcome, overlay, container, command>>
    BY DEF ManagerStep, MainStep, execVars, Main, Fork, ForkFails, ForksDone, Wait, WaitReturns
<1>2. Stage' = Stage /\ NextStage' = NextStage
    BY <1>1, SameScript
<1>3. d \notin tainted /\ OnStage(d)
    BY DEF ManagerStep, BenchIInv, StageInv, OnStage
<1>4. \/ child'[d] = child[d]
      \/ child[d] = "zombie" /\ child'[d] = "reaped"
      \/ child[d] = "unborn" /\ child'[d] = "running"
    <2>1. child \in [Proc -> ChildState]
        BY DEF BenchIInv, IInv, TypeOK
    <2>2. CASE Fork
        BY <2>1, <2>2, MaxNumAssumption DEF Fork, BenchIInv, IInv, LaunchedIsSuffix, TypeOK, Proc
    <2>3. CASE ForkFails \/ ForksDone \/ WaitReturns
        BY <2>3 DEF ForkFails, ForksDone, WaitReturns
    <2>4. CASE \E c \in Proc : Wait(c)
        BY <2>1, <2>4 DEF Wait
    <2> QED
        BY <2>2, <2>3, <2>4 DEF ManagerStep, MainStep, Main
<1>5. called
    BY DEF ManagerStep, MainStep, Main, Fork, ForkFails, ForksDone, Wait, WaitReturns,
       BenchIInv, CallInv
<1>6. d < num => InBatch(d)'
    BY <1>1, <1>2, <1>3, <1>4, <1>5 DEF OnStage, InBatch, At, Mounted
<1> QED
    BY <1>1, <1>2, <1>3, <1>5, <1>6 DEF OnStage, At

\* A call begins on the stage of its step.
LEMMA CallStage ==
    ASSUME BenchIInv, Call
    PROVE  StageInv'
<1> SUFFICES ASSUME NEW d \in Proc \ tainted
             PROVE  OnStage(d)'
    BY DEF StageInv, OnStage, Call
<1>1. /\ UNCHANGED <<runType, round, step, overlay, container>>
      /\ called'
      /\ num' = Rounds[round]
      /\ child'[d] = "unborn" /\ ~mounted'[d] /\ outcome'[d] = "none"
    BY DEF Call, RunBatch, Invoke
<1>2. Stage' = Stage
    BY <1>1, SameScript
<1>3. OnStage(d) /\ ~called
    BY DEF Call, BenchIInv, StageInv, OnStage
<1>4. CASE step = 1
    <2>1. Stage = 1
        BY <1>4, StageCommand DEF BenchIInv
    <2> QED
        BY <1>1, <1>2, <1>3, <2>1, RoundsAssumption
        DEF OnStage, InBatch, At, BenchIInv, IInv, TypeOK, Proc, ScriptTypes
<1>5. CASE step # 1
    <2>1. num = Rounds[round]
        BY <1>5, StageCommand DEF BenchIInv, CallInv
    <2> QED
        BY <1>1, <1>2, <1>3, <2>1 DEF OnStage, InBatch, At
<1> QED
    BY <1>4, <1>5

\* A call that has returned leaves every container on the next stage: each was
\* launched, and none is left running.
LEMMA ReturnedStage ==
    ASSUME BenchIInv, Returned
    PROVE  StageInv'
<1> SUFFICES ASSUME NEW d \in Proc \ tainted
             PROVE  OnStage(d)'
    BY DEF StageInv, OnStage, Returned
<1>1. UNCHANGED <<runType, num, outcome, overlay, container>> /\ ~called' /\ step' = step + 1
    BY DEF Returned, vars, managerVars, execVars
<1>2. OnStage(d) /\ called /\ manager = "returned"
    BY DEF Returned, BenchIInv, StageInv, OnStage
<1>3. Stage' = NextStage
    <2>1. step <= Len(Script) /\ Script[step] # "sleep" /\ ScriptTypes
        BY <1>2 DEF BenchIInv, CallInv
    <2>2. step \in Nat /\ step > 0
        BY <2>1, StageCommand
    <2>3. Script[step] = "run" => runType = "run" /\ step = 1
        <3>1. Script[1] = "run" => runType # "run-sequentiell"
            BY Scripts, Beginnings
        <3>2. Script[step] = "run" => step = 1
            BY <2>1, CommandStages, StageCommand
        <3> QED
            BY <2>1, <3>1, <3>2 DEF ScriptTypes
    <2>4. Script[step] # "run" => ~(runType = "run" /\ step = 1)
        BY Scripts, Beginnings
    <2> QED
        BY <1>1, <2>2, <2>3, <2>4 DEF Stage, NextStage
<1>4. ASSUME d < num
      PROVE  child[d] = "reaped"
    <2>1. d > nProc
        BY <1>2 DEF BenchIInv, CallInv, IInv, TypeOK, Proc
    <2>2. child[d] # "unborn"
        BY <1>4, <2>1 DEF BenchIInv, IInv, LaunchedIsSuffix, TypeOK, Proc
    <2>3. ~native
        BY DEF BenchIInv, ScriptTypes
    <2> QED
        BY <1>2, <2>2, <2>3 DEF BenchIInv, IInv, NoChildLeftBehind
<1> QED
    BY <1>1, <1>2, <1>3, <1>4 DEF OnStage, InBatch, At

\* The script sleeps long enough: what is still stopping is tainted.
LEMMA SleepStage ==
    ASSUME BenchIInv, Sleep
    PROVE  StageInv'
<1> SUFFICES ASSUME NEW d \in Proc, d \notin tainted'
             PROVE  OnStage(d)'
    BY DEF StageInv, OnStage
<1>1. /\ UNCHANGED <<runType, called, num, outcome, overlay, container>>
      /\ ~called /\ step' = step + 1
      /\ d \notin tainted /\ container[d] # "stopping"
    BY DEF Sleep, vars, managerVars, execVars
<1>2. OnStage(d)
    BY <1>1 DEF BenchIInv, StageInv, OnStage
<1>3. Stage \in {4, 6, 8} /\ step \in Nat /\ step > 1
    BY StageCommand DEF Sleep, BenchIInv
<1>4. Stage' = Stage + 1
    BY <1>1, <1>3 DEF Stage
<1>5. At(Stage, d) => At(Stage, d)'
    BY <1>1, <1>3, <1>4 DEF At
<1> QED
    BY <1>1, <1>2, <1>5 DEF OnStage, At

\* The next round begins where this one ends: nothing is mounted, nothing runs.
LEMMA NextRoundStage ==
    ASSUME BenchIInv, NextRound
    PROVE  StageInv'
<1> SUFFICES ASSUME NEW d \in Proc \ tainted
             PROVE  OnStage(d)'
    BY DEF StageInv, OnStage, NextRound
<1>1. UNCHANGED <<runType, called, num, outcome, overlay, container>> /\ ~called /\ step' = 1
    BY DEF NextRound, RoundOver, vars, managerVars, execVars
<1>2. OnStage(d)
    BY DEF BenchIInv, StageInv, OnStage
<1>3. Stage = 10
    BY StageCommand DEF NextRound, RoundOver, BenchIInv
<1>4. Stage' = 1
    BY <1>1 DEF Stage
<1> QED
    BY <1>1, <1>2, <1>3, <1>4 DEF OnStage, At

LEMMA BenchIInvStep == BenchIInv /\ [BenchNext]_allVars => BenchIInv'
<1> SUFFICES ASSUME BenchIInv, [BenchNext]_allVars
             PROVE  BenchIInv'
    OBVIOUS
<1>1. IInv' /\ ExecTypeOK'
    BY BenchStepRefines, StepRefines, NextIInv, ExecTypeStep DEF BenchIInv
<1>2. ScriptTypes' /\ CallInv'
    BY ScriptTypesStep, CallStep DEF BenchIInv
<1>3. StageInv'
    <2>1. CASE ScriptStep
        BY <2>1, CallStage, ReturnedStage, SleepStage, NextRoundStage DEF ScriptStep
    <2>2. CASE ManagerStep
        BY <2>2, ManagerStage
    <2>3. CASE \E c \in Proc : CommandStep(c) \/ FaultStep(c) \/ StopStep(c)
        BY <2>3, ChildStage
    <2>4. CASE UNCHANGED allVars
        <3>1. Stage' = Stage /\ NextStage' = NextStage
            BY <2>4, SameScript DEF allVars, benchVars
        <3> QED
            BY <2>4, <3>1
            DEF BenchIInv, StageInv, InBatch, At, Mounted,
                allVars, benchVars, vars, managerVars, execVars
    <2> QED
        BY <2>1, <2>2, <2>3, <2>4 DEF BenchNext, Finished
<1> QED
    BY <1>1, <1>2, <1>3 DEF BenchIInv

LEMMA BenchIInvInit == BenchInit => BenchIInv
<1> SUFFICES ASSUME BenchInit
             PROVE  BenchIInv
    OBVIOUS
<1>1. IInv /\ ExecTypeOK
    BY InitIInv, MaxOverlayAssumption
    DEF BenchInit, ExecInit, ExecTypeOK, IInv, Commands, Command, CrunCommand, ContainerState
<1>2. native = FALSE
    BY Zenon DEF BenchInit, ExecInit, Init
<1>3. ScriptTypes
    <2>1. 1 \in 1 .. Len(Rounds)
        BY RoundsAssumption
    <2>2. 1 \in 1 .. IF runType = "run" THEN 8 ELSE 10
        OBVIOUS
    <2> QED
        BY <1>2, <2>1, <2>2 DEF ScriptTypes, BenchInit
<1>4. CallInv
    BY DEF BenchInit, CallInv, ExecInit, Init
<1>5. StageInv
    <2>1. Stage = 1
        BY DEF BenchInit, Stage
    <2> QED
        BY <2>1 DEF StageInv, BenchInit, ExecInit, At
<1> QED
    BY <1>1, <1>3, <1>4, <1>5 DEF BenchIInv

LEMMA BenchInvariant == BenchSpec => []BenchIInv
<1> QED
    BY BenchIInvInit, BenchIInvStep, PTL DEF BenchSpec
------------------------------------------------------------------------------
(* What it says of the rounds                                               *)

\* What the script does with the manager is what ExecManager's callers may do:
\* all that is proved of ExecManager holds during the benchmark.
THEOREM BenchImplementsExecManager == BenchSpec => ExecSpec
<1>1. BenchInit => ExecInit
    BY DEF BenchInit
<1>2. BenchIInv /\ [BenchNext]_allVars => [ExecNext]_vars
    BY BenchStepRefines DEF BenchIInv
<1> QED
    BY <1>1, <1>2, BenchInvariant, PTL DEF BenchSpec, ExecSpec

\* Types of the script, the manager and the world.
THEOREM BenchTypeCorrect == BenchSpec => []BenchTypeOK
<1>1. BenchIInv => BenchTypeOK
    BY StageCommand DEF BenchIInv, BenchTypeOK, ScriptTypes
<1> QED
    BY <1>1, BenchInvariant, PTL

LEMMA SoundInBatch ==
    ASSUME BenchIInv, NEW c \in Sound
    PROVE  c \in Proc \ tainted /\ c < num
BY MaxNumAssumption DEF Sound, BenchIInv, IInv, TypeOK, Proc

\* No command of a container nothing went wrong for is refused, in any round.
THEOREM CommandsSucceed == BenchSpec => []SoundCommandsSucceed
<1>1. BenchIInv => SoundCommandsSucceed
    BY SoundInBatch DEF BenchIInv, StageInv, SoundCommandsSucceed
<1> QED
    BY <1>1, BenchInvariant, PTL

\* Each test measures containers that are all running.
THEOREM TestsMeasureRunning == BenchSpec => []MeasuredContainersRun
<1>1. BenchIInv => MeasuredContainersRun
    <2> SUFFICES ASSUME BenchIInv, Measuring, ~called, NEW c \in Sound
                 PROVE  container[c] = "running"
        BY DEF MeasuredContainersRun
    <2>1. Stage = 4
        BY StageCommand DEF BenchIInv
    <2>2. c \in Proc \ tainted /\ c < num
        BY SoundInBatch
    <2> QED
        BY <2>1, <2>2 DEF BenchIInv, StageInv, At
<1> QED
    BY <1>1, BenchInvariant, PTL

\* A root is mounted at most once, over any number of rounds, and as long as a
\* container needs it.
THEOREM MountedOnce == BenchSpec => []RootMountedOnce
<1>1. ASSUME NEW s \in 1 .. 10, NEW c \in Proc, At(s, c)
      PROVE  overlay[c] <= 1 /\ (InUse(c) => overlay[c] = 1)
    BY <1>1 DEF At, InUse
<1>2. BenchIInv => RootMountedOnce
    <2> SUFFICES ASSUME BenchIInv, NEW c \in Proc \ tainted
                 PROVE  overlay[c] <= 1 /\ (InUse(c) => overlay[c] = 1)
        BY DEF RootMountedOnce
    <2>1. Stage \in 1 .. 10 /\ (called => NextStage \in 1 .. 10)
        BY StageCommand, CommandStages DEF BenchIInv, CallInv
    <2>2. \/ At(Stage, c)
          \/ called /\ At(NextStage, c)
          \/ At(1, c)
          \/ Mounted(c)
        BY DEF BenchIInv, StageInv, InBatch, IInv, TypeOK, ExecTypeOK, Proc, ChildState
    <2>3. Mounted(c) => overlay[c] = 1
        BY DEF Mounted
    <2> QED
        BY <1>1, <2>1, <2>2, <2>3
<1> QED
    BY <1>2, BenchInvariant, PTL

\* Each round leaves the world as it found it.
THEOREM RoundsLeaveNothing == BenchSpec => []RoundLeavesNothing
<1>1. BenchIInv => RoundLeavesNothing
    <2> SUFFICES ASSUME BenchIInv, RoundOver, NEW c \in Proc \ tainted
                 PROVE  container[c] = "none" /\ overlay[c] = 0
        BY DEF RoundLeavesNothing
    <2>1. Stage = 10
        BY StageCommand DEF RoundOver, BenchIInv
    <2>2. At(Stage, c) \/ At(1, c)
        BY DEF RoundOver, BenchIInv, StageInv, IInv, TypeOK, Proc
    <2> QED
        BY <2>1, <2>2 DEF At
<1> QED
    BY <1>1, BenchInvariant, PTL
==============================================================================
