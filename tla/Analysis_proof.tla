---------------------------- MODULE Analysis_proof ----------------------------
(***************************************************************************)
(* Proofs about Campaign and Analysis, for every list of runtimes and of   *)
(* numbers, every number of iterations, campaigns and failures: what the   *)
(* configurations hold when they are used, and what the table says of a    *)
(* completed campaign.                                                     *)
(***************************************************************************)
EXTENDS Analysis, TLAPS

------------------------------------------------------------------------------
(* Types                                                                    *)

InLoop == step \in {"mkdir", "measure", "copyClients", "copyManager"}

ScriptTypes ==
    /\ step \in {"idle", "prepare", "generate", "mkdir", "measure", "copyClients",
                 "copyManager", "over", "aborted"}
    /\ campaign \in Nat
    /\ sequentiell \in BOOLEAN
    /\ iterations \in 0 .. MaxIterations
    /\ at \in [num : DOMAIN Nums, iteration : 0 .. MaxIterations - 1,
               runtime : DOMAIN TestRuntimes]
    /\ files \in [File -> Nat]
    /\ dirs \in [Dir -> [exists : BOOLEAN, clients : SUBSET Nat, manager : Nat]]
    /\ written \subseteq File
    /\ failed \subseteq Target
    /\ step # "idle" => iterations > 0 /\ campaign > 0
    /\ step = "generate" => at.iteration = 0
    /\ InLoop => at.iteration < iterations

LEMMA Lists ==
    /\ DOMAIN Nums = 1 .. Len(Nums) /\ Len(Nums) \in Nat \ {0}
    /\ DOMAIN TestRuntimes = 1 .. Len(TestRuntimes) /\ Len(TestRuntimes) \in Nat \ {0}
    /\ \A i \in DOMAIN Nums : Nums[i] \in Nat /\ Nums[i] \in Num
    /\ \A i \in DOMAIN TestRuntimes :
          /\ TestRuntimes[i] \in {"ctrd", "crun", "crun_batch", "native"}
          /\ TestRuntimes[i] \in Runtime
    /\ MaxIterations \in Nat \ {0}
BY CampaignAssumption DEF Num, Runtime

\* The point of the loops names a directory.
LEMMA DirType == ScriptTypes => dir \in Dir /\ num \in Nat /\ runtime \in Runtime
BY Lists DEF ScriptTypes, dir, Dir, num, runtime

LEMMA WrittenType ==
    ASSUME files \in [File -> Nat], NEW entries \in Nat, NEW target, NEW k
    PROVE  Written(files, target, k, entries) \in [File -> Nat]
BY DEF Written

LEMMA InitTypes == CampaignInit => ScriptTypes
<1> SUFFICES ASSUME CampaignInit
             PROVE  ScriptTypes
    OBVIOUS
<1>1. at \in [num : DOMAIN Nums, iteration : 0 .. MaxIterations - 1,
              runtime : DOMAIN TestRuntimes]
    BY Lists DEF CampaignInit
<1>2. dirs \in [Dir -> [exists : BOOLEAN, clients : SUBSET Nat, manager : Nat]]
    BY DEF CampaignInit
<1>3. files \in [File -> Nat]
    BY DEF CampaignInit
<1>4. step = "idle" /\ campaign = 0 /\ iterations = 0
      /\ written = {} /\ failed = {}
    BY DEF CampaignInit
<1>5. sequentiell \in BOOLEAN
    BY Zenon DEF CampaignInit
<1> QED
    BY <1>1, <1>2, <1>3, <1>4, <1>5, Lists DEF ScriptTypes, InLoop

LEMMA TargetType == \A r \in Runtime : TargetOf(r) \in Target
BY CampaignAssumption DEF Runtime, TargetOf, Target

LEMMA GeneratorTypes ==
    ASSUME ScriptTypes, NEW target, NEW k, NEW entries \in Nat,
           Generator(target, k, entries)
    PROVE  files' \in [File -> Nat]
BY WrittenType DEF ScriptTypes, Generator

LEMMA HistoryTypes ==
    ASSUME ScriptTypes, NEW target \in Target, NEW k, ForThisNumber(target, k)
    PROVE  written' \subseteq File /\ failed' \subseteq Target
BY DEF ScriptTypes, ForThisNumber, FirstFiles

\* The four ways on from one point of the loops.
LEMMA AdvanceCases ==
    ASSUME Advance
    PROVE  \/ /\ at.runtime < Len(TestRuntimes)
              /\ at' = [at EXCEPT !.runtime = @ + 1] /\ step' = "mkdir"
           \/ /\ ~(at.runtime < Len(TestRuntimes)) /\ at.iteration + 1 < iterations
              /\ at' = [at EXCEPT !.runtime = 1, !.iteration = @ + 1] /\ step' = "mkdir"
           \/ /\ ~(at.runtime < Len(TestRuntimes)) /\ ~(at.iteration + 1 < iterations)
              /\ at.num < Len(Nums)
              /\ at' = [num |-> at.num + 1, iteration |-> 0, runtime |-> 1]
              /\ step' = "generate"
           \/ /\ ~(at.runtime < Len(TestRuntimes)) /\ ~(at.iteration + 1 < iterations)
              /\ ~(at.num < Len(Nums))
              /\ at' = at /\ step' = "over"
BY DEF Advance

LEMMA AdvanceTypes ==
    ASSUME ScriptTypes, InLoop, Advance
    PROVE  /\ at' \in [num : DOMAIN Nums, iteration : 0 .. MaxIterations - 1,
                       runtime : DOMAIN TestRuntimes]
           /\ step' \in {"mkdir", "generate", "over"}
           /\ step' = "generate" => at'.iteration = 0
           /\ step' = "mkdir" => at'.iteration < iterations
<1> USE Lists DEF ScriptTypes
<1>1. CASE at.runtime < Len(TestRuntimes)
    BY <1>1 DEF Advance
<1>2. CASE ~(at.runtime < Len(TestRuntimes)) /\ at.iteration + 1 < iterations
    <2>1. at.iteration + 1 \in 0 .. MaxIterations - 1 /\ 1 \in DOMAIN TestRuntimes
        BY <1>2
    <2>2. at' = [at EXCEPT !.runtime = 1, !.iteration = @ + 1] /\ step' = "mkdir"
        BY <1>2 DEF Advance
    <2> QED
        BY <1>2, <2>1, <2>2
<1>3. CASE /\ ~(at.runtime < Len(TestRuntimes)) /\ ~(at.iteration + 1 < iterations)
           /\ at.num < Len(Nums)
    BY <1>3 DEF Advance
<1>4. CASE /\ ~(at.runtime < Len(TestRuntimes)) /\ ~(at.iteration + 1 < iterations)
           /\ ~(at.num < Len(Nums))
    BY <1>4 DEF Advance
<1> QED
    BY <1>1, <1>2, <1>3, <1>4

LEMMA StepTypes ==
    ASSUME ScriptTypes, ScriptStep
    PROVE  ScriptTypes'
<1> USE Lists
<1>1. ASSUME NEW n \in 1 .. MaxIterations, BeginCampaign(n)
      PROVE  ScriptTypes'
    BY <1>1 DEF BeginCampaign, ScriptTypes, InLoop
<1>2. CASE PrepareBase
    <2>1. files' \in [File -> Nat]
        BY <1>2, GeneratorTypes DEF PrepareBase
    <2> QED
        BY <1>2, <2>1 DEF PrepareBase, ScriptTypes, InLoop
<1>3. CASE GenerateConfigs
    <2>1. files' \in [File -> Nat] /\ written' \subseteq File /\ failed' \subseteq Target
        BY <1>3, GeneratorTypes, HistoryTypes, DirType, TargetType DEF GenerateConfigs
    <2>2. CASE at.runtime < Len(TestRuntimes)
        <3>1. at.runtime + 1 \in DOMAIN TestRuntimes
            BY <2>2 DEF ScriptTypes
        <3>2. at' = [at EXCEPT !.runtime = @ + 1] /\ step' = "generate"
            BY <1>3, <2>2 DEF GenerateConfigs
        <3>3. UNCHANGED <<campaign, sequentiell, iterations, dirs>>
            BY <1>3 DEF GenerateConfigs
        <3> QED
            BY <1>3, <2>1, <3>1, <3>2, <3>3 DEF GenerateConfigs, ScriptTypes, InLoop
    <2>3. CASE ~(at.runtime < Len(TestRuntimes))
        <3>1. at' = [at EXCEPT !.runtime = 1] /\ step = "generate" /\ step' = "mkdir"
            BY <1>3, <2>3 DEF GenerateConfigs
        <3>2. at' \in [num : DOMAIN Nums, iteration : 0 .. MaxIterations - 1,
                       runtime : DOMAIN TestRuntimes] /\ at'.iteration = at.iteration
            <4>1. 1 \in DOMAIN TestRuntimes
                OBVIOUS
            <4>2. at \in [num : DOMAIN Nums, iteration : 0 .. MaxIterations - 1,
                          runtime : DOMAIN TestRuntimes]
                BY DEF ScriptTypes
            <4> QED
                BY ONLY <3>1, <4>1, <4>2
        <3>3. UNCHANGED <<campaign, sequentiell, iterations, dirs>>
            BY <1>3 DEF GenerateConfigs
        <3>4. at.iteration = 0 /\ iterations > 0 /\ campaign > 0
            BY <3>1 DEF ScriptTypes
        <3> QED
            BY <2>1, <3>1, <3>2, <3>3, <3>4 DEF ScriptTypes, InLoop
    <2> QED
        BY <2>2, <2>3
<1>4. CASE MakeDirectory
    BY <1>4, DirType DEF MakeDirectory, ScriptTypes, InLoop
<1>5. CASE Measure
    BY <1>5 DEF Measure, ScriptTypes, InLoop
<1>6. CASE CopyClientLog \/ CopyClientLogs
    <2>1. dirs' \in [Dir -> [exists : BOOLEAN, clients : SUBSET Nat, manager : Nat]]
        <3>1. /\ dir \in Dir /\ campaign \in Nat
              /\ dirs \in [Dir -> [exists : BOOLEAN, clients : SUBSET Nat, manager : Nat]]
            BY DirType DEF ScriptTypes
        <3>2. PICK logs \in SUBSET Nat : dirs' = [dirs EXCEPT ![dir].clients = logs]
            BY <1>6, <3>1 DEF CopyClientLog, CopyClientLogs
        <3> QED
            BY ONLY <3>1, <3>2
    <2> QED
        BY <1>6, <2>1 DEF CopyClientLog, CopyClientLogs, ScriptTypes, InLoop
<1>7. CASE CopyManagerLog
    <2>1. dirs' \in [Dir -> [exists : BOOLEAN, clients : SUBSET Nat, manager : Nat]]
        BY <1>7, DirType DEF CopyManagerLog, ScriptTypes
    <2>2. InLoop
        BY <1>7 DEF CopyManagerLog, InLoop
    <2>3. written' \subseteq File /\ failed' \subseteq Target
        BY <1>7 DEF CopyManagerLog, ScriptTypes
    <2> QED
        BY <1>7, <2>1, <2>2, <2>3, AdvanceTypes DEF CopyManagerLog, ScriptTypes, InLoop
<1>8. CASE Abort
    BY <1>8 DEF Abort, Resting, ScriptTypes, InLoop
<1> QED
    BY <1>1, <1>2, <1>3, <1>4, <1>5, <1>6, <1>7, <1>8 DEF ScriptStep
------------------------------------------------------------------------------
(* The configurations                                                       *)

\* Every file of the j-th runtime was written for the current number, unless a call
\* of the generator failed.
Generated(j) ==
    LET target == TargetOf(TestRuntimes[j])
    IN target \in failed \/ \A f \in File : f[1] = target => f \in written

AllGenerated ==
    /\ step = "generate" \/ InLoop => \A f \in written : files[f] = num
    /\ step = "generate" => \A j \in 1 .. at.runtime - 1 : Generated(j)
    /\ InLoop => \A j \in DOMAIN TestRuntimes : Generated(j)

\* A call that does not fail writes all files of its target.
LEMMA AllFiles ==
    ASSUME NEW target \in Target, NEW k \in 0 .. Len(ConfigTypes(target)), ~Fails(target, k)
    PROVE  \A f \in File : f[1] = target => f \in FirstFiles(target, k)
<1>1. \A f \in File : f[1] = target =>
          \E i \in DOMAIN ConfigTypes(target) : f[2] = ConfigTypes(target)[i]
    BY DEF File
<1>2. /\ Len(ConfigTypes(target)) \in Nat
      /\ DOMAIN ConfigTypes(target) = 1 .. Len(ConfigTypes(target))
    <2>1. CASE target = "containerd"
        BY <2>1 DEF ConfigTypes
    <2>2. CASE target = "crun"
        BY <2>2 DEF ConfigTypes
    <2>3. CASE target = "native"
        BY <2>3 DEF ConfigTypes
    <2> QED
        BY <2>1, <2>2, <2>3 DEF Target
<1>3. k = Len(ConfigTypes(target))
    <2> DEFINE n == Len(ConfigTypes(target))
    <2>1. n \in Nat /\ k \in 0 .. n /\ ~(k < n)
        BY <1>2 DEF Fails
    <2> HIDE DEF n
    <2>2. k = n
        BY ONLY <2>1
    <2> QED
        BY <2>2 DEF n
<1> QED
    BY <1>1, <1>2, <1>3 DEF FirstFiles

LEMMA GeneratedStep ==
    ASSUME ScriptTypes, GenerateConfigs, NEW j \in DOMAIN TestRuntimes,
           Generated(j) \/ j = at.runtime
    PROVE  Generated(j)'
<1> DEFINE target == TargetOf(runtime)
<1>1. PICK k \in 0 .. Len(ConfigTypes(target)) : ForThisNumber(target, k)
    BY DEF GenerateConfigs
<1>2. written \subseteq written' /\ failed \subseteq failed'
    BY <1>1 DEF ForThisNumber
<1>3. CASE Generated(j)
    BY <1>2, <1>3 DEF Generated
<1>4. CASE j = at.runtime
    <2>1. target \in Target /\ target = TargetOf(TestRuntimes[j])
        BY <1>4, DirType, TargetType DEF runtime
    <2>2. CASE Fails(target, k)
        BY <1>1, <2>1, <2>2 DEF ForThisNumber, Generated
    <2>3. CASE ~Fails(target, k)
        <3>1. \A f \in File : f[1] = target => f \in FirstFiles(target, k)
            BY <2>1, <2>3, AllFiles
        <3> QED
            BY <1>1, <2>1, <3>1 DEF ForThisNumber, Generated
    <2> QED
        BY <2>2, <2>3
<1> QED
    BY <1>3, <1>4

\* What a call writes is of the current number, and leaves the rest as it was.
LEMMA WrittenStep ==
    ASSUME ScriptTypes, AllGenerated, GenerateConfigs
    PROVE  \A f \in written' : files'[f] = num'
<1> DEFINE target == TargetOf(runtime)
<1>1. PICK k \in 0 .. Len(ConfigTypes(target)) :
          Generator(target, k, num) /\ ForThisNumber(target, k)
    BY DEF GenerateConfigs
<1>2. num' = num
    BY DEF GenerateConfigs, num, ScriptTypes
<1>3. \A f \in written : files[f] = num /\ f \in File
    BY DEF GenerateConfigs, AllGenerated, ScriptTypes
<1>4. \A f \in File : files'[f] = IF f \in FirstFiles(target, k) THEN num ELSE files[f]
    BY <1>1 DEF Generator, Written
<1>5. written' = written \cup FirstFiles(target, k) /\ FirstFiles(target, k) \subseteq File
    BY <1>1 DEF ForThisNumber, FirstFiles
<1> QED
    BY <1>2, <1>3, <1>4, <1>5

LEMMA GeneratedKept ==
    ASSUME UNCHANGED <<files, written, failed, at>>
    PROVE  /\ \A j \in DOMAIN TestRuntimes : Generated(j) => Generated(j)'
           /\ (\A f \in written : files[f] = num) => \A f \in written' : files'[f] = num'
BY DEF Generated, num

LEMMA StepGenerated ==
    ASSUME ScriptTypes, AllGenerated, ScriptStep
    PROVE  AllGenerated'
<1> USE Lists
<1>1. ASSUME NEW n \in 1 .. MaxIterations, BeginCampaign(n)
      PROVE  AllGenerated'
    BY <1>1 DEF BeginCampaign, AllGenerated, InLoop
<1>2. CASE PrepareBase
    BY <1>2 DEF PrepareBase, AllGenerated, InLoop
<1>3. CASE GenerateConfigs
    <2>1. \A j \in 1 .. at.runtime : Generated(j)'
        <3> SUFFICES ASSUME NEW j \in 1 .. at.runtime
                     PROVE  Generated(j)'
            OBVIOUS
        <3>1. j \in DOMAIN TestRuntimes
            BY DEF ScriptTypes
        <3>2. Generated(j) \/ j = at.runtime
            BY <1>3 DEF GenerateConfigs, AllGenerated, ScriptTypes
        <3> QED
            BY <1>3, <3>1, <3>2, GeneratedStep
    <2>2. \A f \in written' : files'[f] = num'
        BY <1>3, WrittenStep
    <2>3. CASE at.runtime < Len(TestRuntimes)
        <3>1. at'.runtime = at.runtime + 1 /\ step' = "generate"
            BY <1>3, <2>3 DEF GenerateConfigs, ScriptTypes
        <3> QED
            BY <2>1, <2>2, <3>1 DEF AllGenerated, InLoop, ScriptTypes
    <2>4. CASE ~(at.runtime < Len(TestRuntimes))
        <3>1. step' = "mkdir" /\ at.runtime = Len(TestRuntimes)
            BY <1>3, <2>4 DEF GenerateConfigs, ScriptTypes
        <3> QED
            BY <2>1, <2>2, <3>1 DEF AllGenerated
    <2> QED
        BY <2>3, <2>4
<1>4. CASE MakeDirectory \/ Measure \/ CopyClientLog \/ CopyClientLogs
    <2>1. /\ UNCHANGED <<files, written, failed, at>>
          /\ InLoop
          /\ step' # "generate"
        BY <1>4 DEF MakeDirectory, Measure, CopyClientLog, CopyClientLogs, InLoop
    <2> QED
        BY <2>1, GeneratedKept DEF AllGenerated
<1>5. CASE CopyManagerLog
    <2>1. /\ InLoop /\ Advance /\ UNCHANGED files
          /\ written' = IF step' = "generate" THEN {} ELSE written
          /\ failed' = IF step' = "generate" THEN {} ELSE failed
        BY <1>5 DEF CopyManagerLog, InLoop
    <2>2. \/ at'.num = at.num /\ step' = "mkdir"
          \/ at'.runtime = 1 /\ step' = "generate"
          \/ step' = "over"
        <3>1. CASE at' = [at EXCEPT !.runtime = @ + 1] /\ step' = "mkdir"
            BY <3>1 DEF ScriptTypes
        <3>2. CASE at' = [at EXCEPT !.runtime = 1, !.iteration = @ + 1] /\ step' = "mkdir"
            BY <3>2 DEF ScriptTypes
        <3>3. CASE /\ at' = [num |-> at.num + 1, iteration |-> 0, runtime |-> 1]
                   /\ step' = "generate"
            BY <3>3
        <3> QED
            BY <2>1, <3>1, <3>2, <3>3, AdvanceCases
    <2>3. CASE at'.num = at.num /\ step' = "mkdir"
        BY <2>1, <2>3 DEF AllGenerated, InLoop, Generated, num
    <2>4. CASE at'.runtime = 1 /\ step' = "generate"
        BY <2>1, <2>4 DEF AllGenerated, InLoop
    <2>5. CASE step' = "over"
        BY <2>5 DEF AllGenerated, InLoop
    <2> QED
        BY <2>2, <2>3, <2>4, <2>5
<1>6. CASE Abort
    BY <1>6 DEF Abort, AllGenerated, InLoop
<1> QED
    BY <1>1, <1>2, <1>3, <1>4, <1>5, <1>6 DEF ScriptStep

\* The files a round uses belong to the runtime's target, and the generator gives
\* their entries all that the manager reads and knows.
LEMMA UsedFiles ==
    ASSUME NEW r \in Runtime, NEW seq \in BOOLEAN, NEW f \in FilesUsed(r, seq)
    PROVE  f \in File /\ f[1] = TargetOf(r) /\ Sufficient(f)
<1>1. r \in {"ctrd", "crun", "crun_batch", "native"}
    BY CampaignAssumption DEF Runtime
<1>2. CASE r = "ctrd"
    <2>1. f \in {"containerd"} \X {"create", "start", "run", "killAndDeleteTask"}
        BY <1>2 DEF FilesUsed
    <2>2. f \in File /\ f[1] = TargetOf(r)
        BY <1>2, <2>1 DEF File, TargetOf, Target, ConfigTypes
    <2>3. Sufficient(f)
        BY <2>1 DEF Sufficient, UsedKeys, Keys, KnownKeys, BaseKeys, MountKeys
    <2> QED
        BY <2>2, <2>3
<1>3. CASE r \in {"crun", "crun_batch"}
    <2>1. f \in {"crun"} \X {"mount", "create", "start", "run", "kill", "delete", "umount"}
        BY <1>3 DEF FilesUsed
    <2>2. f \in File /\ f[1] = TargetOf(r)
        BY <1>3, <2>1 DEF File, TargetOf, Target, ConfigTypes
    <2>3. Sufficient(f)
        BY <2>1 DEF Sufficient, UsedKeys, Keys, KnownKeys, BaseKeys, MountKeys
    <2> QED
        BY <2>2, <2>3
<1>4. CASE r = "native"
    <2>1. f = <<"native", "run">>
        BY <1>4 DEF FilesUsed
    <2>2. f \in File /\ f[1] = TargetOf(r)
        BY <1>4, <2>1 DEF File, TargetOf, Target, ConfigTypes
    <2>3. Sufficient(f)
        BY <2>1 DEF Sufficient, UsedKeys, Keys, KnownKeys, BaseKeys, MountKeys
    <2> QED
        BY <2>2, <2>3
<1> QED
    BY <1>1, <1>2, <1>3, <1>4

LEMMA AllGeneratedFits == ScriptTypes /\ AllGenerated => ConfigsFit
<1> SUFFICES ASSUME ScriptTypes, AllGenerated, step = "measure",
                    NEW f \in FilesUsed(runtime, sequentiell)
             PROVE  /\ Sufficient(f)
                    /\ IF f \in written THEN files[f] = num ELSE TargetOf(runtime) \in failed
    BY DEF ConfigsFit
<1>1. f \in File /\ f[1] = TargetOf(runtime) /\ Sufficient(f)
    BY UsedFiles, DirType DEF ScriptTypes
<1>2. Generated(at.runtime) /\ (f \in written => files[f] = num)
    BY DEF AllGenerated, InLoop, ScriptTypes
<1> QED
    BY <1>1, <1>2 DEF Generated, runtime
------------------------------------------------------------------------------
(* The directories                                                          *)

\* The logs of this campaign for the j-th number, iteration i, the k-th runtime.
Done(j, i, k) ==
    dirs[<<TestRuntimes[k], Nums[j], i>>]
        = [exists |-> TRUE, clients |-> {campaign}, manager |-> campaign]

\* The loops are past that point.
Behind(j, i, k) ==
    \/ step = "over"
    \/ j < at.num
    \/ j = at.num /\ i < at.iteration
    \/ j = at.num /\ i = at.iteration /\ k < at.runtime /\ step # "generate"

AllCollected ==
    InLoop \/ step \in {"generate", "over"} =>
        \A j \in DOMAIN Nums, i \in 0 .. iterations - 1, k \in DOMAIN TestRuntimes :
            Behind(j, i, k) => Done(j, i, k)

\* The directory at hand, as far as it is filled.
Filled ==
    /\ step \in {"measure", "copyClients", "copyManager"} => dirs[dir].exists
    /\ step = "copyManager" => dirs[dir].clients = {campaign}

DirsInv == AllCollected /\ Filled

\* What is written into a directory that this campaign has filled changes nothing.
LEMMA FilledAgain ==
    ASSUME NEW c \in Nat, NEW f \in [Dir -> [exists : BOOLEAN, clients : SUBSET Nat, manager : Nat]],
           NEW d \in Dir, f[d] = [exists |-> TRUE, clients |-> {c}, manager |-> c]
    PROVE  /\ [f EXCEPT ![d].exists = TRUE][d] = f[d]
           /\ [f EXCEPT ![d].clients = {c}][d] = f[d]
           /\ [f EXCEPT ![d].clients = @ \cup {c}][d] = f[d]
<1> DEFINE g == f[d]
<1>1. g.exists = TRUE /\ g.clients = {c} /\ g.manager = c
    OBVIOUS
<1>2. [f EXCEPT ![d].exists = TRUE][d] = [g EXCEPT !.exists = TRUE]
    OBVIOUS
<1>3. /\ [f EXCEPT ![d].clients = {c}][d] = [g EXCEPT !.clients = {c}]
      /\ [f EXCEPT ![d].clients = @ \cup {c}][d] = [g EXCEPT !.clients = g.clients \cup {c}]
    OBVIOUS
<1>4. g \in [exists : BOOLEAN, clients : SUBSET Nat, manager : Nat]
    OBVIOUS
<1> HIDE DEF g
<1>5. /\ [g EXCEPT !.exists = TRUE] = g
      /\ [g EXCEPT !.clients = {c}] = g
      /\ g.clients \cup {c} = {c}
    BY <1>1, <1>4
<1> QED
    BY <1>2, <1>3, <1>5 DEF g

\* The directory of a point of the loops.
LEMMA DirOf ==
    ASSUME ScriptTypes, NEW r \in Runtime, NEW n \in Num, NEW i \in 0 .. iterations - 1
    PROVE  <<r, n, i>> \in Dir
<1>1. i \in 0 .. MaxIterations - 1
    BY Lists DEF ScriptTypes
<1> QED
    BY <1>1 DEF Dir

LEMMA PointDir ==
    ASSUME ScriptTypes, NEW j \in DOMAIN Nums, NEW k \in DOMAIN TestRuntimes,
           NEW i \in 0 .. iterations - 1
    PROVE  <<TestRuntimes[k], Nums[j], i>> \in Dir
<1>1. TestRuntimes[k] \in Runtime /\ Nums[j] \in Num
    BY DEF Runtime, Num
<1> QED
    BY ONLY ScriptTypes, <1>1, DirOf, i \in 0 .. iterations - 1

LEMMA InitDirs == CampaignInit => DirsInv
BY DEF CampaignInit, DirsInv, AllCollected, Filled, InLoop

LEMMA AdvanceCollected ==
    ASSUME ScriptTypes, InLoop, DirsInv, Advance, step = "copyManager",
           dirs' = [dirs EXCEPT ![dir].manager = campaign],
           UNCHANGED <<campaign, iterations>>
    PROVE  AllCollected'
<1> SUFFICES ASSUME NEW j \in DOMAIN Nums, NEW i \in 0 .. iterations - 1,
                    NEW k \in DOMAIN TestRuntimes, Behind(j, i, k)'
             PROVE  Done(j, i, k)'
    BY DEF AllCollected
<1> USE Lists DEF ScriptTypes
<1>1. Behind(j, i, k) \/ (j = at.num /\ i = at.iteration /\ k = at.runtime)
    <2>1. CASE /\ at.runtime < Len(TestRuntimes)
               /\ at' = [at EXCEPT !.runtime = @ + 1] /\ step' = "mkdir"
        BY <2>1 DEF Behind
    <2>2. CASE /\ ~(at.runtime < Len(TestRuntimes)) /\ at.iteration + 1 < iterations
               /\ at' = [at EXCEPT !.runtime = 1, !.iteration = @ + 1] /\ step' = "mkdir"
        <3>1. at'.num = at.num /\ at'.iteration = at.iteration + 1 /\ at'.runtime = 1
            BY <2>2
        <3> QED
            BY <2>2, <3>1 DEF Behind
    <2>3. CASE /\ ~(at.runtime < Len(TestRuntimes)) /\ ~(at.iteration + 1 < iterations)
               /\ at.num < Len(Nums)
               /\ at' = [num |-> at.num + 1, iteration |-> 0, runtime |-> 1]
               /\ step' = "generate"
        <3>1. j < at.num \/ j = at.num
            <4>1. j < at.num + 1
                BY <2>3 DEF Behind
            <4>2. j \in Nat /\ at.num \in Nat
                OBVIOUS
            <4> QED
                BY ONLY <4>1, <4>2
        <3>2. j = at.num =>
                  (i < at.iteration \/ i = at.iteration) /\ (k < at.runtime \/ k = at.runtime)
            <4>1. /\ {i, at.iteration, k, at.runtime, iterations} \subseteq Nat
                  /\ i < iterations /\ k <= Len(TestRuntimes) /\ Len(TestRuntimes) \in Nat
                OBVIOUS
            <4>2. ~(at.runtime < Len(TestRuntimes)) /\ ~(at.iteration + 1 < iterations)
                BY ONLY <2>3
            <4> QED
                BY ONLY <4>1, <4>2
        <3> QED
            BY ONLY <3>1, <3>2, step = "copyManager" DEF Behind
    <2>4. CASE /\ ~(at.runtime < Len(TestRuntimes)) /\ ~(at.iteration + 1 < iterations)
               /\ ~(at.num < Len(Nums))
               /\ at' = at /\ step' = "over"
        BY <2>4 DEF Behind
    <2> QED
        BY <2>1, <2>2, <2>3, <2>4, AdvanceCases
<1> DEFINE d == <<TestRuntimes[k], Nums[j], i>>
<1>2. d \in Dir
    BY ONLY ScriptTypes, j \in DOMAIN Nums, k \in DOMAIN TestRuntimes,
            i \in 0 .. iterations - 1, PointDir
<1>3. /\ dirs[d].exists = TRUE /\ dirs[d].clients = {campaign}
      /\ dirs'[d].manager = campaign
    <2>1. CASE Behind(j, i, k)
        <3>1. Done(j, i, k)
            BY <2>1 DEF DirsInv, AllCollected
        <3> QED
            BY <1>2, <3>1 DEF Done
    <2>2. CASE j = at.num /\ i = at.iteration /\ k = at.runtime
        <3>1. d = dir
            BY <2>2 DEF dir, runtime, num
        <3> QED
            BY <1>2, <3>1 DEF DirsInv, Filled
    <2> QED
        BY <1>1, <2>1, <2>2
<1>4. dirs'[d] = [exists |-> TRUE, clients |-> {campaign}, manager |-> campaign]
    BY <1>2, <1>3
<1> QED
    BY <1>4 DEF Done

LEMMA StepDirs ==
    ASSUME ScriptTypes, DirsInv, ScriptStep
    PROVE  DirsInv'
<1> USE Lists
<1>1. ASSUME NEW n \in 1 .. MaxIterations, BeginCampaign(n)
      PROVE  DirsInv'
    BY <1>1 DEF BeginCampaign, DirsInv, AllCollected, Filled, InLoop
<1>2. CASE PrepareBase
    <2>1. AllCollected'
        BY <1>2 DEF PrepareBase, AllCollected, Behind, ScriptTypes
    <2> QED
        BY <1>2, <2>1 DEF PrepareBase, DirsInv, Filled
<1>3. CASE GenerateConfigs
    <2>1. /\ step = "generate" /\ step' \in {"generate", "mkdir"}
          /\ step' = "mkdir" => at'.runtime = 1
          /\ at'.num = at.num /\ at'.iteration = at.iteration
          /\ UNCHANGED <<dirs, campaign, iterations>>
        BY <1>3 DEF GenerateConfigs, ScriptTypes
    <2>2. AllCollected'
        <3> SUFFICES ASSUME NEW j \in DOMAIN Nums, NEW i \in 0 .. iterations - 1,
                            NEW k \in DOMAIN TestRuntimes, Behind(j, i, k)'
                     PROVE  Done(j, i, k)'
            BY <2>1 DEF AllCollected
        <3>1. at.iteration = 0 /\ at.num \in Nat
            BY <2>1 DEF ScriptTypes
        <3>2. j < at.num
            BY <2>1, <3>1 DEF Behind
        <3>3. Done(j, i, k)
            BY <2>1, <3>2 DEF DirsInv, AllCollected, Behind
        <3> QED
            BY <2>1, <3>3 DEF Done
    <2> QED
        BY <2>1, <2>2 DEF DirsInv, Filled
<1>4. CASE MakeDirectory
    <2>1. dirs' = [dirs EXCEPT ![dir].exists = TRUE] /\ dir \in Dir
        BY <1>4, DirType DEF MakeDirectory
    <2>2. /\ InLoop /\ InLoop' /\ step # "over" /\ step' = "measure"
          /\ step # "generate"
          /\ UNCHANGED <<at, campaign, iterations>>
        BY <1>4 DEF MakeDirectory, InLoop
    <2>3. AllCollected'
        <3> SUFFICES ASSUME NEW j \in DOMAIN Nums, NEW i \in 0 .. iterations - 1,
                            NEW k \in DOMAIN TestRuntimes, Done(j, i, k)
                     PROVE  Done(j, i, k)'
            BY <2>2 DEF DirsInv, AllCollected, Behind
        <3> DEFINE d == <<TestRuntimes[k], Nums[j], i>>
        <3>1. d \in Dir
            BY PointDir
        <3>2. dirs[d] = [exists |-> TRUE, clients |-> {campaign}, manager |-> campaign]
            BY DEF Done
        <3>3. dirs'[d] = dirs[d]
            <4>1. CASE d = dir
                <5>1. /\ campaign \in Nat
                      /\ dirs \in [Dir -> [exists : BOOLEAN, clients : SUBSET Nat, manager : Nat]]
                    BY DEF ScriptTypes
                <5>2. dirs[dir] = [exists |-> TRUE, clients |-> {campaign}, manager |-> campaign]
                    BY <3>2, <4>1
                <5>3. dirs'[dir] = dirs[dir]
                    BY ONLY <2>1, <5>1, <5>2, FilledAgain
                <5> QED
                    BY ONLY <4>1, <5>3
            <4>2. CASE d # dir
                BY <2>1, <3>1, <4>2 DEF ScriptTypes
            <4> QED
                BY <4>1, <4>2
        <3> QED
            BY <2>2, <3>2, <3>3 DEF Done
    <2>4. Filled'
        <3>1. dir' = dir
            BY <2>2 DEF dir, num, runtime
        <3> QED
            BY <2>1, <2>2, <3>1 DEF Filled, ScriptTypes
    <2> QED
        BY <2>2, <2>3, <2>4 DEF DirsInv
<1>5. CASE Measure
    <2>1. /\ step = "measure" /\ step' = "copyClients"
          /\ UNCHANGED <<at, campaign, iterations, dirs>>
        BY <1>5 DEF Measure
    <2>2. AllCollected'
        BY <2>1 DEF DirsInv, AllCollected, InLoop, Behind, Done
    <2>3. Filled'
        BY <2>1 DEF DirsInv, Filled, dir, num, runtime
    <2> QED
        BY <2>1, <2>2, <2>3 DEF DirsInv
<1>6. CASE CopyClientLog \/ CopyClientLogs
    <2>1. /\ \/ dirs' = [dirs EXCEPT ![dir].clients = {campaign}]
             \/ dirs' = [dirs EXCEPT ![dir].clients = @ \cup {campaign}]
          /\ dir \in Dir
        BY <1>6, DirType DEF CopyClientLog, CopyClientLogs
    <2>2. /\ step = "copyClients" /\ step' \in {"copyClients", "copyManager"}
          /\ step' = "copyManager" => dirs' = [dirs EXCEPT ![dir].clients = {campaign}]
          /\ UNCHANGED <<at, campaign, iterations>>
        BY <1>6 DEF CopyClientLog, CopyClientLogs
    <2>3. AllCollected'
        <3> SUFFICES ASSUME NEW j \in DOMAIN Nums, NEW i \in 0 .. iterations - 1,
                            NEW k \in DOMAIN TestRuntimes, Done(j, i, k)
                     PROVE  Done(j, i, k)'
            BY <2>2 DEF DirsInv, AllCollected, Behind, InLoop
        <3> DEFINE d == <<TestRuntimes[k], Nums[j], i>>
        <3>1. d \in Dir
            BY PointDir
        <3>2. dirs[d] = [exists |-> TRUE, clients |-> {campaign}, manager |-> campaign]
            BY DEF Done
        <3>3. dirs'[d] = dirs[d]
            <4>1. CASE d = dir
                <5>1. /\ campaign \in Nat
                      /\ dirs \in [Dir -> [exists : BOOLEAN, clients : SUBSET Nat, manager : Nat]]
                    BY DEF ScriptTypes
                <5>2. dirs[dir] = [exists |-> TRUE, clients |-> {campaign}, manager |-> campaign]
                    BY <3>2, <4>1
                <5>3. dirs'[dir] = dirs[dir]
                    <6>1. CASE dirs' = [dirs EXCEPT ![dir].clients = {campaign}]
                        BY ONLY <2>1, <5>1, <5>2, <6>1, FilledAgain
                    <6>2. CASE dirs' = [dirs EXCEPT ![dir].clients = @ \cup {campaign}]
                        BY ONLY <2>1, <5>1, <5>2, <6>2, FilledAgain
                    <6> QED
                        BY <2>1, <6>1, <6>2
                <5> QED
                    BY ONLY <4>1, <5>3
            <4>2. CASE d # dir
                BY <2>1, <3>1, <4>2 DEF ScriptTypes
            <4> QED
                BY <4>1, <4>2
        <3> QED
            BY <2>2, <3>2, <3>3 DEF Done
    <2>4. Filled'
        <3>1. dir' = dir
            BY <2>2 DEF dir, num, runtime
        <3>2. dirs'[dir].exists
            <4>1. dirs[dir].exists /\ dirs \in [Dir -> [exists : BOOLEAN, clients : SUBSET Nat,
                                                       manager : Nat]]
                BY <2>2 DEF DirsInv, Filled, ScriptTypes
            <4>2. PICK logs : dirs' = [dirs EXCEPT ![dir].clients = logs]
                BY <2>1
            <4> QED
                BY ONLY <2>1, <4>1, <4>2
        <3>3. step' = "copyManager" => dirs'[dir].clients = {campaign}
            BY <2>1, <2>2 DEF ScriptTypes
        <3> QED
            BY <2>2, <3>1, <3>2, <3>3 DEF Filled
    <2> QED
        BY <2>2, <2>3, <2>4 DEF DirsInv
<1>7. CASE CopyManagerLog
    <2>1. /\ dirs' = [dirs EXCEPT ![dir].manager = campaign] /\ dir \in Dir
          /\ UNCHANGED <<campaign, iterations>>
          /\ step = "copyManager" /\ InLoop /\ Advance
        BY <1>7, DirType DEF CopyManagerLog, InLoop
    <2>2. AllCollected'
        BY <2>1, AdvanceCollected
    <2>3. Filled'
        BY <2>1, AdvanceTypes DEF Filled
    <2> QED
        BY <2>1, <2>2, <2>3 DEF DirsInv
<1>8. CASE Abort
    BY <1>8 DEF Abort, DirsInv, AllCollected, Filled, InLoop
<1> QED
    BY <1>1, <1>2, <1>3, <1>4, <1>5, <1>6, <1>7, <1>8 DEF ScriptStep
------------------------------------------------------------------------------
(* The walk                                                                 *)

\* An iteration of that directory's number has no logs.
Incomplete(d) == \E i \in Iterations(d[1], d[2]) : ~HasLogs(i)

AllLogs == \A d \in Dir : dirs[d].exists => HasLogs(d)

\* The difference of a directory that there is.
Real(diff) == diff.dir \in Dir /\ dirs[diff.dir].exists /\ diff = Diff(diff.dir)

\* The row of a number, as it should be.
Row(r, n) == [runtime |-> r, num |-> n, diffs |-> {Diff(d) : d \in Iterations(r, n)}]

HasRow(r, n) == \E row \in rows : row.runtime = r /\ row.num = n

WalkInv ==
    /\ walk \in {"no", "walking", "done"}
    /\ walk = "no" => walked = {} /\ diffs = {} /\ rows = {}
    /\ walk # "no" => Resting
    /\ walked \subseteq NumberDir
    /\ walk = "done" => walked = NumberDir
    /\ \A diff \in diffs : Incomplete(diff.dir) /\ Real(diff)
    /\ \A row \in rows : \A diff \in row.diffs : Real(diff)
    /\ RowsOwnIterations
    /\ \A rn \in walked : HasRow(rn[1], rn[2]) \/ Incomplete(rn)
    /\ walk # "no" /\ AllLogs =>
          diffs = {} /\ rows = {Row(rn[1], rn[2]) : rn \in walked}

LEMMA InitWalk == Init => WalkInv
BY DEF Init, WalkInv, RowsOwnIterations

\* The script leaves the analysis alone until it begins.
LEMMA ScriptWalk ==
    ASSUME WalkInv, walk = "no", ScriptStep, UNCHANGED <<walk, walked, diffs, rows>>
    PROVE  WalkInv'
BY DEF WalkInv, RowsOwnIterations

\* What the walk reads of the directories does not change under it.
LEMMA Unmoved ==
    ASSUME UNCHANGED script
    PROVE  /\ \A a, b : Iterations(a, b)' = Iterations(a, b) /\ Row(a, b)' = Row(a, b)
           /\ \A d : /\ HasLogs(d)' = HasLogs(d)
                     /\ Diff(d)' = Diff(d)
                     /\ Incomplete(d)' = Incomplete(d)
                     /\ Real(d)' = Real(d)
           /\ NumberDir' = NumberDir /\ AllLogs' = AllLogs /\ Resting' = Resting
BY DEF script, Iterations, Row, HasLogs, Diff, Incomplete, Real, NumberDir, AllLogs, Resting

LEMMA WalkedNumber ==
    ASSUME WalkInv, NEW r \in Runtime, NEW n \in Num, WalkNumber(r, n)
    PROVE  WalkInv'
<1> DEFINE here == Iterations(r, n)
           found == diffs \cup {Diff(d) : d \in {i \in here : HasLogs(i)}}
<1>1. /\ walk = "walking" /\ UNCHANGED <<script, walk>>
      /\ <<r, n>> \in NumberDir
      /\ walked' = walked \cup {<<r, n>>}
    BY DEF WalkNumber
<1>2. /\ \A a, b : Iterations(a, b)' = Iterations(a, b) /\ Row(a, b)' = Row(a, b)
      /\ \A d : /\ HasLogs(d)' = HasLogs(d)
                /\ Diff(d)' = Diff(d)
                /\ Incomplete(d)' = Incomplete(d)
                /\ Real(d)' = Real(d)
      /\ NumberDir' = NumberDir /\ AllLogs' = AllLogs /\ Resting' = Resting
    BY <1>1, Unmoved
<1>3. \A d \in here : /\ d[1] = r /\ d[2] = n /\ Diff(d).dir = d
                      /\ Real(Diff(d))
    BY DEF Iterations, Diff, Real
<1>4. \A diff \in found : Real(diff)
    BY <1>3 DEF WalkInv
<1>5. /\ walk' = "walking" /\ Resting'
      /\ walked' \subseteq NumberDir'
    BY <1>1, <1>2 DEF WalkInv
<1>6. CASE \A d \in here : HasLogs(d)
    <2>1. /\ rows' = rows \cup {[runtime |-> r, num |-> n, diffs |-> found]}
          /\ diffs' = {}
        BY <1>6 DEF WalkNumber
    <2>2. found = diffs \cup {Diff(d) : d \in here}
        BY <1>6
    <2>3. /\ RowsOwnIterations'
          /\ \A row \in rows' : \A diff \in row.diffs : Real(diff)
        <3> SUFFICES ASSUME NEW row \in rows'
                     PROVE  /\ \A d \in Iterations(row.runtime, row.num) :
                                  Diff(d) \in row.diffs
                            /\ \A diff \in row.diffs :
                                  /\ \/ <<diff.dir[1], diff.dir[2]>> = <<row.runtime, row.num>>
                                     \/ Incomplete(diff.dir)
                                  /\ Real(diff)
            BY <1>2 DEF RowsOwnIterations, Incomplete
        <3>1. CASE row \in rows
            BY <3>1 DEF WalkInv, RowsOwnIterations, Incomplete
        <3>2. CASE row = [runtime |-> r, num |-> n, diffs |-> found]
            <4>1. row.runtime = r /\ row.num = n /\ row.diffs = found
                BY <3>2
            <4> HIDE DEF found
            <4>2. \A d \in here : Diff(d) \in found
                BY <2>2
            <4>3. ASSUME NEW diff \in found
                  PROVE  <<diff.dir[1], diff.dir[2]>> = <<r, n>> \/ Incomplete(diff.dir)
                BY <2>2, <1>3 DEF WalkInv
            <4> QED
                BY <1>4, <4>1, <4>2, <4>3
        <3> QED
            BY <2>1, <3>1, <3>2
    <2>4. \A rn \in walked' : HasRow(rn[1], rn[2])' \/ Incomplete(rn)
        <3> HIDE DEF found
        <3> DEFINE new == [runtime |-> r, num |-> n, diffs |-> found]
        <3>1. new.runtime = r /\ new.num = n /\ new \in rows'
            BY <2>1
        <3> HIDE DEF new
        <3>2. HasRow(r, n)'
            BY <3>1 DEF HasRow
        <3>3. \A a, b : HasRow(a, b) => HasRow(a, b)'
            BY <2>1 DEF HasRow
        <3> QED
            BY <1>1, <3>2, <3>3 DEF WalkInv
    <2>5. ASSUME AllLogs
          PROVE  rows' = {Row(rn[1], rn[2]) : rn \in walked'}
        <3>1. diffs = {} /\ rows = {Row(rn[1], rn[2]) : rn \in walked}
            BY <1>1, <2>5 DEF WalkInv
        <3>2. [runtime |-> r, num |-> n, diffs |-> found] = Row(r, n)
            BY <2>2, <3>1 DEF Row
        <3> DEFINE RowOf(rn) == Row(rn[1], rn[2])
        <3>3. rows = {RowOf(rn) : rn \in walked}
            BY <3>1
        <3>4. rows' = rows \cup {RowOf(<<r, n>>)}
            BY <2>1, <3>2
        <3>5. walked' = walked \cup {<<r, n>>}
            BY <1>1
        <3> HIDE DEF RowOf
        <3>6. rows' = {RowOf(rn) : rn \in walked'}
            BY <3>3, <3>4, <3>5
        <3> QED
            BY <3>6 DEF RowOf
    <2> HIDE DEF found
    <2> QED
        BY <1>2, <1>5, <2>1, <2>3, <2>4, <2>5 DEF WalkInv
<1>7. CASE ~\A d \in here : HasLogs(d)
    <2>1. rows' = rows /\ diffs' = found
        BY <1>7 DEF WalkNumber
    <2>2. RowsOwnIterations'
        BY <1>2, <2>1 DEF WalkInv, RowsOwnIterations
    <2>3. \A diff \in found : Incomplete(diff.dir)
        BY <1>3, <1>7 DEF WalkInv, Incomplete
    <2>4. Incomplete(<<r, n>>)
        BY <1>7 DEF Incomplete
    <2>5. ~AllLogs
        BY <1>7 DEF AllLogs, Iterations
    <2>6. \A rn \in walked' : HasRow(rn[1], rn[2])' \/ Incomplete(rn)
        BY <1>1, <2>1, <2>4 DEF WalkInv, HasRow
    <2>7. \A row \in rows' : \A diff \in row.diffs : Real(diff)
        BY <2>1 DEF WalkInv
    <2> HIDE DEF found
    <2> QED
        BY <1>2, <1>4, <1>5, <2>1, <2>2, <2>3, <2>5, <2>6, <2>7 DEF WalkInv
<1> QED
    BY <1>6, <1>7

LEMMA StepWalk ==
    ASSUME WalkInv, [Next]_vars
    PROVE  WalkInv'
<1>1. CASE walk = "no" /\ ScriptStep /\ UNCHANGED <<walk, walked, diffs, rows>>
    BY <1>1, ScriptWalk
<1>2. CASE StartAnalysis
    <2>1. /\ walk = "no" /\ walk' = "walking" /\ Resting
          /\ UNCHANGED <<script, walked, diffs, rows>>
        BY <1>2 DEF StartAnalysis
    <2>2. walked = {} /\ diffs = {} /\ rows = {} /\ Resting'
        BY <2>1 DEF WalkInv, Resting, script
    <2> QED
        BY <2>1, <2>2 DEF WalkInv, RowsOwnIterations
<1>3. ASSUME NEW r \in Runtime, NEW n \in Num, WalkNumber(r, n)
      PROVE  WalkInv'
    BY <1>3, WalkedNumber
<1>4. CASE FinishAnalysis \/ UNCHANGED vars
    <2>1. /\ UNCHANGED <<script, walked, diffs, rows>>
          /\ walk' = walk \/ (walk = "walking" /\ walk' = "done" /\ walked = NumberDir)
        BY <1>4 DEF FinishAnalysis, vars
    <2>2. /\ \A a, b : Iterations(a, b)' = Iterations(a, b) /\ Row(a, b)' = Row(a, b)
          /\ \A d : /\ HasLogs(d)' = HasLogs(d)
                    /\ Diff(d)' = Diff(d)
                    /\ Incomplete(d)' = Incomplete(d)
                    /\ Real(d)' = Real(d)
          /\ NumberDir' = NumberDir /\ AllLogs' = AllLogs /\ Resting' = Resting
        BY <2>1, Unmoved
    <2>3. RowsOwnIterations'
        BY <2>1, <2>2 DEF WalkInv, RowsOwnIterations
    <2>4. \A a, b : HasRow(a, b)' = HasRow(a, b)
        BY <2>1 DEF HasRow
    <2> QED
        BY <2>1, <2>2, <2>3, <2>4 DEF WalkInv
<1> QED
    BY <1>1, <1>2, <1>3, <1>4 DEF Next, AnalysisStep
------------------------------------------------------------------------------
(* What the walk reports                                                    *)

\* After a campaign that went to its end each number of each runtime has the
\* directories of its iterations, with the logs of this campaign.
LEMMA OverIterations ==
    ASSUME ScriptTypes, DirsInv, step = "over", NEW r \in Runtime, NEW n \in Num,
           NEW i \in 0 .. iterations - 1
    PROVE  /\ <<r, n, i>> \in Iterations(r, n)
           /\ HasLogs(<<r, n, i>>)
           /\ Diff(<<r, n, i>>) = [dir |-> <<r, n, i>>, clients |-> {campaign},
                                   manager |-> campaign]
<1>1. PICK j \in DOMAIN Nums : n = Nums[j]
    BY DEF Num
<1>2. PICK k \in DOMAIN TestRuntimes : r = TestRuntimes[k]
    BY DEF Runtime
<1>3. dirs[<<r, n, i>>] = [exists |-> TRUE, clients |-> {campaign}, manager |-> campaign]
    BY <1>1, <1>2 DEF Behind, DirsInv, AllCollected, Done
<1>4. <<r, n, i>> \in Dir
    BY DirOf
<1> QED
    BY <1>3, <1>4 DEF Iterations, HasLogs, Diff

\* A directory is one of this campaign's iterations, or what an earlier one left.
LEMMA OwnOrLeftover ==
    ASSUME ScriptTypes, DirsInv, step = "over",
           NEW d \in Dir, dirs[d].exists
    PROVE  \/ HasLogs(d) /\ Diff(d) \in Own(d[1], d[2])
           \/ d \in Leftover(d[1], d[2])
<1>1. d[1] \in Runtime /\ d[2] \in Num /\ d[3] \in Nat /\ d = <<d[1], d[2], d[3]>>
    BY DEF Dir
<1>2. CASE d[3] < iterations
    <2>1. d[3] \in 0 .. iterations - 1
        BY <1>1, <1>2 DEF ScriptTypes
    <2>2. /\ HasLogs(d)
          /\ Diff(d) = [dir |-> <<d[1], d[2], d[3]>>, clients |-> {campaign},
                        manager |-> campaign]
        BY <1>1, <2>1, OverIterations
    <2> QED
        BY <2>1, <2>2 DEF Own
<1>3. CASE ~(d[3] < iterations)
    <2>1. d[3] >= iterations
        BY <1>1, <1>3 DEF ScriptTypes
    <2>2. d \in Iterations(d[1], d[2])
        BY <1>1 DEF Iterations
    <2> QED
        BY <2>1, <2>2 DEF Leftover
<1> QED
    BY <1>2, <1>3

LEMMA SpoiltNumbers ==
    ASSUME ScriptTypes, DirsInv, step = "over", NEW d, Incomplete(d)
    PROVE  Spoilt(d[1], d[2])
<1>1. PICK i \in Iterations(d[1], d[2]) : ~HasLogs(i)
    BY DEF Incomplete
<1>2. i \in Dir /\ i[1] = d[1] /\ i[2] = d[2] /\ dirs[i].exists
    BY DEF Iterations
<1>3. i \in Leftover(d[1], d[2])
    BY <1>1, <1>2, OwnOrLeftover
<1> QED
    BY <1>1, <1>3 DEF Spoilt

\* Without leftovers the walk sees what the campaign measured and nothing else.
LEMMA ExactRow ==
    ASSUME ScriptTypes, DirsInv, step = "over", NEW r \in Runtime, NEW n \in Num,
           Leftover(r, n) = {}
    PROVE  Row(r, n) = [runtime |-> r, num |-> n, diffs |-> Own(r, n)]
<1> DEFINE D(i) == [dir |-> <<r, n, i>>, clients |-> {campaign}, manager |-> campaign]
           diffsOf == {Diff(d) : d \in Iterations(r, n)}
<1>1. ASSUME NEW d \in Iterations(r, n)
      PROVE  Diff(d) \in Own(r, n)
    <2>1. d \in Dir /\ d[1] = r /\ d[2] = n /\ dirs[d].exists
        BY DEF Iterations
    <2> QED
        BY <2>1, OwnOrLeftover
<1>2. ASSUME NEW diff \in Own(r, n)
      PROVE  diff \in diffsOf
    <2>1. PICK i \in 0 .. iterations - 1 : diff = D(i)
        BY DEF Own
    <2> QED
        BY <2>1, OverIterations
<1>3. diffsOf = Own(r, n)
    BY <1>1, <1>2
<1> QED
    BY <1>3 DEF Row

LEMMA AllNumbers ==
    ASSUME ScriptTypes, DirsInv, step = "over"
    PROVE  NumberDir = Runtime \X Num
<1>1. 0 \in 0 .. iterations - 1
    BY DEF ScriptTypes
<1>2. \A r \in Runtime, n \in Num : Iterations(r, n) # {}
    BY <1>1, OverIterations
<1> QED
    BY <1>2 DEF NumberDir

\* Every number of every runtime has a row with all that was measured, or is spoilt.
LEMMA RowOrSpoilt ==
    ASSUME ScriptTypes, DirsInv, WalkInv, walk = "done", step = "over",
           NEW r \in Runtime, NEW n \in Num
    PROVE  \/ \E row \in rows : row.runtime = r /\ row.num = n /\ Own(r, n) \subseteq row.diffs
           \/ Spoilt(r, n)
<1>1. <<r, n>> \in walked
    BY AllNumbers DEF WalkInv
<1>2. HasRow(r, n) \/ Incomplete(<<r, n>>)
    BY <1>1 DEF WalkInv
<1>3. CASE Incomplete(<<r, n>>)
    <2>1. Spoilt(<<r, n>>[1], <<r, n>>[2])
        BY <1>3, SpoiltNumbers
    <2> QED
        BY <2>1
<1>4. CASE HasRow(r, n)
    <2>1. PICK row \in rows : row.runtime = r /\ row.num = n
        BY <1>4 DEF HasRow
    <2>2. \A d \in Iterations(r, n) : Diff(d) \in row.diffs
        BY <2>1 DEF WalkInv, RowsOwnIterations
    <2>3. ASSUME NEW diff \in Own(r, n)
          PROVE  diff \in row.diffs
        <3>1. PICK i \in 0 .. iterations - 1 :
                  diff = [dir |-> <<r, n, i>>, clients |-> {campaign}, manager |-> campaign]
            BY DEF Own
        <3>2. <<r, n, i>> \in Iterations(r, n) /\ Diff(<<r, n, i>>) = diff
            BY <3>1, OverIterations
        <3> QED
            BY <2>2, <3>2
    <2> QED
        BY <2>1, <2>3
<1> QED
    BY <1>2, <1>3, <1>4

\* What a row has is of this campaign or left over, and only spoilt numbers give
\* something to the row of another.
LEMMA RowsExplained ==
    ASSUME ScriptTypes, DirsInv, WalkInv, step = "over",
           NEW row \in rows, NEW diff \in row.diffs
    PROVE  LET r == diff.dir[1]
               n == diff.dir[2]
           IN /\ diff \in Own(r, n) \/ diff.dir \in Leftover(r, n)
              /\ <<r, n>> = <<row.runtime, row.num>> \/ Spoilt(r, n)
<1>1. diff.dir \in Dir /\ dirs[diff.dir].exists /\ diff = Diff(diff.dir)
    BY DEF WalkInv, Real
<1>2. diff \in Own(diff.dir[1], diff.dir[2]) \/ diff.dir \in Leftover(diff.dir[1], diff.dir[2])
    BY <1>1, OwnOrLeftover
<1>3. \/ <<diff.dir[1], diff.dir[2]>> = <<row.runtime, row.num>>
      \/ Incomplete(diff.dir)
    BY DEF WalkInv, RowsOwnIterations, Incomplete
<1> QED
    BY <1>2, <1>3, SpoiltNumbers

\* When nothing is left over the table is what the campaign measured.
LEMMA RowsExact ==
    ASSUME ScriptTypes, DirsInv, WalkInv, walk = "done", step = "over",
           \A r \in Runtime, n \in Num : Leftover(r, n) = {}
    PROVE  rows = {[runtime |-> r, num |-> n, diffs |-> Own(r, n)] :
                      r \in Runtime, n \in Num}
<1> DEFINE OwnRow(r, n) == [runtime |-> r, num |-> n, diffs |-> Own(r, n)]
<1>1. \A r \in Runtime, n \in Num : Row(r, n) = OwnRow(r, n)
    BY ExactRow
<1>2. AllLogs
    <2> SUFFICES ASSUME NEW d \in Dir, dirs[d].exists
                 PROVE  HasLogs(d)
        BY DEF AllLogs
    <2>1. d[1] \in Runtime /\ d[2] \in Num
        BY DEF Dir
    <2> QED
        BY <2>1, OwnOrLeftover
<1>3. rows = {Row(rn[1], rn[2]) : rn \in Runtime \X Num}
    BY <1>2, AllNumbers DEF WalkInv
<1> HIDE DEF OwnRow
<1>4. ASSUME NEW row \in rows
      PROVE  \E r \in Runtime, n \in Num : row = OwnRow(r, n)
    <2>1. PICK rn \in Runtime \X Num : row = Row(rn[1], rn[2])
        BY <1>3
    <2>2. rn[1] \in Runtime /\ rn[2] \in Num
        OBVIOUS
    <2> QED
        BY <1>1, <2>1, <2>2
<1>5. ASSUME NEW r \in Runtime, NEW n \in Num
      PROVE  OwnRow(r, n) \in rows
    <2>1. <<r, n>> \in Runtime \X Num /\ <<r, n>>[1] = r /\ <<r, n>>[2] = n
        OBVIOUS
    <2>2. Row(r, n) \in rows
        BY <1>3, <2>1
    <2> QED
        BY <1>1, <2>2
<1>6. rows = {OwnRow(r, n) : r \in Runtime, n \in Num}
    BY <1>4, <1>5
<1> QED
    BY <1>6 DEF OwnRow

LEMMA WalkReported ==
    ASSUME ScriptTypes, DirsInv, WalkInv
    PROVE  CompletedCampaignReported
BY RowOrSpoilt, RowsExplained, RowsExact DEF CompletedCampaignReported
------------------------------------------------------------------------------
(* The bounds, of which nothing above depends                               *)

\* What a file and a directory hold is of this run of campaigns.
Bounds ==
    /\ campaign \in 0 .. MaxCampaigns
    /\ files \in [File -> Num \cup {0, 1}]
    /\ dirs \in [Dir -> [exists : BOOLEAN, clients : SUBSET (1 .. MaxCampaigns),
                         manager : 0 .. MaxCampaigns]]
    /\ failures \in 0 .. MaxFailures

RowsType == \A row \in rows : row.runtime \in Runtime /\ row.num \in Num

LEMMA InitBounds == CampaignInit => Bounds
<1> SUFFICES ASSUME CampaignInit
             PROVE  Bounds
    OBVIOUS
<1> USE CampaignAssumption
<1>1. files \in [File -> Num \cup {0, 1}]
    BY DEF CampaignInit
<1>2. dirs \in [Dir -> [exists : BOOLEAN, clients : SUBSET (1 .. MaxCampaigns),
                       manager : 0 .. MaxCampaigns]]
    BY DEF CampaignInit
<1> QED
    BY <1>1, <1>2 DEF CampaignInit, Bounds

LEMMA GeneratorBounds ==
    ASSUME Bounds, NEW target, NEW k, NEW entries \in Num \cup {0, 1},
           Generator(target, k, entries)
    PROVE  files' \in [File -> Num \cup {0, 1}] /\ failures' \in 0 .. MaxFailures
<1>1. files' \in [File -> Num \cup {0, 1}]
    BY DEF Bounds, Generator, Written
<1>2. failures' \in 0 .. MaxFailures
    BY CampaignAssumption DEF Bounds, Generator
<1> QED
    BY <1>1, <1>2

LEMMA StepBounds ==
    ASSUME ScriptTypes, Bounds, ScriptStep
    PROVE  Bounds'
<1> USE CampaignAssumption
<1>1. ASSUME NEW n \in 1 .. MaxIterations, BeginCampaign(n)
      PROVE  Bounds'
    BY <1>1 DEF BeginCampaign, Bounds, ScriptTypes
<1>2. CASE PrepareBase
    <2>1. files' \in [File -> Num \cup {0, 1}] /\ failures' \in 0 .. MaxFailures
        BY <1>2, GeneratorBounds DEF PrepareBase
    <2> QED
        BY <1>2, <2>1 DEF PrepareBase, Bounds
<1>3. CASE GenerateConfigs
    <2>1. num \in Num
        BY Lists DEF num, ScriptTypes
    <2>2. files' \in [File -> Num \cup {0, 1}] /\ failures' \in 0 .. MaxFailures
        BY <1>3, <2>1, GeneratorBounds DEF GenerateConfigs
    <2> QED
        BY <1>3, <2>2 DEF GenerateConfigs, Bounds
<1>4. CASE MakeDirectory
    BY <1>4, DirType DEF MakeDirectory, Bounds
<1>5. CASE CopyClientLog \/ CopyClientLogs
    <2>1. campaign \in 1 .. MaxCampaigns
        BY <1>5 DEF CopyClientLog, CopyClientLogs, ScriptTypes, Bounds
    <2>2. dirs' \in [Dir -> [exists : BOOLEAN, clients : SUBSET (1 .. MaxCampaigns),
                             manager : 0 .. MaxCampaigns]]
        <3>1. /\ dir \in Dir
              /\ dirs \in [Dir -> [exists : BOOLEAN, clients : SUBSET (1 .. MaxCampaigns),
                                   manager : 0 .. MaxCampaigns]]
            BY DirType DEF Bounds
        <3>2. PICK logs \in SUBSET (1 .. MaxCampaigns) :
                  dirs' = [dirs EXCEPT ![dir].clients = logs]
            BY <1>5, <2>1, <3>1 DEF CopyClientLog, CopyClientLogs
        <3> QED
            BY ONLY <3>1, <3>2
    <2> QED
        BY <1>5, <2>2 DEF CopyClientLog, CopyClientLogs, Bounds
<1>6. CASE CopyManagerLog
    BY <1>6, DirType DEF CopyManagerLog, Bounds
<1>7. CASE Measure \/ Abort
    BY <1>7 DEF Measure, Abort, Bounds
<1> QED
    BY <1>1, <1>2, <1>3, <1>4, <1>5, <1>6, <1>7 DEF ScriptStep
------------------------------------------------------------------------------
(* The campaign and its analysis                                            *)

IInv == ScriptTypes /\ AllGenerated /\ DirsInv /\ WalkInv /\ Bounds /\ RowsType

LEMMA InitIInv == Init => IInv
<1>1. CampaignInit => AllGenerated
    BY DEF CampaignInit, AllGenerated, InLoop
<1> QED
    BY <1>1, InitTypes, InitDirs, InitWalk, InitBounds DEF Init, IInv, RowsType

LEMMA ScriptStutters ==
    ASSUME UNCHANGED script
    PROVE  /\ ScriptTypes => ScriptTypes'
           /\ AllGenerated => AllGenerated'
           /\ DirsInv => DirsInv'
           /\ Bounds => Bounds'
BY DEF script, Bounds, ScriptTypes, AllGenerated, Generated, DirsInv, AllCollected, Filled,
       InLoop, Behind, Done, dir, num, runtime

LEMMA NextIInv == IInv /\ [Next]_vars => IInv'
<1> SUFFICES ASSUME IInv, [Next]_vars
             PROVE  IInv'
    OBVIOUS
<1>1. ScriptStep \/ UNCHANGED script
    BY DEF Next, AnalysisStep, StartAnalysis, WalkNumber, FinishAnalysis, vars
<1>2. ScriptTypes' /\ AllGenerated' /\ DirsInv' /\ Bounds'
    BY <1>1, StepTypes, StepGenerated, StepDirs, StepBounds, ScriptStutters DEF IInv
<1>3. WalkInv'
    BY StepWalk DEF IInv
<1>4. RowsType'
    <2>1. \/ UNCHANGED rows
          \/ \E r \in Runtime, n \in Num : \E found :
                rows' = rows \cup {[runtime |-> r, num |-> n, diffs |-> found]}
        BY DEF Next, AnalysisStep, StartAnalysis, WalkNumber, FinishAnalysis, vars
    <2> QED
        BY <2>1 DEF IInv, RowsType
<1> QED
    BY <1>2, <1>3, <1>4 DEF IInv

LEMMA IInvInvariant == Spec => []IInv
<1> QED
    BY InitIInv, NextIInv, PTL DEF Spec

\* The loops of the script stay inside the lists, and no file, directory or row is
\* of a campaign, a number or a runtime that there is not.
THEOREM CampaignTypeCorrect == Spec => []TypeOK
<1>1. IInv => TypeOK
    <2> SUFFICES ASSUME IInv
                 PROVE  TypeOK
        OBVIOUS
    <2>1. CampaignTypeOK
        BY DEF IInv, ScriptTypes, Bounds, CampaignTypeOK
    <2>2. walked \subseteq Runtime \X Num
        BY DEF IInv, WalkInv, NumberDir
    <2> QED
        BY <2>1, <2>2 DEF IInv, WalkInv, RowsType, TypeOK
<1> QED
    BY <1>1, IInvInvariant, PTL

\* Every manager is called with files that have all its command reads.  A file that
\* a call of the generator for this number wrote has the round's entries, whatever
\* other calls failed; one that none wrote belongs to a target for which a call for
\* this number failed.
THEOREM ConfigurationsFit == Spec => []ConfigsFit
<1>1. IInv => ConfigsFit
    BY AllGeneratedFits DEF IInv
<1> QED
    BY <1>1, IInvInvariant, PTL

\* A row consists of its own iterations, and of others only when some of those
\* have no logs.
THEOREM RowsAreOwn == Spec => []RowsOwnIterations
<1>1. IInv => RowsOwnIterations
    BY DEF IInv, WalkInv
<1> QED
    BY <1>1, IInvInvariant, PTL

\* After a campaign that went to its end, over whatever earlier ones left, a number
\* without a row is one of which a longer campaign left a directory without logs,
\* every other row has all its iterations, and nothing in the table is made of logs
\* that do not belong together.
THEOREM CampaignReported == Spec => []CompletedCampaignReported
<1>1. IInv => CompletedCampaignReported
    BY WalkReported DEF IInv
<1> QED
    BY <1>1, IInvInvariant, PTL
==============================================================================
