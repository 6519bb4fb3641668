------------------------------- MODULE Campaign -------------------------------
(***************************************************************************)
(* A test campaign of benchmark.py: the configurations it generates for    *)
(* every number of containers, and the directories in which it collects    *)
(* the logs of every iteration of every runtime.  The script may be        *)
(* aborted at any point, and started again over what is there.  What a     *)
(* round does to the containers is in Benchmark and CtrdSession.           *)
(***************************************************************************)
EXTENDS ConfigGenerator

CONSTANTS
    TestRuntimes,   \* test_runtimes: the runtimes in the order of the configuration
    Nums,           \* config['num']
    MaxIterations,  \* bound: config['iterations']
    MaxCampaigns,   \* bound: calls of the script
    MaxFailures     \* bound: calls of the generator that fail

Runtime == {TestRuntimes[i] : i \in DOMAIN TestRuntimes}

Num == {Nums[i] : i \in DOMAIN Nums}

ASSUME CampaignAssumption ==
    /\ TestRuntimes \in Seq({"ctrd", "crun", "crun_batch", "native"})
    /\ TestRuntimes # <<>>
    /\ Nums \in Seq(Nat \ {0})
    /\ Nums # <<>>
    /\ {MaxIterations, MaxCampaigns} \subseteq Nat \ {0}
    /\ MaxFailures \in Nat

VARIABLES
    step,       \* where the script is
    campaign,   \* how often it was called
    sequentiell,\* config['run-type']
    iterations, \* config['iterations']
    at,         \* the loops of test_loop: number, iteration, runtime
    files,      \* entries of each configuration file, 0 when there is none
    dirs,       \* the iterations' directories: do they exist, and the campaigns of
                \* the client logs and of the manager's log in them, 0 for none
    failures,   \* how many generator calls failed
    written,    \* history: the files that the calls for this number have written
    failed      \* history: the targets for which a call for this number failed

script == <<step, campaign, sequentiell, iterations, at, files, dirs,
            failures, written, failed>>

Dir == Runtime \X Num \X (0 .. MaxIterations - 1)

CampaignInit ==
    /\ step = "idle"
    /\ campaign = 0
    /\ sequentiell = FALSE
    /\ iterations = 0
    /\ at = [num |-> 1, iteration |-> 0, runtime |-> 1]
    /\ files = [f \in File |-> 0]
    /\ dirs = [d \in Dir |-> [exists |-> FALSE, clients |-> {}, manager |-> 0]]
    /\ failures = 0
    /\ written = {}
    /\ failed = {}

Resting == step \in {"idle", "over", "aborted"}

\* The runtime, the number and the directory of this point of the loops.
runtime == TestRuntimes[at.runtime]
num == Nums[at.num]
dir == <<runtime, num, at.iteration>>
------------------------------------------------------------------------------
\* The generator is called; it writes k files and fails when there are more.  The
\* script waits for it and goes on whatever it returned.
Fails(target, k) == k < Len(ConfigTypes(target))

Generator(target, k, entries) ==
    /\ Fails(target, k) => failures < MaxFailures
    /\ failures' = IF Fails(target, k) THEN failures + 1 ELSE failures
    /\ files' = Written(files, target, k, entries)

\* The call belongs to the current number.
ForThisNumber(target, k) ==
    /\ written' = written \cup FirstFiles(target, k)
    /\ failed' = IF Fails(target, k) THEN failed \cup {target} ELSE failed

BeginCampaign(n) ==
    /\ Resting
    /\ campaign < MaxCampaigns
    /\ campaign' = campaign + 1
    /\ sequentiell' \in BOOLEAN
    /\ iterations' = n
    /\ step' = "prepare"
    /\ UNCHANGED <<at, files, dirs, failures, written, failed>>

\* prepare_image_and_bundle: the base configuration, which does not need a
\* prepare.json that is there.
PrepareBase ==
    /\ step = "prepare"
    /\ \E k \in 0 .. Len(ConfigTypes("containerd")) : Generator("containerd", k, 1)
    /\ at' = [num |-> 1, iteration |-> 0, runtime |-> 1]
    /\ step' = "generate"
    /\ written' = {}
    /\ failed' = {}
    /\ UNCHANGED <<campaign, sequentiell, iterations, dirs>>

\* Faulty: the configurations are generated for the first number only.
GenerateForFirst ==
    /\ step = "generate"
    /\ \E k \in 0 .. Len(ConfigTypes(TargetOf(runtime))) :
          /\ runtime = "ctrd" /\ files[<<"containerd", "prepare">>] = 0 => k = 0
          /\ Generator(TargetOf(runtime), k, Nums[1])
          /\ ForThisNumber(TargetOf(runtime), k)
    /\ IF at.runtime < Len(TestRuntimes)
       THEN /\ at' = [at EXCEPT !.runtime = @ + 1]
            /\ UNCHANGED step
       ELSE /\ at' = [at EXCEPT !.runtime = 1]
            /\ step' = "mkdir"
    /\ UNCHANGED <<campaign, sequentiell, iterations, dirs>>

\* The configurations of one runtime.  Those of containerd take the digest from
\* the prepare.json that is there.
GenerateConfigs ==
    /\ step = "generate"
    /\ \E k \in 0 .. Len(ConfigTypes(TargetOf(runtime))) :
          /\ runtime = "ctrd" /\ files[<<"containerd", "prepare">>] = 0 => k = 0
          /\ Generator(TargetOf(runtime), k, num)
          /\ ForThisNumber(TargetOf(runtime), k)
    /\ IF at.runtime < Len(TestRuntimes)
       THEN /\ at' = [at EXCEPT !.runtime = @ + 1]
            /\ UNCHANGED step
       ELSE /\ at' = [at EXCEPT !.runtime = 1]
            /\ step' = "mkdir"
    /\ UNCHANGED <<campaign, sequentiell, iterations, dirs>>

MakeDirectory ==
    /\ step = "mkdir"
    /\ dirs' = [dirs EXCEPT ![dir].exists = TRUE]
    /\ step' = "measure"
    /\ UNCHANGED <<campaign, sequentiell, iterations, at, files, failures, written, failed>>

\* The client logs are emptied, the containers started, measured and killed.
Measure ==
    /\ step = "measure"
    /\ step' = "copyClients"
    /\ UNCHANGED <<campaign, sequentiell, iterations, at, files, dirs, failures,
                   written, failed>>

\* The client logs are copied one after the other over those that may be there.
CopyClientLog ==
    /\ step = "copyClients"
    /\ num > 1
    /\ dirs' = [dirs EXCEPT ![dir].clients = @ \cup {campaign}]
    /\ UNCHANGED <<step, campaign, sequentiell, iterations, at, files, failures, written, failed>>

\* The last of them.
CopyClientLogs ==
    /\ step = "copyClients"
    /\ dirs' = [dirs EXCEPT ![dir].clients = {campaign}]
    /\ step' = "copyManager"
    /\ UNCHANGED <<campaign, sequentiell, iterations, at, files, failures, written, failed>>

\* Faulty: one iteration too many.
AdvanceTooFar ==
    IF at.runtime < Len(TestRuntimes)
    THEN at' = [at EXCEPT !.runtime = @ + 1] /\ step' = "mkdir"
    ELSE IF at.iteration < iterations
    THEN at' = [at EXCEPT !.runtime = 1, !.iteration = @ + 1] /\ step' = "mkdir"
    ELSE IF at.num < Len(Nums)
    THEN at' = [num |-> at.num + 1, iteration |-> 0, runtime |-> 1] /\ step' = "generate"
    ELSE at' = at /\ step' = "over"

\* Faulty: the other runtimes take part in the first iteration only.
AdvanceWithLast ==
    IF at.runtime < Len(TestRuntimes)
    THEN at' = [at EXCEPT !.runtime = @ + 1] /\ step' = "mkdir"
    ELSE IF at.iteration + 1 < iterations
    THEN at' = [at EXCEPT !.iteration = @ + 1] /\ step' = "mkdir"
    ELSE IF at.num < Len(Nums)
    THEN at' = [num |-> at.num + 1, iteration |-> 0, runtime |-> 1] /\ step' = "generate"
    ELSE at' = at /\ step' = "over"

\* The next runtime, the next iteration, the next number, or the end.
Advance ==
    IF at.runtime < Len(TestRuntimes)
    THEN at' = [at EXCEPT !.runtime = @ + 1] /\ step' = "mkdir"
    ELSE IF at.iteration + 1 < iterations
    THEN at' = [at EXCEPT !.runtime = 1, !.iteration = @ + 1] /\ step' = "mkdir"
    ELSE IF at.num < Len(Nums)
    THEN at' = [num |-> at.num + 1, iteration |-> 0, runtime |-> 1] /\ step' = "generate"
    ELSE at' = at /\ step' = "over"

CopyManagerLog ==
    /\ step = "copyManager"
    /\ dirs' = [dirs EXCEPT ![dir].manager = campaign]
    /\ Advance
    /\ written' = IF step' = "generate" THEN {} ELSE written
    /\ failed' = IF step' = "generate" THEN {} ELSE failed
    /\ UNCHANGED <<campaign, sequentiell, iterations, files, failures>>

\* An exception of a copy or a call, or the user, ends the script.
Abort ==
    /\ ~Resting
    /\ step' = "aborted"
    /\ UNCHANGED <<campaign, sequentiell, iterations, at, files, dirs, failures,
                   written, failed>>

ScriptStep ==
    \/ \E n \in 1 .. MaxIterations : BeginCampaign(n)
    \/ PrepareBase \/ GenerateConfigs \/ MakeDirectory \/ Measure
    \/ CopyClientLog \/ CopyClientLogs \/ CopyManagerLog \/ Abort
------------------------------------------------------------------------------
CampaignTypeOK ==
    /\ step \in {"idle", "prepare", "generate", "mkdir", "measure", "copyClients",
                 "copyManager", "over", "aborted"}
    /\ campaign \in 0 .. MaxCampaigns
    /\ sequentiell \in BOOLEAN
    /\ iterations \in 0 .. MaxIterations
    /\ at \in [num : DOMAIN Nums, iteration : 0 .. MaxIterations - 1, runtime : DOMAIN TestRuntimes]
    /\ files \in [File -> Num \cup {0, 1}]
    /\ dirs \in [Dir -> [exists : BOOLEAN, clients : SUBSET (1 .. MaxCampaigns),
                         manager : 0 .. MaxCampaigns]]
    /\ failures \in 0 .. MaxFailures
    /\ written \subseteq File
    /\ failed \subseteq Target

\* When a manager is called, to start or to kill, the file it is given has entries
\* with all that its command reads, and as many as the round has containers.  The
\* number can be another one, of an earlier number of containers or campaign, only
\* when a call of the generator for this very number and target failed and none
\* came to write the file: a failure spoils no file that was written, none of the
\* other target, and nothing beyond the number it happened in.
ConfigsFit ==
    step = "measure" =>
        \A f \in FilesUsed(runtime, sequentiell) :
            /\ Sufficient(f)
            /\ IF f \in written THEN files[f] = num ELSE TargetOf(runtime) \in failed
==============================================================================
