------------------------------- MODULE Analysis -------------------------------
(***************************************************************************)
(* analysis.py over the directories a campaign of benchmark.py left: one   *)
(* walk, in an arbitrary order, over runtimes, numbers and iterations.     *)
(* The differences of a number's iterations gather in a list, and when as  *)
(* many were seen as the number has directories they become a row of the   *)
(* table.  A difference stands here for the logs it is computed from.      *)
(***************************************************************************)
EXTENDS Campaign, FiniteSets

VARIABLES
    walk,       \* "no", "walking" or "done"
    walked,     \* the numbers' directories that were visited
    diffs,      \* diff_ls
    rows        \* df_runtime_ls

vars == <<script, walk, walked, diffs, rows>>

Init ==
    /\ CampaignInit
    /\ walk = "no"
    /\ walked = {}
    /\ diffs = {}
    /\ rows = {}
------------------------------------------------------------------------------
\* The directories of the iterations of number n with runtime r.
Iterations(r, n) == {d \in Dir : d[1] = r /\ d[2] = n /\ dirs[d].exists}

\* os.walk's files is empty for a directory without logs.
HasLogs(d) == dirs[d].clients # {} \/ dirs[d].manager # 0

\* The difference of one iteration, named by the logs that give its two times.
Diff(d) == [dir |-> d, clients |-> dirs[d].clients, manager |-> dirs[d].manager]

NumberDir == {rn \in Runtime \X Num : Iterations(rn[1], rn[2]) # {}}

StartAnalysis ==
    /\ Resting
    /\ walk = "no"
    /\ NumberDir # {}
    /\ walk' = "walking"
    /\ UNCHANGED <<script, walked, diffs, rows>>

\* The walk finishes a runtime before it enters another.
MayVisit(r) ==
    \A other \in Runtime \ {r} :
        LET numbers == {rn \in NumberDir : rn[1] = other}
        IN numbers \cap walked = {} \/ numbers \subseteq walked

\* Faulty: a row is made for every number, of what there is.
RowAlways(r, n) ==
    /\ walk = "walking"
    /\ <<r, n>> \in NumberDir \ walked
    /\ MayVisit(r)
    /\ LET found == diffs \cup {Diff(d) : d \in {i \in Iterations(r, n) : HasLogs(i)}} IN
       /\ rows' = rows \cup {[runtime |-> r, num |-> n, diffs |-> found]}
       /\ diffs' = found
    /\ walked' = walked \cup {<<r, n>>}
    /\ UNCHANGED <<script, walk>>

\* Its iterations: c_iter counts those with logs, n_iter is their number.  The
\* list is cleared when a row is made of it, and only then.
WalkNumber(r, n) ==
    /\ walk = "walking"
    /\ <<r, n>> \in NumberDir \ walked
    /\ MayVisit(r)
    /\ LET found == diffs \cup {Diff(d) : d \in {i \in Iterations(r, n) : HasLogs(i)}} IN
       IF \A d \in Iterations(r, n) : HasLogs(d)
       THEN /\ rows' = rows \cup {[runtime |-> r, num |-> n, diffs |-> found]}
            /\ diffs' = {}
       ELSE /\ diffs' = found
            /\ UNCHANGED rows
    /\ walked' = walked \cup {<<r, n>>}
    /\ UNCHANGED <<script, walk>>

FinishAnalysis ==
    /\ walk = "walking"
    /\ walked = NumberDir
    /\ walk' = "done"
    /\ UNCHANGED <<script, walked, diffs, rows>>

AnalysisStep ==
    \/ StartAnalysis
    \/ \E r \in Runtime, n \in Num : WalkNumber(r, n)
    \/ FinishAnalysis

Next ==
    \/ walk = "no" /\ ScriptStep /\ UNCHANGED <<walk, walked, diffs, rows>>
    \/ AnalysisStep

Spec == Init /\ [][Next]_vars
------------------------------------------------------------------------------
TypeOK ==
    /\ CampaignTypeOK
    /\ walk \in {"no", "walking", "done"}
    /\ walked \subseteq Runtime \X Num
    /\ \A row \in rows : row.runtime \in Runtime /\ row.num \in Num

\* What a row says of a runtime and a number comes from all their iterations, and
\* from others only when an iteration of those has no logs: the differences of a
\* number that got no row of its own go into the next one.
RowsOwnIterations ==
    \A row \in rows :
        /\ \A d \in Iterations(row.runtime, row.num) : Diff(d) \in row.diffs
        /\ \A diff \in row.diffs :
              \/ <<diff.dir[1], diff.dir[2]>> = <<row.runtime, row.num>>
              \/ \E d \in Iterations(diff.dir[1], diff.dir[2]) : ~HasLogs(d)

\* What the last campaign measured for a runtime and a number, from logs of its own.
Own(r, n) == {[dir |-> <<r, n, i>>, clients |-> {campaign}, manager |-> campaign] :
                 i \in 0 .. iterations - 1}

\* What an earlier campaign with more iterations left of it.
Leftover(r, n) == {d \in Iterations(r, n) : d[3] >= iterations}

\* An earlier campaign left a directory without logs, which keeps the number from
\* getting its row.
Spoilt(r, n) == \E d \in Leftover(r, n) : ~HasLogs(d)

\* A campaign that went to its end is reported in full, whatever was aborted before
\* it and whatever the earlier campaigns measured.  A row for each runtime and
\* number has all its iterations, none from logs that do not belong together; it is
\* missing only when the number is spoilt.  Besides, a row can have what a longer
\* campaign left, and differences of spoilt numbers, which go into another row.
CompletedCampaignReported ==
    walk = "done" /\ step = "over" =>
        /\ \A r \in Runtime, n \in Num :
              \/ \E row \in rows : row.runtime = r /\ row.num = n /\ Own(r, n) \subseteq row.diffs
              \/ Spoilt(r, n)
        /\ \A row \in rows : \A diff \in row.diffs :
              LET r == diff.dir[1]
                  n == diff.dir[2]
              IN /\ diff \in Own(r, n) \/ diff.dir \in Leftover(r, n)
                 /\ <<r, n>> = <<row.runtime, row.num>> \/ Spoilt(r, n)
        /\ (\A r \in Runtime, n \in Num : Leftover(r, n) = {}) =>
              rows = {[runtime |-> r, num |-> n, diffs |-> Own(r, n)] :
                         r \in Runtime, n \in Num}
==============================================================================
