----------------------------- MODULE MountOptions -----------------------------
(***************************************************************************)
(* How the mount options of a container come from the configuration file   *)
(* into the request that creates its task: the parser of                   *)
(* execution-manager-containerd stores them in an array of strings of      *)
(* fixed size within the container's entry, and every child sends what it  *)
(* finds there.  The entries lie one after the other in memory.            *)
(***************************************************************************)
EXTENDS Naturals, Sequences

CONSTANTS
    MaxApplications,    \* entries of config_containers
    Fields,             \* strings of an entry before its mount options
    Slots,              \* mount options that an entry has room for
    Options,            \* the mount options a file may give, as sequences
    LengthOf            \* how long the text of an option is

VARIABLES
    file,       \* the mount options of each container in the file
    parsed,     \* how many of the file's containers are parsed
    memory,     \* config_containers, string after string
    requests    \* the options in the request of each child

vars == <<file, parsed, memory, requests>>

PerContainer == Fields + Slots

\* Where the options of container n begin.
FirstOption(n) == (n - 1) * PerContainer + Fields

Slot == 0 .. MaxApplications * PerContainer - 1

\* A string is an option, "field" for another field's text, or empty.
Empty == ""

Length(option) == IF option = Empty THEN 0 ELSE LengthOf[option]

Init ==
    /\ file \in UNION {[1 .. n -> Options] : n \in 1 .. MaxApplications}
    /\ parsed = 0
    /\ memory = [i \in Slot |-> Empty]
    /\ requests = [n \in DOMAIN file |-> <<>>]

\* parse_execution_config_containers, for one container: the other keys of the
\* entry, and the options by their index.
ParseContainer ==
    /\ parsed < Len(file)
    /\ parsed' = parsed + 1
    /\ memory' = [i \in Slot |->
          LET k == i + 1 - FirstOption(parsed') IN
          CASE i \in FirstOption(parsed') - Fields .. FirstOption(parsed') - 1 -> "field"
            [] i >= FirstOption(parsed') /\ k <= Len(file[parsed']) -> file[parsed'][k]
            [] OTHER -> memory[i]]
    /\ UNCHANGED <<file, requests>>

\* The options of the request.  mount_options is an array, so that its size() is
\* the length of its first string; behind the last entry is anything.
Read(i) == IF i \in Slot THEN memory[i] ELSE "undefined"

RequestOptions(n) ==
    [i \in 1 .. Length(memory[FirstOption(n)]) |-> Read(FirstOption(n) + i - 1)]

\* command, in the child of container n, for "create" and "run".
CreateTask(n) ==
    /\ parsed = Len(file)
    /\ requests[n] = <<>>
    /\ requests' = [requests EXCEPT ![n] = RequestOptions(n)]
    /\ UNCHANGED <<file, parsed, memory>>

Next == ParseContainer \/ \E n \in DOMAIN file : CreateTask(n)

Spec == Init /\ [][Next]_vars
------------------------------------------------------------------------------
\* The mount data is what the JSON configuration provides: a request that has
\* options has those of its container in the file, all of them and no others.
MountDataFromConfig == \A n \in DOMAIN file : requests[n] \in {<<>>, file[n]}
==============================================================================
