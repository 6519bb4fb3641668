-------------------------------- MODULE Batch --------------------------------
(***************************************************************************)
(* What one batch of an execution manager promises its caller.             *)
(*                                                                         *)
(* A caller begins a batch of commands, one per container.  The manager    *)
(* launches each command at most once, commands end in any order, and the  *)
(* manager returns.  An attached manager (containers) returns only when    *)
(* every command it launched has ended; a detached one (native             *)
(* applications) may return while they run.  A launch may be given up.     *)
(***************************************************************************)
CONSTANTS
    Command     \* the commands a batch can be made of

VARIABLES
    phase,      \* "idle", "open" or "done"
    detached,   \* TRUE when the manager does not wait for its commands
    batch,      \* the commands of the current batch
    launched,   \* those that were started
    ended       \* those that ended

vars == <<phase, detached, batch, launched, ended>>

TypeOK ==
    /\ phase \in {"idle", "open", "done"}
    /\ detached \in BOOLEAN
    /\ batch \in SUBSET Command
    /\ launched \in SUBSET batch
    /\ ended \in SUBSET launched

Init ==
    /\ phase = "idle"
    /\ detached = FALSE
    /\ batch = {}
    /\ launched = {}
    /\ ended = {}

Begin(cmds, d) ==
    /\ phase # "open"
    /\ ended = launched
    /\ phase' = "open"
    /\ detached' = d
    /\ batch' = cmds
    /\ launched' = {}
    /\ ended' = {}

Launch(c) ==
    /\ phase = "open"
    /\ c \in batch \ launched
    /\ launched' = launched \cup {c}
    /\ UNCHANGED <<phase, detached, batch, ended>>

End(c) ==
    /\ c \in launched \ ended
    /\ ended' = ended \cup {c}
    /\ UNCHANGED <<phase, detached, batch, launched>>

Finish ==
    /\ phase = "open"
    /\ detached \/ ended = launched
    /\ phase' = "done"
    /\ UNCHANGED <<detached, batch, launched, ended>>

Next ==
    \/ \E cmds \in SUBSET Command, d \in BOOLEAN : Begin(cmds, d)
    \/ \E c \in Command : Launch(c) \/ End(c)
    \/ Finish

Spec == Init /\ [][Next]_vars
==============================================================================
