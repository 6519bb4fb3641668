------------------------------ MODULE EventSystem -----------------------------
(***************************************************************************)
(* A server and a client of the vsomeip application, the routing between   *)
(* them, and the datagrams that carry the events.  The client sees how     *)
(* many events it missed by the numbers in their payload: on_message       *)
(* prints the first four bytes.                                            *)
(*                                                                         *)
(* A behaviour looks at one of two scenes.  In "events" the server sends,  *)
(* is switched and restarted, and the client keeps its registration; in    *)
(* "callbacks" no event is sent, while registration and services come and  *)
(* go and the client stops.                                                *)
(***************************************************************************)
EXTENDS EventStream, VsomeipClient

CONSTANTS
    Server,     \* the service that EventStream models
    Scenes      \* bound: the scenes to look at

ASSUME SystemAssumption == Server \in Service /\ Scenes \subseteq {"events", "callbacks"}

VARIABLES
    scene,      \* which of the scenes this is
    datagrams,  \* external: events on their way, at most one
    seen,       \* the number of the last event on_message printed, 0 before the first
    gap         \* history: the event before the next one does not reach the client

vars == <<stream, client, scene, datagrams, seen, gap>>

Init ==
    /\ StreamInit
    /\ ClientInit
    /\ scene \in Scenes
    /\ datagrams = {}
    /\ seen = 0
    /\ gap = FALSE
------------------------------------------------------------------------------
\* An event reaches the client's host when it is subscribed; one that finds
\* another on its way is lost.
SendEvent ==
    /\ scene = "events"
    /\ Send
    /\ IF <<"subscription", Server>> \in held /\ datagrams = {}
       THEN datagrams' = {[payload |-> Payload, gap |-> gap, froze |-> froze]} /\ gap' = FALSE
       ELSE gap' = TRUE /\ UNCHANGED datagrams
    /\ UNCHANGED <<client, scene, seen>>

LoseDatagram ==
    /\ datagrams # {}
    /\ datagrams' = {}
    /\ gap' = TRUE
    /\ UNCHANGED <<stream, client, scene, seen>>

\* on_message: the first four bytes.
Number(bytes) ==
    bytes[1] + ByteBase * (bytes[2] + ByteBase * (bytes[3] + ByteBase * bytes[4]))

OnMessage ==
    /\ running = Idle
    /\ {<<"subscription", Server>>, <<"messages", Server>>} \subseteq held
    /\ \E event \in datagrams :
          /\ seen' = Number(event.payload.bytes)
          /\ datagrams' = datagrams \ {event}
    /\ UNCHANGED <<stream, client, scene, gap>>

ServerStarts ==
    /\ StartServer
    /\ ServiceUp(Server)
    /\ gap' = TRUE
    /\ UNCHANGED <<scene, datagrams, seen>>

ServerStops == StopServer /\ ServiceDown(Server) /\ UNCHANGED <<scene, datagrams, seen, gap>>

ServerStep ==
    /\ scene = "events"
    /\ \/ Count \/ Sleep \/ SetCycle
       \/ \E byte \in {"NUL", "space", "SOH", "1"} : FifoRead(byte)
    /\ UNCHANGED <<client, scene, datagrams, seen, gap>>

OtherService ==
    /\ scene = "callbacks"
    /\ \E s \in Service \ {Server} : ServiceUp(s) \/ ServiceDown(s)
    /\ UNCHANGED <<stream, scene, datagrams, seen, gap>>

Routing ==
    /\ Register \/ (scene = "callbacks" /\ Deregister)
    /\ UNCHANGED <<stream, scene, datagrams, seen, gap>>

Dispatch == DispatcherStep /\ UNCHANGED <<stream, scene, datagrams, seen, gap>>

Stop == scene = "callbacks" /\ StopStep /\ UNCHANGED <<stream, scene, datagrams, seen, gap>>

Next ==
    \/ SendEvent \/ LoseDatagram \/ OnMessage \/ ServerStarts \/ ServerStops
    \/ ServerStep \/ OtherService \/ Routing \/ Dispatch \/ Stop

\* The dispatcher runs its callbacks.
Spec == Init /\ [][Next]_vars /\ WF_vars(Dispatch)
------------------------------------------------------------------------------
TypeOK ==
    /\ StreamTypeOK
    /\ ClientTypeOK
    /\ \A event \in datagrams : event.payload.bytes \in [1 .. 4 -> 0 .. ByteBase - 1]
    /\ seen \in 0 .. MaxCounter
    /\ gap \in BOOLEAN
    /\ scene \in Scenes

\* A jump in the numbers means a loss: an event that follows the one the client
\* saw last has the next number, where the highest that is used is followed by 1,
\* or the same number when the server was in mode 1.  Segmented payloads have no numbers.
JumpMeansLoss ==
    [][\A event \in datagrams :
          OnMessage /\ ~event.gap /\ seen # 0 /\ ~UseTp =>
              seen' = CASE event.froze -> seen
                        [] ~event.froze /\ seen = MaxCounter - 1 -> 1
                        [] OTHER -> seen + 1]_vars
==============================================================================
