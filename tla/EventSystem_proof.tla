-------------------------- MODULE EventSystem_proof ---------------------------
(***************************************************************************)
(* Proofs about EventSystem, for every number of services, every queue and *)
(* all cycle times: what the client holds while stop() gives it back, and  *)
(* the cycle time that follows the operation mode.                         *)
(***************************************************************************)
EXTENDS EventSystem, FiniteSetTheorems, TLAPS

------------------------------------------------------------------------------
(* The calls of stop(), numbered                                            *)

LEMMA ReleaseLength == Len(Release) = 5 /\ AllReleased = 5 * NumServices
BY DEF Release, AllReleased

\* Each kind of thing that is held is given back for each service.
LEMMA AllGivenBack ==
    \A kind \in Kind, s \in Service :
        \E m \in 1 .. AllReleased : ReleasedBy(m) = <<kind, s>>
<1> SUFFICES ASSUME NEW kind \in Kind, NEW s \in Service
             PROVE  \E m \in 1 .. AllReleased : ReleasedBy(m) = <<kind, s>>
    OBVIOUS
<1>1. PICK i \in 1 .. 5 : Release[i] = kind
    BY DEF Kind, Release
<1> DEFINE m == 5 * (s - 1) + i
<1>2. m \in 1 .. AllReleased
    BY ReleaseLength, ClientAssumption DEF Service
<1>3. (m - 1) % 5 = i - 1 /\ (m - 1) \div 5 = s - 1
    BY DEF Service
<1>4. ReleasedBy(m) = <<kind, s>>
    BY <1>1, <1>3, ReleaseLength DEF ReleasedBy, Service
<1> QED
    BY <1>2, <1>4

\* The subscription to a service goes before its message handler and its event.
LEMMA SubscriptionFirst ==
    ASSUME NEW m \in Nat \ {0}, NEW s \in Service,
           ReleasedBy(m) \in {<<"messages", s>>, <<"event", s>>}
    PROVE  \E l \in 1 .. m - 1 : ReleasedBy(l) = <<"subscription", s>>
<1> DEFINE l == m - ((m - 1) % 5)
<1>1. (m - 1) % 5 \in 0 .. 4
    OBVIOUS
<1>2. (m - 1) % 5 # 0
    BY <1>1, ReleaseLength DEF ReleasedBy, Release
<1>3. l \in 1 .. m - 1
    BY <1>1, <1>2
<1>4. (l - 1) % 5 = 0 /\ (l - 1) \div 5 = (m - 1) \div 5
    BY <1>1
<1>5. (m - 1) \div 5 + 1 = s
    BY ReleaseLength DEF ReleasedBy
<1>6. ReleasedBy(l) = <<"subscription", s>>
    BY <1>4, <1>5, ReleaseLength DEF ReleasedBy, Release
<1> QED
    BY <1>3, <1>6
------------------------------------------------------------------------------
(* The client                                                               *)

Callback ==
    [kind : {"state"}, up : BOOLEAN, service : {0}]
        \cup [kind : {"availability"}, up : BOOLEAN, service : Service]

\* Types, as far as the invariants need them: the bound on the queue is left out.
ClientTypes ==
    /\ running \in [kind : {"idle", "request", "subscribe"}, next : Service, last : Service]
    /\ running.next <= running.last
    /\ released \in 0 .. AllReleased + 2
    /\ held \subseteq Kind \X Service
    /\ available \subseteq Service
    /\ late \subseteq Kind \X Service
    /\ queue \in Seq(Callback)

\* What was given back is held only when a callback acquired it again.
GivenBack == \A m \in 1 .. released : ReleasedBy(m) \in held => ReleasedBy(m) \in late

\* What init() requested is held until stop() gives it back.
HeldUntilRelease ==
    \A what \in Requested : what \in held \/ \E m \in 1 .. released : ReleasedBy(m) = what

\* The inductive invariant of the client.
ClientInv == ClientTypes /\ GivenBack /\ HeldUntilRelease /\ SubscriptionHasHandler

LEMMA ClientInitInv == ClientInit => ClientInv
<1> SUFFICES ASSUME ClientInit
             PROVE  ClientInv
    OBVIOUS
<1> USE ClientAssumption, ReleaseLength
<1>1. ClientTypes
    <2>1. held \subseteq Kind \X Service
        BY DEF ClientInit, Requested, Kind
    <2>2. running \in [kind : {"idle", "request", "subscribe"}, next : Service, last : Service]
          /\ running.next <= running.last
        BY DEF ClientInit, Idle, Through, Service
    <2>3. released \in 0 .. AllReleased + 2 /\ queue \in Seq(Callback)
        BY DEF ClientInit
    <2> QED
        BY <2>1, <2>2, <2>3 DEF ClientInit, ClientTypes
<1>2. GivenBack /\ HeldUntilRelease /\ SubscriptionHasHandler
    BY DEF ClientInit, GivenBack, HeldUntilRelease, SubscriptionHasHandler, Requested
<1> QED
    BY <1>1, <1>2 DEF ClientInv

\* A callback that is put into the queue leaves it a queue of callbacks.
LEMMA QueueType ==
    ASSUME queue \in Seq(Callback), NEW callback \in Callback,
           Queue(callback) \/ UNCHANGED queue
    PROVE  queue' \in Seq(Callback)
BY DEF Queue

\* The environment: nothing but what it loses changes in what is held.
LEMMA EnvironmentInv ==
    ASSUME ClientInv,
           \/ Register
           \/ Deregister
           \/ \E s \in Service : ServiceUp(s) \/ ServiceDown(s)
    PROVE  ClientInv'
<1> USE DEF ClientInv
<1>1. /\ UNCHANGED <<running, released, late>>
      /\ held' \subseteq held
      /\ held \ held' \subseteq {"service", "subscription"} \X Service
    <2>1. CASE Register
        BY <2>1 DEF Register
    <2>2. CASE Deregister
        BY <2>2 DEF Deregister
    <2>3. ASSUME NEW s \in Service, ServiceUp(s) \/ ServiceDown(s)
          PROVE  /\ UNCHANGED <<running, released, late>>
                 /\ held' \subseteq held
                 /\ held \ held' \subseteq {"service", "subscription"} \X Service
        <3>1. CASE ServiceUp(s)
            BY <3>1 DEF ServiceUp
        <3>2. CASE ServiceDown(s)
            BY <3>2 DEF ServiceDown
        <3> QED
            BY <2>3, <3>1, <3>2
    <2> QED
        BY <2>1, <2>2, <2>3
<1>2. available' \subseteq Service
    BY DEF Register, Deregister, ServiceUp, ServiceDown, ClientTypes
<1>3. queue' \in Seq(Callback)
    <2>1. StateCallback(TRUE) \in Callback /\ StateCallback(FALSE) \in Callback
        BY DEF StateCallback, Callback
    <2>2. \A s \in Service, b \in BOOLEAN : AvailabilityCallback(s, b) \in Callback
        BY DEF AvailabilityCallback, Callback
    <2>3. \/ UNCHANGED queue
          \/ \E callback \in Callback : Queue(callback)
        BY <2>1, <2>2 DEF Register, Deregister, ServiceUp, ServiceDown, Report
    <2> QED
        BY <2>3, QueueType DEF ClientTypes
<1>4. ClientTypes'
    BY <1>1, <1>2, <1>3 DEF ClientTypes
<1>5. GivenBack'
    BY <1>1 DEF GivenBack, ReleasedBy
<1>6. HeldUntilRelease'
    BY <1>1 DEF HeldUntilRelease, Requested
<1>7. SubscriptionHasHandler'
    BY <1>1 DEF SubscriptionHasHandler
<1> QED
    BY <1>4, <1>5, <1>6, <1>7

\* The callbacks: what they acquire again after stop() gave it back is late; all
\* else that they acquire stop() has yet to give back.
LEMMA DispatcherInv ==
    ASSUME ClientInv, DispatcherStep
    PROVE  ClientInv'
<1> USE ClientAssumption DEF ClientInv
<1>1. CASE OnState \/ OnAvailability
    <2>1. /\ queue # <<>>
          /\ Head(queue) \in Callback
          /\ Tail(queue) \in Seq(Callback)
        BY <1>1 DEF OnState, OnAvailability, Runs, ClientTypes
    <2>2. UNCHANGED <<released, late, held, available>> /\ queue' = Tail(queue)
        BY <1>1 DEF OnState, OnAvailability, Runs
    <2>3. Idle.next <= Idle.last
          /\ Idle \in [kind : {"idle", "request", "subscribe"}, next : Service, last : Service]
        BY DEF Idle, Through, Service
    <2>4. /\ running' \in [kind : {"idle", "request", "subscribe"},
                           next : Service, last : Service]
          /\ running'.next <= running'.last
        <3>1. CASE OnState
            BY <3>1, <2>3 DEF OnState, Through, Service
        <3>2. CASE OnAvailability
            <4>1. Head(queue).service \in Service
                BY <2>1, <3>2 DEF OnAvailability, Runs, Callback
            <4> QED
                BY <3>2, <4>1, <2>3 DEF OnAvailability, Through, Service
        <3> QED
            BY <1>1, <3>1, <3>2
    <2>5. ClientTypes'
        BY <2>1, <2>2, <2>4 DEF ClientTypes
    <2> QED
        BY <2>2, <2>5
        DEF GivenBack, ReleasedBy, HeldUntilRelease, Stopping, SubscriptionHasHandler
<1>2. CASE RequestService \/ Subscribe
    <2> DEFINE s == running.next
    <2>1. s \in Service
        BY DEF ClientTypes
    <2>2. /\ UNCHANGED <<released, available>>
          /\ Acquire(<<"service", s>>, registered)
                \/ Acquire(<<"subscription", s>>, registered /\ s \in available)
        BY <1>2 DEF RequestService, Subscribe, CallsNext
    <2>3. PICK what \in {<<"service", s>>, <<"subscription", s>>} :
             \/ UNCHANGED <<held, late>>
             \/ /\ held' = held \cup {what}
                /\ late' = IF \E m \in 1 .. released : ReleasedBy(m) = what
                           THEN late \cup {what} ELSE late
        BY <2>2 DEF Acquire
    <2>4. /\ held \subseteq held'
          /\ late \subseteq late'
          /\ held' \subseteq held \cup {what}
          /\ late' \subseteq late \cup {what}
          /\ what \in held' \ held =>
                what \in late' \/ \A m \in 1 .. released : ReleasedBy(m) # what
        BY <2>3
    <2>5. queue' \in Seq(Callback)
        <3>1. AvailabilityCallback(s, TRUE) \in Callback
            BY <2>1 DEF AvailabilityCallback, Callback
        <3>2. UNCHANGED queue \/ Queue(AvailabilityCallback(s, TRUE))
            BY <1>2 DEF RequestService, Subscribe
        <3> QED
            BY <3>1, <3>2, QueueType DEF ClientTypes
    <2>6. /\ running' \in [kind : {"idle", "request", "subscribe"},
                           next : Service, last : Service]
          /\ running'.next <= running'.last
        <3>1. \/ running' = Idle
              \/ running.next # running.last /\ running' = [running EXCEPT !.next = @ + 1]
            BY <1>2 DEF RequestService, Subscribe, CallsNext
        <3>2. CASE running' = Idle
            BY <3>2 DEF Idle, Through, Service
        <3>3. CASE running.next # running.last /\ running' = [running EXCEPT !.next = @ + 1]
            <4>1. running.next + 1 \in Service /\ running.next + 1 <= running.last
                BY <3>3 DEF ClientTypes, Service
            <4> QED
                BY <3>3, <4>1 DEF ClientTypes
        <3> QED
            BY <3>1, <3>2, <3>3
    <2>7. ClientTypes'
        <3>1. what \in Kind \X Service
            BY <2>1 DEF Kind
        <3> QED
            BY <2>2, <2>4, <2>5, <2>6, <3>1 DEF ClientTypes
    <2>8. GivenBack'
        <3> SUFFICES ASSUME NEW m \in 1 .. released, ReleasedBy(m) \in held'
                     PROVE  ReleasedBy(m) \in late'
            BY <2>2 DEF GivenBack, ReleasedBy
        <3>1. CASE ReleasedBy(m) \in held
            BY <2>4, <3>1 DEF GivenBack
        <3>2. CASE ReleasedBy(m) \notin held
            BY <2>4, <3>2
        <3> QED
            BY <3>1, <3>2
    <2>9. HeldUntilRelease'
        BY <2>2, <2>4 DEF HeldUntilRelease
    <2>10. SubscriptionHasHandler'
        <3> SUFFICES ASSUME NEW t \in Service, <<"subscription", t>> \in held' \ late'
                     PROVE  {<<"messages", t>>, <<"event", t>>} \subseteq held
            BY <2>4 DEF SubscriptionHasHandler
        <3>1. CASE <<"subscription", t>> \in held
            BY <2>4, <3>1 DEF SubscriptionHasHandler
        <3>2. CASE <<"subscription", t>> \notin held
            <4>1. \A m \in 1 .. released : ReleasedBy(m) # <<"subscription", t>>
                BY <2>4, <3>2
            <4>2. ASSUME NEW what2 \in {<<"messages", t>>, <<"event", t>>}
                  PROVE  what2 \in held
                <5>1. what2 \in Requested
                    BY DEF Requested
                <5>2. ASSUME NEW m \in 1 .. released, ReleasedBy(m) = what2
                      PROVE  FALSE
                    <6>1. m \in Nat \ {0}
                        BY DEF ClientTypes
                    <6>2. PICK l \in 1 .. m - 1 : ReleasedBy(l) = <<"subscription", t>>
                        BY <5>2, <6>1, SubscriptionFirst
                    <6>3. l \in 1 .. released
                        BY <6>2 DEF ClientTypes
                    <6> QED
                        BY <4>1, <6>2, <6>3
                <5> QED
                    BY <5>1, <5>2 DEF HeldUntilRelease
            <4> QED
                BY <4>2
        <3> QED
            BY <3>1, <3>2
    <2> QED
        BY <2>7, <2>8, <2>9, <2>10
<1> QED
    BY <1>1, <1>2 DEF DispatcherStep

\* stop(): each call gives back what is its turn; the handlers come after the
\* subscription.
LEMMA StopInv ==
    ASSUME ClientInv, StopStep
    PROVE  ClientInv'
<1> USE ClientAssumption, ReleaseLength DEF ClientInv
<1>1. CASE ReleaseNext
    <2>1. ClientTypes'
        BY <1>1 DEF ReleaseNext, ClientTypes
    <2>2. GivenBack'
        BY <1>1 DEF ReleaseNext, GivenBack, ReleasedBy, ClientTypes
    <2>3. HeldUntilRelease'
        <3> SUFFICES ASSUME NEW what \in Requested, what \notin held'
                     PROVE  \E m \in 1 .. released + 1 : ReleasedBy(m) = what
            BY <1>1 DEF ReleaseNext, HeldUntilRelease, ReleasedBy
        <3>1. released \in Nat
            BY DEF ClientTypes
        <3>2. CASE what \in held
            BY <1>1, <3>1, <3>2 DEF ReleaseNext
        <3>3. CASE what \notin held
            <4>1. PICK m \in 1 .. released : ReleasedBy(m) = what
                BY <3>3 DEF HeldUntilRelease
            <4> QED
                BY <3>1, <4>1
        <3> QED
            BY <3>2, <3>3
    <2>4. SubscriptionHasHandler'
        <3> SUFFICES ASSUME NEW s \in Service, <<"subscription", s>> \in held' \ late
                     PROVE  {<<"messages", s>>, <<"event", s>>} \subseteq held'
            BY <1>1 DEF ReleaseNext, SubscriptionHasHandler
        <3>1. {<<"messages", s>>, <<"event", s>>} \subseteq held
            BY <1>1 DEF ReleaseNext, SubscriptionHasHandler
        <3>2. ReleasedBy(released + 1) \notin {<<"messages", s>>, <<"event", s>>}
            <4> SUFFICES ASSUME ReleasedBy(released + 1)
                                    \in {<<"messages", s>>, <<"event", s>>}
                         PROVE  FALSE
                OBVIOUS
            <4>1. PICK l \in 1 .. released : ReleasedBy(l) = <<"subscription", s>>
                BY SubscriptionFirst DEF ClientTypes
            <4>2. <<"subscription", s>> \in held => <<"subscription", s>> \in late
                BY <4>1 DEF GivenBack
            <4> QED
                BY <1>1, <4>2 DEF ReleaseNext
        <3> QED
            BY <1>1, <3>1, <3>2 DEF ReleaseNext
    <2> QED
        BY <2>1, <2>2, <2>3, <2>4
<1>2. CASE ClearAllHandler \/ StopApplication
    <2>1. /\ released >= AllReleased
          /\ released' = released + 1
          /\ UNCHANGED <<running, late, available>>
          /\ held' = held \/ held' = {}
          /\ released' \in 0 .. AllReleased + 2
        BY <1>2 DEF ClearAllHandler, StopApplication, ClientTypes
    <2>2. ClientTypes'
        <3>1. queue' = queue \/ queue' = <<>>
            BY <1>2 DEF ClearAllHandler, StopApplication
        <3>2. queue \in Seq(Callback) /\ <<>> \in Seq(Callback)
            BY DEF ClientTypes
        <3>3. queue' \in Seq(Callback)
            BY <3>1, <3>2
        <3> QED
            BY <2>1, <3>3 DEF ClientTypes
    <2>3. GivenBack'
        <3> SUFFICES ASSUME held' = held
                     PROVE  ReleasedBy(released + 1) \notin held
            <4>1. released' = released + 1 /\ released \in Nat
                BY <2>1 DEF ClientTypes
            <4>2. \A m \in 1 .. released + 1 : m \in 1 .. released \/ m = released + 1
                BY <4>1
            <4> QED
                BY <2>1, <4>1, <4>2 DEF GivenBack, ReleasedBy
        <3>1. released \div 5 >= NumServices
            BY <2>1 DEF ClientTypes
        <3>2. ReleasedBy(released + 1)[2] = released \div 5 + 1
            BY DEF ReleasedBy, ClientTypes
        <3>3. released \div 5 + 1 \notin Service
            BY <3>1 DEF Service, ClientTypes
        <3> QED
            BY <3>2, <3>3 DEF ClientTypes
    <2>4. HeldUntilRelease'
        <3> SUFFICES ASSUME NEW what \in Requested
                     PROVE  \E m \in 1 .. released + 1 : ReleasedBy(m) = what
            BY <2>1 DEF HeldUntilRelease, ReleasedBy
        <3>1. PICK kind \in Kind, s \in Service : what = <<kind, s>>
            BY DEF Requested, Kind
        <3>2. PICK m \in 1 .. AllReleased : ReleasedBy(m) = <<kind, s>>
            BY <3>1, AllGivenBack
        <3>3. m \in 1 .. released + 1
            BY <2>1, <3>2 DEF ClientTypes
        <3> QED
            BY <3>1, <3>2, <3>3
    <2>5. SubscriptionHasHandler'
        BY <2>1 DEF SubscriptionHasHandler
    <2> QED
        BY <2>2, <2>3, <2>4, <2>5
<1> QED
    BY <1>1, <1>2 DEF StopStep

\* When all was given back, what is still held was acquired again.
LEMMA ClientInvReleases == ClientInv => StopReleasesAll
<1> SUFFICES ASSUME ClientInv, released >= AllReleased
             PROVE  held \subseteq late
    BY DEF StopReleasesAll
<1>1. ASSUME NEW kind \in Kind, NEW s \in Service, <<kind, s>> \in held
      PROVE  <<kind, s>> \in late
    <2>1. PICK m \in 1 .. AllReleased : ReleasedBy(m) = <<kind, s>>
        BY AllGivenBack
    <2>2. m \in 1 .. released
        BY <2>1, ReleaseLength, ClientAssumption DEF ClientInv, ClientTypes
    <2> QED
        BY <1>1, <2>1, <2>2 DEF ClientInv, GivenBack
<1> QED
    BY <1>1 DEF ClientInv, ClientTypes
------------------------------------------------------------------------------
(* The length of the queue                                                  *)

Unrequested == {s \in Service : <<"service", s>> \notin held}

\* How often stop() has given back a service.
GivenBackServices == (released + 2) \div 5

\* A service that is not requested may yet be reported once, and once more each
\* time stop() gives one back.
QueueInv ==
    /\ Len(queue) + Cardinality(Unrequested)
          <= MaxQueue + NumServices + GivenBackServices
    /\ released > AllReleased => queue = <<>>

LEMMA UnrequestedSize ==
    ASSUME NEW S \in SUBSET Service
    PROVE  IsFiniteSet(S) /\ Cardinality(S) \in 0 .. NumServices
<1>1. IsFiniteSet(Service) /\ Cardinality(Service) = NumServices
    BY FS_Interval, ClientAssumption DEF Service
<1> QED
    BY <1>1, FS_Subset, FS_CardinalityType

LEMMA UnrequestedType ==
    /\ IsFiniteSet(Unrequested) /\ Cardinality(Unrequested) \in 0 .. NumServices
    /\ IsFiniteSet(Unrequested') /\ Cardinality(Unrequested') \in 0 .. NumServices
<1>1. Unrequested \in SUBSET Service /\ Unrequested' \in SUBSET Service
    BY DEF Unrequested, Service
<1> QED
    BY <1>1, UnrequestedSize

LEMMA QueueInitInv == ClientInit => QueueInv
BY UnrequestedType, ClientAssumption, ReleaseLength
DEF ClientInit, QueueInv, GivenBackServices

LEMMA QueueLength ==
    ASSUME queue \in Seq(Callback), NEW callback \in Callback, Queue(callback)
    PROVE  Len(queue') <= Len(queue) + 1
BY DEF Queue

LEMMA EnvironmentQueue ==
    ASSUME ClientInv, QueueInv,
           \/ Register
           \/ Deregister
           \/ \E s \in Service : ServiceUp(s) \/ ServiceDown(s)
    PROVE  QueueInv'
<1>1. /\ Room /\ UNCHANGED released
      /\ UNCHANGED queue \/ \E callback \in Callback : Queue(callback)
    <2>1. StateCallback(TRUE) \in Callback /\ StateCallback(FALSE) \in Callback
        BY DEF StateCallback, Callback
    <2>2. \A s \in Service, b \in BOOLEAN : AvailabilityCallback(s, b) \in Callback
        BY DEF AvailabilityCallback, Callback
    <2> QED
        BY <2>1, <2>2 DEF Register, Deregister, ServiceUp, ServiceDown, Report
<1>2. Len(queue) \in Nat /\ Len(queue') \in Nat /\ Len(queue') <= Len(queue) + 1
    <2>1. queue \in Seq(Callback)
        BY DEF ClientInv, ClientTypes
    <2>2. queue' \in Seq(Callback)
        BY <1>1, <2>1, QueueType
    <2> QED
        BY <1>1, <2>1, <2>2, QueueLength
<1>3. Len(queue') <= MaxQueue
    BY <1>1, <1>2, ClientAssumption DEF Room
<1>4. released > AllReleased => queue' = queue
    BY <1>1, ReleaseLength, ClientAssumption DEF Queue, ClientInv, ClientTypes
<1>5. GivenBackServices' = GivenBackServices /\ GivenBackServices \in Nat
    BY <1>1 DEF GivenBackServices, ClientInv, ClientTypes
<1> QED
    BY <1>1, <1>2, <1>3, <1>4, <1>5, UnrequestedType, ClientAssumption DEF QueueInv

LEMMA DispatcherQueue ==
    ASSUME ClientInv, QueueInv, DispatcherStep
    PROVE  QueueInv'
<1>1. queue \in Seq(Callback) /\ released \in Nat /\ AllReleased \in Nat
    BY ReleaseLength, ClientAssumption DEF ClientInv, ClientTypes
<1>2. UNCHANGED released /\ GivenBackServices' = GivenBackServices
    BY DEF DispatcherStep, OnState, OnAvailability, Runs, RequestService, Subscribe,
           CallsNext, GivenBackServices
<1>3. GivenBackServices \in Nat
    BY <1>1 DEF GivenBackServices
<1>4. CASE OnState \/ OnAvailability
    <2>1. queue # <<>> /\ queue' = Tail(queue) /\ UNCHANGED held
        BY <1>4 DEF OnState, OnAvailability, Runs
    <2>2. Len(queue') = Len(queue) - 1 /\ Unrequested' = Unrequested
        BY <1>1, <2>1 DEF Unrequested
    <2> QED
        BY <1>1, <1>2, <1>3, <2>1, <2>2, UnrequestedType, ClientAssumption DEF QueueInv
<1>5. CASE RequestService
    <2> DEFINE s == running.next
    <2>1. s \in Service
        BY DEF ClientInv, ClientTypes
    <2>2. Unrequested' \subseteq Unrequested
        BY <1>5 DEF RequestService, Acquire, Unrequested
    <2>3. Cardinality(Unrequested') <= Cardinality(Unrequested)
        BY <2>2, UnrequestedType, FS_Subset
    <2>4. CASE UNCHANGED queue
        BY <1>1, <1>2, <1>3, <2>3, <2>4, UnrequestedType, ClientAssumption DEF QueueInv
    <2>5. CASE Queue(AvailabilityCallback(s, TRUE)) /\ ~UNCHANGED queue
        <3>1. <<"service", s>> \notin held /\ held' = held \cup {<<"service", s>>}
            BY <1>5, <2>5 DEF RequestService, Acquire
        <3>2. s \in Unrequested /\ Unrequested' = Unrequested \ {s}
            BY <2>1, <3>1 DEF Unrequested
        <3>3. Cardinality(Unrequested') = Cardinality(Unrequested) - 1
            BY <3>2, UnrequestedType, FS_RemoveElement
        <3>4. AvailabilityCallback(s, TRUE) \in Callback
            BY <2>1 DEF AvailabilityCallback, Callback
        <3>5. Len(queue') <= Len(queue) + 1 /\ Len(queue') \in Nat
            <4> DEFINE callback == AvailabilityCallback(s, TRUE)
            <4>1. callback \in Callback /\ Queue(callback)
                BY <2>5, <3>4
            <4> HIDE DEF callback
            <4>2. Len(queue') <= Len(queue) + 1
                BY ONLY <1>1, <4>1, QueueLength
            <4>3. queue' \in Seq(Callback)
                BY ONLY <1>1, <4>1, QueueType
            <4> QED
                BY <4>2, <4>3
        <3>6. released <= AllReleased
            BY <2>5 DEF Queue
        <3> QED
            BY <1>1, <1>2, <1>3, <3>3, <3>5, <3>6, UnrequestedType, ClientAssumption
            DEF QueueInv
    <2> QED
        BY <1>5, <2>4, <2>5 DEF RequestService
<1>6. CASE Subscribe
    <2>1. UNCHANGED queue /\ Unrequested' = Unrequested
        BY <1>6 DEF Subscribe, Acquire, Unrequested
    <2> QED
        BY <1>1, <1>2, <1>3, <2>1, UnrequestedType DEF QueueInv
<1> QED
    BY <1>4, <1>5, <1>6 DEF DispatcherStep

LEMMA StopQueue ==
    ASSUME ClientInv, QueueInv, StopStep
    PROVE  QueueInv'
<1> USE ReleaseLength, ClientAssumption
<1>1. Len(queue) \in Nat /\ released \in Nat
    BY DEF ClientInv, ClientTypes
<1>2. CASE ReleaseNext
    <2> DEFINE s == released \div 5 + 1
    <2>1. /\ released < AllReleased /\ released' = released + 1
          /\ held' = held \ {ReleasedBy(released + 1)} /\ UNCHANGED queue
        BY <1>2 DEF ReleaseNext
    <2>2. CASE released % 5 = 2
        <3>1. GivenBackServices' = GivenBackServices + 1
            BY <1>1, <2>1, <2>2 DEF GivenBackServices
        <3>2. ReleasedBy(released + 1) = <<"service", s>>
            BY <1>1, <2>2 DEF ReleasedBy, Release
        <3>3. Unrequested' \subseteq Unrequested \cup {s}
            BY <2>1, <3>2 DEF Unrequested
        <3>4. Cardinality(Unrequested') <= Cardinality(Unrequested) + 1
            <4> HIDE DEF s
            <4>1. /\ IsFiniteSet(Unrequested \cup {s})
                  /\ Cardinality(Unrequested \cup {s}) <= Cardinality(Unrequested) + 1
                <5>1. IsFiniteSet(Unrequested) /\ Cardinality(Unrequested) \in Nat
                    BY UnrequestedType
                <5> QED
                    BY ONLY <5>1, FS_AddElement
            <4> QED
                BY <3>3, <4>1, UnrequestedType, FS_Subset, FS_CardinalityType
        <3> QED
            BY <1>1, <2>1, <3>1, <3>4, UnrequestedType DEF QueueInv, GivenBackServices
    <2>3. CASE released % 5 # 2
        <3>1. ReleasedBy(released + 1)[1] # "service"
            BY <1>1, <2>3 DEF ReleasedBy, Release
        <3>2. Unrequested' = Unrequested
            BY <2>1, <3>1 DEF Unrequested
        <3>3. GivenBackServices' >= GivenBackServices
            BY <1>1, <2>1 DEF GivenBackServices
        <3> QED
            BY <1>1, <2>1, <3>2, <3>3, UnrequestedType DEF QueueInv, GivenBackServices
    <2> QED
        BY <2>2, <2>3
<1>3. CASE ClearAllHandler \/ StopApplication
    <2>1. queue' = <<>> /\ released' \in Nat
        BY <1>1, <1>3 DEF ClearAllHandler, StopApplication, QueueInv
    <2> QED
        BY <2>1, UnrequestedType DEF QueueInv, GivenBackServices
<1> QED
    BY <1>2, <1>3 DEF StopStep

LEMMA QueueBound ==
    ASSUME ClientInv, QueueInv
    PROVE  Len(queue) <= MaxQueue + 2 * NumServices
<1>1. GivenBackServices <= NumServices
    BY ReleaseLength, ClientAssumption DEF GivenBackServices, ClientInv, ClientTypes
<1>2. Len(queue) \in Nat /\ GivenBackServices \in Nat
    BY DEF GivenBackServices, ClientInv, ClientTypes
<1> QED
    BY <1>1, <1>2, UnrequestedType, ClientAssumption DEF QueueInv
------------------------------------------------------------------------------
(* The server's cycle time                                                  *)

\* Where the configured cycle time is kept: in cycle_, or in cycle_old_ while the
\* server is in mode 1.  Between listen_fifo's two assignments the mode is that of
\* the new message and the cycle time that of the previous one.  Once it is lost,
\* both hold the cycle time of mode 1, or cycle_old_ nothing.
CycleKept ==
    LET Base == cycle = config.cycle /\ cycleOld \in {0, config.cycle}
        Fast == cycle = ModeCycle /\ cycleOld = config.cycle /\ config.cycle # 0
        Lost == cycle = ModeCycle /\ cycleOld \in {0, ModeCycle}
        None == cycle = 0 /\ cycleOld = 0
    IN IF lost
       THEN /\ ~(fifo # "open" /\ mode = 1) => Lost
            /\ fifo # "open" /\ mode = 1 => cycle = ModeCycle \/ None
       ELSE /\ fifo = "open" /\ mode = 1 => Fast
            /\ fifo = "open" /\ mode # 1 => Base
            /\ fifo # "open" /\ mode = 1 => Base /\ config.cycle # 0
            /\ fifo # "open" /\ mode # 1 => Base \/ Fast

LEMMA StreamInitInv == StreamInit => CycleKept
BY DEF StreamInit, CycleKept

LEMMA ServerInv ==
    ASSUME CycleKept,
           \/ StartServer \/ StopServer
           \/ Send \/ Count \/ Sleep \/ SetCycle
           \/ \E byte \in {"NUL", "space", "SOH", "1"} : FifoRead(byte)
    PROVE  CycleKept'
<1> USE DEF CycleKept
<1>1. CASE StartServer
    BY <1>1 DEF StartServer
<1>2. CASE StopServer \/ Send \/ Count \/ Sleep
    BY <1>2 DEF StopServer, Send, Count, Sleep
<1>3. CASE SetCycle
    <2>1. CASE mode = 1
        BY <1>3, <2>1 DEF SetCycle
    <2>2. CASE mode # 1
        BY <1>3, <2>2 DEF SetCycle
    <2> QED
        BY <2>1, <2>2
<1>4. ASSUME NEW byte \in {"NUL", "space", "SOH", "1"}, FifoRead(byte)
      PROVE  CycleKept'
    <2>1. /\ fifo = "open" /\ fifo' = "set"
          /\ lost' = (lost \/ (mode' = 1 /\ (mode = 1 \/ config.cycle = 0)))
          /\ UNCHANGED <<config, cycle, cycleOld>>
        BY <1>4 DEF FifoRead
    <2>2. CASE lost
        BY <2>1, <2>2
    <2>3. CASE ~lost /\ mode' = 1 /\ (mode = 1 \/ config.cycle = 0)
        BY <2>1, <2>3
    <2>4. CASE ~lost /\ ~(mode' = 1 /\ (mode = 1 \/ config.cycle = 0))
        <3>1. ~lost'
            BY <2>1, <2>4
        <3> QED
            BY <2>1, <2>4, <3>1
    <2> QED
        BY <2>2, <2>3, <2>4
<1> QED
    BY <1>1, <1>2, <1>3, <1>4
------------------------------------------------------------------------------
(* The number in the payload                                                *)

LEMMA Divided ==
    ASSUME NEW a \in Nat, NEW b \in Nat \ {0}
    PROVE  /\ a \div b \in Nat
           /\ a % b \in 0 .. b - 1
           /\ a = b * (a \div b) + (a % b)
<1>1. a \div b \in Nat
    OBVIOUS
<1>2. a % b \in 0 .. b - 1
    OBVIOUS
<1>3. a = b * (a \div b) + (a % b)
    OBVIOUS
<1> QED
    BY <1>1, <1>2, <1>3

\* Quotient and remainder are unique.
LEMMA Unique ==
    ASSUME NEW m \in Nat \ {0}, NEW x \in Nat, NEW y \in Nat,
           NEW s \in 0 .. m - 1, NEW t \in 0 .. m - 1, m * x + s = m * y + t
    PROVE  x = y
<1>1. ASSUME NEW u \in Nat, NEW v \in Nat, u < v
      PROVE  m * v >= m * u + m
    <2>1. v >= u + 1
        BY <1>1
    <2>2. m * v >= m * (u + 1)
        BY <2>1
    <2> QED
        BY <2>2
<1>2. ~(x < y)
    BY <1>1
<1>3. ~(y < x)
    BY <1>1
<1> QED
    BY <1>2, <1>3

\* To divide by one number and then by another is to divide by their product.
LEMMA DividedTwice ==
    ASSUME NEW a \in Nat, NEW b \in Nat \ {0}, NEW d \in Nat \ {0}
    PROVE  a \div (b * d) = (a \div b) \div d
<1> DEFINE q == a \div b
           p == q \div d
           r == a % b
           s == q % d
<1>1. q \in Nat /\ r \in 0 .. b - 1 /\ a = b * q + r
    BY Divided
<1> HIDE DEF q, r
<1>2. p \in Nat /\ s \in 0 .. d - 1 /\ q = d * p + s
    BY <1>1, Divided
<1> HIDE DEF p, s
<1>3. b * d \in Nat \ {0}
    OBVIOUS
<1>4. a = (b * d) * p + (b * s + r)
    <2>1. b * q = b * (d * p) + b * s
        BY <1>1, <1>2
    <2>2. b * (d * p) = (b * d) * p
        BY <1>2
    <2> QED
        BY <1>1, <1>2, <2>1, <2>2
<1>5. b * s + r \in 0 .. b * d - 1
    <2>1. b * s <= b * (d - 1)
        BY <1>2
    <2>2. b * (d - 1) = b * d - b
        OBVIOUS
    <2>3. b * s \in Nat /\ b * d \in Nat
        BY <1>2
    <2> QED
        BY <1>1, <2>1, <2>2, <2>3
<1> DEFINE m == b * d
           e == b * s + r
<1>6. /\ m \in Nat \ {0} /\ e \in 0 .. m - 1 /\ a = m * p + e
    BY <1>3, <1>4, <1>5
<1> HIDE DEF m, e
<1>7. a \div m \in Nat /\ a % m \in 0 .. m - 1 /\ a = m * (a \div m) + (a % m)
    BY <1>6, Divided
<1>8. a \div m = p
    <2> DEFINE x == a \div m
               f == a % m
    <2>1. x \in Nat /\ f \in 0 .. m - 1 /\ m * x + f = m * p + e
        BY ONLY <1>6, <1>7
    <2> HIDE DEF x, f
    <2>2. x = p
        BY <1>2, <1>6, <2>1, Unique
    <2> QED
        BY <2>2 DEF x
<1> QED
    BY <1>8 DEF m, p, q

\* The four bytes of a number.
LEMMA Bytes ==
    ASSUME NEW c \in Nat, NEW b \in Nat \ {0}, c < b * b * b * b
    PROVE  c = (c % b) + b * (((c \div b) % b)
                 + b * (((c \div (b * b)) % b) + b * ((c \div (b * b * b)) % b)))
<1> DEFINE c1 == c \div b
           c2 == c1 \div b
           c3 == c2 \div b
<1>1. /\ c1 \in Nat /\ c % b \in 0 .. b - 1 /\ c = b * c1 + (c % b)
    BY Divided
<1> HIDE DEF c1
<1>2. /\ c2 \in Nat /\ c1 % b \in 0 .. b - 1 /\ c1 = b * c2 + (c1 % b)
    BY <1>1, Divided
<1> HIDE DEF c2
<1>3. /\ c3 \in Nat /\ c2 % b \in 0 .. b - 1 /\ c2 = b * c3 + (c2 % b)
    BY <1>2, Divided
<1>4. c \div (b * b) = c2
    BY DividedTwice DEF c1, c2
<1>5. c \div (b * b * b) = c3
    <2>1. b * b \in Nat \ {0}
        OBVIOUS
    <2>2. c \div ((b * b) * b) = (c \div (b * b)) \div b
        BY ONLY <2>1, DividedTwice, c \in Nat, b \in Nat \ {0}
    <2> QED
        BY <1>4, <2>2
<1> HIDE DEF c3
<1>6. c3 < b
    <2> SUFFICES ASSUME c3 >= b
                 PROVE  FALSE
        BY <1>3
    <2>1. c2 >= b * b
        <3>1. b * c3 >= b * b
            BY <1>3
        <3> QED
            BY <1>3, <3>1
    <2>2. c1 >= b * (b * b)
        <3>1. b * b \in Nat
            OBVIOUS
        <3>2. b * c2 >= b * (b * b)
            BY <1>2, <2>1, <3>1
        <3> QED
            BY <1>2, <3>1, <3>2
    <2>3. c >= b * (b * (b * b))
        <3>1. b * (b * b) \in Nat
            OBVIOUS
        <3>2. b * c1 >= b * (b * (b * b))
            BY <1>1, <2>2, <3>1
        <3> QED
            BY <1>1, <3>1, <3>2
    <2>4. b * (b * (b * b)) = b * b * b * b
        OBVIOUS
    <2> QED
        BY <2>3, <2>4
<1>7. c3 % b = c3
    <2>1. /\ c3 \div b \in Nat /\ c3 % b \in 0 .. b - 1
          /\ c3 = b * (c3 \div b) + (c3 % b)
        BY <1>3, Divided
    <2> DEFINE q == c3 \div b
               r == c3 % b
    <2>2. q \in Nat /\ r \in 0 .. b - 1 /\ c3 = b * q + r
        BY <2>1
    <2> HIDE DEF q, r
    <2>3. q = 0
        <3>1. q >= 1 => b * q >= b
            BY <2>2
        <3> QED
            BY <1>3, <1>6, <2>2, <3>1
    <2>4. r = c3
        BY <2>2, <2>3
    <2> QED
        BY <2>4 DEF r
<1> QED
    BY <1>1, <1>2, <1>3, <1>4, <1>5, <1>7 DEF c1

LEMMA BytesType ==
    ASSUME NEW c \in Nat
    PROVE  FirstBytes(c) \in [1 .. 4 -> 0 .. ByteBase - 1]
<1>1. /\ ByteBase \in Nat \ {0}
      /\ ByteBase * ByteBase \in Nat \ {0}
      /\ ByteBase * ByteBase * ByteBase \in Nat \ {0}
    BY StreamAssumption
<1>2. CASE UseTp
    BY <1>1, <1>2 DEF FirstBytes
<1>3. CASE ~UseTp
    <2>1. \A d \in Nat \ {0} : (c \div d) % ByteBase \in 0 .. ByteBase - 1
        BY <1>1, Divided
    <2>2. c % ByteBase \in 0 .. ByteBase - 1
        BY <1>1, Divided
    <2> QED
        BY <1>1, <1>3, <2>1, <2>2 DEF FirstBytes
<1> QED
    BY <1>2, <1>3

\* on_message reads the number that notify wrote.
LEMMA NumberRead ==
    ASSUME NEW c \in 0 .. MaxCounter
    PROVE  Number(FirstBytes(c)) = IF UseTp THEN 0 ELSE c
<1>1. CASE UseTp
    BY <1>1, StreamAssumption DEF FirstBytes, Number
<1>2. CASE ~UseTp
    <2>1. /\ ByteBase \in Nat \ {0} /\ c \in Nat
          /\ c < ByteBase * ByteBase * ByteBase * ByteBase
        BY StreamAssumption
    <2>2. Number(FirstBytes(c)) =
              (c % ByteBase) + ByteBase * (((c \div ByteBase) % ByteBase)
                  + ByteBase * (((c \div (ByteBase * ByteBase)) % ByteBase)
                      + ByteBase * ((c \div (ByteBase * ByteBase * ByteBase)) % ByteBase)))
        BY <1>2 DEF FirstBytes, Number
    <2> QED
        BY <1>2, <2>1, <2>2, Bytes
<1> QED
    BY <1>1, <1>2
------------------------------------------------------------------------------
(* The server's types                                                       *)

\* Before it goes on, the counter is below the highest number, which is skipped.
StreamInv == StreamTypeOK /\ (notifier = "count" => counter < MaxCounter)

LEMMA WrapType ==
    ASSUME NEW c \in 1 .. MaxCounter
    PROVE  Wrap(c) \in 1 .. MaxCounter - 1
BY StreamAssumption DEF Wrap

LEMMA StreamInitTypes == StreamInit => StreamInv
<1> SUFFICES ASSUME StreamInit
             PROVE  StreamInv
    OBVIOUS
<1>1. config.cycle \in Cycles
    BY DEF StreamInit
<1>2. {up, lost, froze} \subseteq BOOLEAN
    BY DEF StreamInit
<1>3. {cycle, cycleOld} \subseteq Cycles \cup {ModeCycle, 0}
    BY <1>1 DEF StreamInit
<1> QED
    BY <1>2, <1>3, StreamAssumption DEF StreamInit, StreamInv, StreamTypeOK, Mode

LEMMA StreamStepTypes ==
    ASSUME StreamInv,
           \/ StartServer \/ StopServer
           \/ Send \/ Count \/ Sleep \/ SetCycle
           \/ \E byte \in {"NUL", "space", "SOH", "1"} : FifoRead(byte)
    PROVE  StreamInv'
<1> USE StreamAssumption DEF StreamInv, StreamTypeOK
<1>1. CASE StartServer
    <2>1. {up', lost', froze'} \subseteq BOOLEAN
        BY <1>1 DEF StartServer
    <2>2. {cycle', cycleOld'} \subseteq Cycles \cup {ModeCycle, 0}
        BY <1>1 DEF StartServer
    <2>3. starts' \in 0 .. MaxStarts
        BY <1>1 DEF StartServer
    <2> QED
        BY <1>1, <2>1, <2>2, <2>3 DEF StartServer, Mode
<1>2. CASE StopServer \/ Sleep
    BY <1>2 DEF StopServer, Sleep
<1>3. CASE Send
    BY <1>3, WrapType DEF Send
<1>4. CASE Count
    BY <1>4 DEF Count
<1>5. CASE SetCycle
    <2>1. CASE mode = 1
        BY <1>5, <2>1 DEF SetCycle
    <2>2. CASE mode # 1
        BY <1>5, <2>2 DEF SetCycle
    <2> QED
        BY <2>1, <2>2
<1>6. ASSUME NEW byte \in {"NUL", "space", "SOH", "1"}, FifoRead(byte)
      PROVE  StreamInv'
    <2>1. mode' \in Mode
        BY <1>6 DEF FifoRead, Extracted, Mode
    <2> QED
        BY <1>6, <2>1 DEF FifoRead
<1> QED
    BY <1>1, <1>2, <1>3, <1>4, <1>5, <1>6
------------------------------------------------------------------------------
(* The numbers the client sees                                              *)

\* The number that follows s, and what the counter is after s was sent.
Successor(s, stays) == IF stays THEN s ELSE IF s = MaxCounter - 1 THEN 1 ELSE s + 1

After(s) == counter = IF notifier = "count" \/ froze THEN s ELSE s + 1

\* At most one event is on its way.
NumberTypes ==
    /\ \A event \in datagrams :
          /\ event.payload.bytes \in [1 .. 4 -> 0 .. ByteBase - 1]
          /\ Number(event.payload.bytes) \in 0 .. MaxCounter - 1
          /\ event.gap \in BOOLEAN
          /\ event.froze \in BOOLEAN
    /\ \A event, other \in datagrams : event = other
    /\ seen \in 0 .. MaxCounter - 1
    /\ gap \in BOOLEAN
    /\ scene \in Scenes

\* What is on its way follows what was seen, and the counter follows both, as long
\* as nothing was lost in between.
Numbered ==
    ~UseTp =>
        /\ \A event \in datagrams :
              /\ Number(event.payload.bytes) # 0
              /\ ~event.gap /\ seen # 0 =>
                    Number(event.payload.bytes) = Successor(seen, event.froze)
              /\ ~gap => After(Number(event.payload.bytes))
        /\ ~gap /\ datagrams = {} /\ seen # 0 => After(seen)

NumbersInv == NumberTypes /\ Numbered

LEMMA NumbersInit == Init => NumbersInv
<1> SUFFICES ASSUME Init
             PROVE  NumbersInv
    OBVIOUS
<1>1. datagrams = {} /\ seen = 0 /\ gap = FALSE /\ scene \in Scenes
    BY DEF Init
<1>2. gap \in BOOLEAN
    BY <1>1
<1> QED
    BY <1>1, <1>2, StreamAssumption DEF NumbersInv, NumberTypes, Numbered

\* The event that notify sends.
Sent == [payload |-> Payload, gap |-> gap, froze |-> froze]

LEMMA SentEvent ==
    ASSUME StreamInv
    PROVE  /\ Sent.payload.bytes = FirstBytes(Wrap(counter))
           /\ Sent.gap = gap
           /\ Sent.froze = froze
BY DEF Sent, Payload

LEMMA SendNumbers ==
    ASSUME StreamInv, NumbersInv, SendEvent
    PROVE  NumbersInv'
<1> DEFINE c == Wrap(counter)
<1> USE StreamAssumption
<1>1. /\ counter \in 1 .. MaxCounter /\ froze \in BOOLEAN /\ gap \in BOOLEAN
      /\ seen \in 0 .. MaxCounter - 1
    BY DEF StreamInv, StreamTypeOK, NumbersInv, NumberTypes
<1>2. c \in 1 .. MaxCounter - 1
    BY <1>1, WrapType
<1>3. /\ counter' = c /\ notifier = "send" /\ notifier' = "count"
      /\ UNCHANGED <<froze, seen, scene>> /\ UseTp' = UseTp
    BY DEF SendEvent, Send, UseTp
<1>4. Number(Sent.payload.bytes) = IF UseTp THEN 0 ELSE c
    BY <1>1, <1>2, NumberRead, SentEvent
<1> HIDE DEF c
<1>5. CASE datagrams' = {Sent} /\ gap' = FALSE /\ datagrams = {}
    <2> PICK event : event = Sent
        OBVIOUS
    <2>1. /\ Number(event.payload.bytes) = IF UseTp THEN 0 ELSE c
          /\ event.gap = gap /\ event.froze = froze
          /\ datagrams' = {event}
        BY <1>4, <1>5, SentEvent
    <2>2. event.payload.bytes \in [1 .. 4 -> 0 .. ByteBase - 1]
        <3>1. FirstBytes(c) \in [1 .. 4 -> 0 .. ByteBase - 1]
            BY <1>2, BytesType
        <3> QED
            BY <3>1, SentEvent DEF c
    <2>3. NumberTypes'
        <3>1. Number(event.payload.bytes) \in 0 .. MaxCounter - 1
            BY <1>2, <2>1
        <3>2. event.gap \in BOOLEAN /\ event.froze \in BOOLEAN
            BY <1>1, <2>1
        <3>3. seen' \in 0 .. MaxCounter - 1 /\ scene' \in Scenes
            BY <1>1, <1>3 DEF NumbersInv, NumberTypes
        <3>4. gap' \in BOOLEAN
            BY <1>5
        <3> QED
            BY <2>1, <2>2, <3>1, <3>2, <3>3, <3>4 DEF NumberTypes
    <2>4. ASSUME ~UseTp, ~gap, seen # 0
          PROVE  c = Successor(seen, froze)
        <3>1. After(seen)
            BY <1>5, <2>4 DEF NumbersInv, Numbered
        <3> QED
            BY <1>1, <1>3, <3>1 DEF c, After, Successor, Wrap
    <2>5. Numbered'
        <3> SUFFICES ASSUME ~UseTp
                     PROVE  Numbered'
            BY <1>3 DEF Numbered
        <3>1. Number(event.payload.bytes) = c /\ c # 0
            BY <1>2, <2>1
        <3>2. ~event.gap /\ seen # 0 => c = Successor(seen, event.froze)
            BY <2>1, <2>4
        <3>3. After(Number(event.payload.bytes))'
            BY <1>3, <3>1 DEF After
        <3> QED
            BY <1>3, <2>1, <3>1, <3>2, <3>3 DEF Numbered, Successor, After
    <2> QED
        BY <2>3, <2>5 DEF NumbersInv
<1>6. CASE UNCHANGED datagrams /\ gap' = TRUE
    <2>1. NumberTypes'
        BY <1>3, <1>6 DEF NumbersInv, NumberTypes, Number
    <2>2. Numbered'
        BY <1>3, <1>6 DEF NumbersInv, Numbered, Number, Successor
    <2> QED
        BY <2>1, <2>2 DEF NumbersInv
<1> QED
    BY <1>5, <1>6 DEF SendEvent, Sent

LEMMA MessageNumbers ==
    ASSUME NumbersInv, OnMessage
    PROVE  NumbersInv'
<1>1. PICK event \in datagrams :
          /\ seen' = Number(event.payload.bytes)
          /\ datagrams' = datagrams \ {event}
    BY DEF OnMessage
<1>2. datagrams' = {}
    BY <1>1 DEF NumbersInv, NumberTypes
<1>3. UNCHANGED <<counter, notifier, froze, gap, scene>> /\ UseTp' = UseTp
    BY DEF OnMessage, stream, UseTp
<1>4. NumberTypes'
    BY <1>1, <1>2, <1>3 DEF NumbersInv, NumberTypes
<1>5. Numbered'
    BY <1>1, <1>2, <1>3 DEF NumbersInv, Numbered, After
<1> QED
    BY <1>4, <1>5 DEF NumbersInv

LEMMA OtherNumbers ==
    ASSUME StreamInv, NumbersInv, UNCHANGED <<seen, scene>>,
           \/ LoseDatagram
           \/ StartServer /\ gap' = TRUE /\ UNCHANGED datagrams
           \/ /\ \/ StopServer \/ Count \/ Sleep \/ SetCycle
                 \/ \E byte \in {"NUL", "space", "SOH", "1"} : FifoRead(byte)
                 \/ UNCHANGED stream
              /\ UNCHANGED <<datagrams, gap>>
    PROVE  NumbersInv'
<1>1. UseTp' = UseTp
    BY DEF UseTp, LoseDatagram, StartServer, StopServer, Count, Sleep, SetCycle, FifoRead,
           stream
<1>2. CASE datagrams' \subseteq datagrams /\ gap' = TRUE
    <2>1. NumberTypes'
        BY <1>2 DEF NumbersInv, NumberTypes, Number
    <2>2. Numbered'
        BY <1>1, <1>2 DEF NumbersInv, Numbered, Number, Successor
    <2> QED
        BY <2>1, <2>2 DEF NumbersInv
<1>3. CASE /\ UNCHANGED <<datagrams, gap>>
           /\ \A s \in Nat : After(s) => After(s)'
    <2>1. NumberTypes'
        BY <1>3 DEF NumbersInv, NumberTypes, Number
    <2>2. \A event \in datagrams : Number(event.payload.bytes) \in Nat
        BY DEF NumbersInv, NumberTypes
    <2>3. seen \in Nat
        BY DEF NumbersInv, NumberTypes
    <2>4. Numbered'
        BY <1>1, <1>3, <2>2, <2>3 DEF NumbersInv, Numbered, Number, Successor, After
    <2> QED
        BY <2>1, <2>4 DEF NumbersInv
<1>4. ASSUME \/ StopServer \/ Count \/ Sleep \/ SetCycle
             \/ \E byte \in {"NUL", "space", "SOH", "1"} : FifoRead(byte)
             \/ UNCHANGED stream
      PROVE  \A s \in Nat : After(s) => After(s)'
    <2>1. CASE Count
        BY <2>1 DEF Count, After
    <2>2. CASE Sleep
        BY <2>2 DEF Sleep, After
    <2>3. CASE \/ StopServer \/ SetCycle
               \/ \E byte \in {"NUL", "space", "SOH", "1"} : FifoRead(byte)
               \/ UNCHANGED stream
        <3>1. UNCHANGED <<counter, notifier, froze>>
            BY <2>3 DEF StopServer, SetCycle, FifoRead, stream
        <3> QED
            BY <3>1 DEF After
    <2> QED
        BY <1>4, <2>1, <2>2, <2>3
<1> QED
    BY <1>2, <1>3, <1>4 DEF LoseDatagram

\* What on_message sees, put as the property puts it.
LEMMA SeenFollows ==
    ASSUME NumbersInv, OnMessage
    PROVE  \A event \in datagrams :
               OnMessage /\ ~event.gap /\ seen # 0 /\ ~UseTp =>
                   seen' = CASE event.froze -> seen
                             [] ~event.froze /\ seen = MaxCounter - 1 -> 1
                             [] OTHER -> seen + 1
<1> SUFFICES ASSUME NEW event \in datagrams, ~event.gap, seen # 0, ~UseTp
             PROVE  seen' = CASE event.froze -> seen
                             [] ~event.froze /\ seen = MaxCounter - 1 -> 1
                             [] OTHER -> seen + 1
    OBVIOUS
<1>1. seen' = Number(event.payload.bytes)
    BY DEF OnMessage, NumbersInv, NumberTypes
<1>2. Number(event.payload.bytes) = Successor(seen, event.froze)
    BY DEF NumbersInv, Numbered
<1>3. CASE event.froze
    BY <1>1, <1>2, <1>3 DEF Successor
<1>4. CASE ~event.froze /\ seen = MaxCounter - 1
    BY <1>1, <1>2, <1>4 DEF Successor
<1>5. CASE ~event.froze /\ seen # MaxCounter - 1
    BY <1>1, <1>2, <1>5 DEF Successor
<1> QED
    BY <1>3, <1>4, <1>5
------------------------------------------------------------------------------
(* The system                                                               *)

IInv ==
    /\ ClientInv /\ QueueInv
    /\ StreamInv /\ CycleKept
    /\ NumbersInv
    /\ is_registered \in BOOLEAN
    /\ registered \in BOOLEAN

LEMMA InitIInv == Init => IInv
<1> SUFFICES ASSUME Init
             PROVE  IInv
    OBVIOUS
<1>1. is_registered \in BOOLEAN /\ registered \in BOOLEAN
    BY DEF Init, ClientInit
<1> QED
    BY <1>1, ClientInitInv, QueueInitInv, StreamInitInv, StreamInitTypes, NumbersInit
    DEF Init, IInv

LEMMA Stutters ==
    /\ UNCHANGED client /\ ClientInv /\ QueueInv => ClientInv' /\ QueueInv'
    /\ UNCHANGED stream /\ StreamInv /\ CycleKept => StreamInv' /\ CycleKept'
<1>1. ASSUME UNCHANGED client, ClientInv, QueueInv
      PROVE  ClientInv' /\ QueueInv'
    BY <1>1 DEF client, ClientInv, ClientTypes, GivenBack, HeldUntilRelease, ReleasedBy,
                Stopping, SubscriptionHasHandler, QueueInv, Unrequested, GivenBackServices
<1>2. ASSUME UNCHANGED stream, StreamInv, CycleKept
      PROVE  StreamInv' /\ CycleKept'
    BY <1>2 DEF stream, StreamInv, StreamTypeOK, CycleKept
<1> QED
    BY <1>1, <1>2

\* What one step is to the client, the server and the numbers.
ClientStep ==
    \/ Register \/ Deregister \/ (\E s \in Service : ServiceUp(s) \/ ServiceDown(s))
    \/ DispatcherStep
    \/ StopStep
    \/ UNCHANGED client

StreamStep ==
    \/ StartServer \/ StopServer
    \/ Send \/ Count \/ Sleep \/ SetCycle
    \/ \E byte \in {"NUL", "space", "SOH", "1"} : FifoRead(byte)
    \/ UNCHANGED stream

NumberStep ==
    \/ SendEvent \/ OnMessage
    \/ /\ UNCHANGED <<seen, scene>>
       /\ \/ LoseDatagram
          \/ StartServer /\ gap' = TRUE /\ UNCHANGED datagrams
          \/ /\ \/ StopServer \/ Count \/ Sleep \/ SetCycle
                \/ \E byte \in {"NUL", "space", "SOH", "1"} : FifoRead(byte)
                \/ UNCHANGED stream
             /\ UNCHANGED <<datagrams, gap>>

LEMMA StepParts ==
    ASSUME [Next]_vars
    PROVE  ClientStep /\ StreamStep /\ NumberStep
<1> USE DEF ClientStep, StreamStep, NumberStep
<1>1. CASE SendEvent
    BY <1>1 DEF SendEvent
<1>2. CASE LoseDatagram
    BY <1>2 DEF LoseDatagram
<1>3. CASE OnMessage
    BY <1>3 DEF OnMessage
<1>4. CASE ServerStarts \/ ServerStops
    <2>1. Server \in Service
        BY SystemAssumption
    <2> QED
        BY <1>4, <2>1 DEF ServerStarts, ServerStops
<1>5. CASE ServerStep
    BY <1>5 DEF ServerStep
<1>6. CASE OtherService \/ Routing
    BY <1>6 DEF OtherService, Routing
<1>7. CASE Dispatch \/ Stop
    BY <1>7 DEF Dispatch, Stop
<1>8. CASE UNCHANGED vars
    BY <1>8 DEF vars
<1> QED
    BY <1>1, <1>2, <1>3, <1>4, <1>5, <1>6, <1>7, <1>8 DEF Next

LEMMA NextIInv == IInv /\ [Next]_vars => IInv'
<1> SUFFICES ASSUME IInv, [Next]_vars
             PROVE  IInv'
    OBVIOUS
<1> USE DEF IInv
<1>1. ClientInv' /\ QueueInv'
    BY StepParts, EnvironmentInv, EnvironmentQueue, DispatcherInv, DispatcherQueue, StopInv,
       StopQueue, Stutters DEF ClientStep
<1>2. StreamInv' /\ CycleKept'
    BY StepParts, ServerInv, StreamStepTypes, Stutters DEF StreamStep
<1>3. NumbersInv'
    BY StepParts, SendNumbers, MessageNumbers, OtherNumbers DEF NumberStep
<1>4. is_registered' \in BOOLEAN /\ registered' \in BOOLEAN
    <2>1. CASE OnState
        <3>1. Head(queue) \in Callback
            BY <2>1 DEF OnState, Runs, ClientInv, ClientTypes
        <3>2. is_registered' \in BOOLEAN
            BY <2>1, <3>1 DEF OnState, Callback
        <3> QED
            BY <2>1, <3>2 DEF OnState, Runs
    <2>2. CASE ~OnState
        BY <2>2, StepParts
        DEF ClientStep, Register, Deregister, ServiceUp, ServiceDown, DispatcherStep,
            OnAvailability, Runs, RequestService, Subscribe, CallsNext, StopStep,
            ReleaseNext, ClearAllHandler, StopApplication, client
    <2> QED
        BY <2>1, <2>2
<1> QED
    BY <1>1, <1>2, <1>3, <1>4

LEMMA IInvInvariant == Spec => []IInv
<1> QED
    BY InitIInv, NextIInv, PTL DEF Spec

\* The counter never reaches the highest number while it goes on, the bytes of the
\* payload are bytes, and at most 2 * NumServices callbacks are queued beyond those
\* the environment queues.
THEOREM SystemTypeCorrect == Spec => []TypeOK
<1>1. IInv => TypeOK
    <2> SUFFICES ASSUME IInv
                 PROVE  TypeOK
        OBVIOUS
    <2>1. ClientTypeOK
        BY QueueBound DEF IInv, ClientInv, ClientTypes, ClientTypeOK
    <2>2. seen \in 0 .. MaxCounter
        BY StreamAssumption DEF IInv, NumbersInv, NumberTypes
    <2> QED
        BY <2>1, <2>2 DEF IInv, StreamInv, NumbersInv, NumberTypes, TypeOK
<1> QED
    BY <1>1, IInvInvariant, PTL

\* stop() gives back all that was acquired for every service, but what a callback
\* acquired after stop() had given back that very thing.
THEOREM EverythingReleased == Spec => []StopReleasesAll
<1>1. IInv => StopReleasesAll
    BY ClientInvReleases DEF IInv
<1> QED
    BY <1>1, IInvInvariant, PTL

\* No service is subscribed to without its event and its message handler, in the
\* middle of stop() either, with callbacks that go on subscribing next to it; but
\* for a subscription made after stop() had ended the one to that very service.
THEOREM SubscribedWithHandler == Spec => []SubscriptionHasHandler
<1>1. IInv => SubscriptionHasHandler
    BY DEF IInv, ClientInv
<1> QED
    BY <1>1, IInvInvariant, PTL

\* The cycle time is that of the operation mode once a message is dealt with; the
\* configured one is lost in the two cases that CycleFollowsMode names, only.
THEOREM CycleFollows == Spec => []CycleFollowsMode
<1>1. IInv => CycleFollowsMode
    BY DEF IInv, CycleKept, CycleFollowsMode
<1> QED
    BY <1>1, IInvInvariant, PTL

\* An event that was not lost, after one that was seen, has the next number, however
\* the server was switched and restarted in between.
THEOREM JumpsAreLosses == Spec => JumpMeansLoss
<1> DEFINE Follows ==
        \A event \in datagrams :
            OnMessage /\ ~event.gap /\ seen # 0 /\ ~UseTp =>
                seen' = CASE event.froze -> seen
                          [] ~event.froze /\ seen = MaxCounter - 1 -> 1
                          [] OTHER -> seen + 1
<1>1. IInv /\ [Next]_vars => Follows \/ UNCHANGED vars
    <2> SUFFICES ASSUME IInv
                 PROVE  Follows
        OBVIOUS
    <2>1. CASE OnMessage
        BY <2>1, SeenFollows DEF IInv
    <2>2. CASE ~OnMessage
        BY <2>2
    <2> QED
        BY <2>1, <2>2
<1>2. IInv /\ [Next]_vars => [Follows]_vars
    BY <1>1
<1> QED
    BY <1>2, IInvInvariant, PTL DEF Spec, JumpMeansLoss
==============================================================================
