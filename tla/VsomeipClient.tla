----------------------------- MODULE VsomeipClient ----------------------------
(***************************************************************************)
(* The client side of the vsomeip application (generic/main.cpp): the      *)
(* callbacks of the vsomeip library, which run one after the other on its  *)
(* dispatcher thread, what they acquire for each service named in          *)
(* VSOMEIP_CLIENT, and the half of stop() that gives it back, which runs   *)
(* at the same time on the signal thread.                                  *)
(*                                                                         *)
(* The library and its routing daemon are external.  They are given the    *)
(* weakest memory: a request is lost when the application is not           *)
(* registered or is deregistered later, and a subscription also when the   *)
(* service is not or no longer available.                                  *)
(***************************************************************************)
EXTENDS Naturals, Sequences

CONSTANTS
    NumServices,    \* services of service_id_list that VSOMEIP_CLIENT chooses
    MaxQueue        \* bound: callbacks queued before the environment waits

ASSUME ClientAssumption ==
    /\ NumServices \in Nat \ {0}
    /\ MaxQueue \in Nat

VARIABLES
    is_registered,  \* is_registered_
    running,        \* the callback that runs: its kind, the service to treat next, the last
    released,       \* calls of stop() that are done
    late,           \* history: what was acquired after stop() had given it back
    held,           \* external: what the application holds, for which service
    registered,     \* external: the application is registered
    available,      \* external: services that are offered
    queue           \* external: callbacks the dispatcher has yet to run

client == <<is_registered, running, released, late, held, registered, available, queue>>

\* In the order in which the code goes through them.
Service == 1 .. NumServices

\* The callback goes through the services from first to last.
Through(kind, first, last) == [kind |-> kind, next |-> first, last |-> last]

Idle == Through("idle", 1, 1)

\* Faulty: the message handler goes before the subscription.
HandlersFirst == <<"messages", "subscription", "event", "service", "availability">>

\* What stop() gives back for each service, in its order.
Release == <<"subscription", "event", "service", "messages", "availability">>

Kind == {"subscription", "event", "service", "messages", "availability"}

\* Faulty: the loop ends one service early.
OneLess == Len(Release) * (NumServices - 1)

\* The calls of stop(): five for each service, clear_all_handler, app_->stop().
AllReleased == Len(Release) * NumServices

Stopping == released > 0

\* init_request_event, for each service, before the application starts.
Requested == {"messages", "availability", "event"} \X Service

ClientInit ==
    /\ is_registered = FALSE
    /\ running = Idle
    /\ released = 0
    /\ late = {}
    /\ held = Requested
    /\ registered = FALSE
    /\ available = {}
    /\ queue = <<>>
------------------------------------------------------------------------------
(* What the library does                                                    *)

\* Callbacks are queued until clear_all_handler.
Queue(callback) ==
    queue' = IF released <= AllReleased THEN Append(queue, callback) ELSE queue

\* The environment waits while many callbacks are queued.
Room == Len(queue) < MaxQueue

StateCallback(up) == [kind |-> "state", up |-> up, service |-> 0]

AvailabilityCallback(s, up) == [kind |-> "availability", up |-> up, service |-> s]

\* The availability of s is reported to an application that requested it.
Report(s, up) ==
    IF {<<"service", s>>, <<"availability", s>>} \subseteq held
    THEN Queue(AvailabilityCallback(s, up))
    ELSE UNCHANGED queue

Register ==
    /\ Room
    /\ ~registered
    /\ released <= AllReleased
    /\ registered' = TRUE
    /\ Queue(StateCallback(TRUE))
    /\ UNCHANGED <<is_registered, running, released, late, held, available>>

\* The daemon is lost, and with it what it knew of the application.
Deregister ==
    /\ Room
    /\ registered
    /\ registered' = FALSE
    /\ held' = held \ ({"service", "subscription"} \X Service)
    /\ Queue(StateCallback(FALSE))
    /\ UNCHANGED <<is_registered, running, released, late, available>>

ServiceUp(s) ==
    /\ Room
    /\ s \notin available
    /\ available' = available \cup {s}
    /\ Report(s, TRUE)
    /\ UNCHANGED <<is_registered, running, released, late, held, registered>>

ServiceDown(s) ==
    /\ Room
    /\ s \in available
    /\ available' = available \ {s}
    /\ held' = held \ {<<"subscription", s>>}
    /\ Report(s, FALSE)
    /\ UNCHANGED <<is_registered, running, released, late, registered>>
------------------------------------------------------------------------------
(* The callbacks, and the calls they make                                   *)

Runs(kind) ==
    /\ running = Idle
    /\ queue # <<>>
    /\ Head(queue).kind = kind
    /\ queue' = Tail(queue)
    /\ UNCHANGED <<released, late, held, registered, available>>

\* Faulty: a deregistration is only logged.
ForgetDeregistration ==
    /\ Runs("state")
    /\ is_registered' = (is_registered \/ Head(queue).up)
    /\ running' = IF Head(queue).up /\ ~is_registered
                  THEN Through("request", 1, NumServices) ELSE Idle

\* on_state: only the first of several registrations requests the services.
OnState ==
    /\ Runs("state")
    /\ is_registered' = Head(queue).up
    /\ running' = IF Head(queue).up /\ ~is_registered
                  THEN Through("request", 1, NumServices) ELSE Idle

\* on_availability.
OnAvailability ==
    /\ Runs("availability")
    /\ running' = IF Head(queue).up
                  THEN Through("subscribe", Head(queue).service, Head(queue).service)
                  ELSE Idle
    /\ UNCHANGED is_registered

\* The running callback makes its next call.
CallsNext(kind) ==
    /\ running.kind = kind
    /\ running' = IF running.next = running.last THEN Idle
                  ELSE [running EXCEPT !.next = @ + 1]
    /\ UNCHANGED <<is_registered, released, registered, available>>

\* What the n-th call of stop() gives back.
ReleasedBy(n) ==
    <<Release[((n - 1) % Len(Release)) + 1], ((n - 1) \div Len(Release)) + 1>>

\* The library gives the application what it asked for, or nothing, when it
\* cannot serve the request.
Acquire(what, served) ==
    /\ held' = IF served THEN held \cup {what} ELSE held
    /\ late' = IF served /\ \E m \in 1 .. released : ReleasedBy(m) = what
               THEN late \cup {what} ELSE late

RequestService ==
    /\ CallsNext("request")
    /\ LET s == running.next
           first == registered /\ <<"service", s>> \notin held
       IN /\ Acquire(<<"service", s>>, registered)
          /\ IF first /\ s \in available /\ <<"availability", s>> \in held
             THEN Queue(AvailabilityCallback(s, TRUE))
             ELSE UNCHANGED queue

Subscribe ==
    /\ CallsNext("subscribe")
    /\ Acquire(<<"subscription", running.next>>, registered /\ running.next \in available)
    /\ UNCHANGED queue

DispatcherStep == OnState \/ OnAvailability \/ RequestService \/ Subscribe
------------------------------------------------------------------------------
(* stop(), on the signal thread                                             *)

ReleaseNext ==
    /\ released < AllReleased
    /\ released' = released + 1
    /\ held' = held \ {ReleasedBy(released + 1)}
    /\ UNCHANGED <<is_registered, running, late, registered, available, queue>>

\* app_->clear_all_handler().
ClearAllHandler ==
    /\ released = AllReleased
    /\ released' = released + 1
    /\ queue' = <<>>
    /\ UNCHANGED <<is_registered, running, late, held, registered, available>>

\* app_->stop(), once the running callback has returned.
StopApplication ==
    /\ released = AllReleased + 1
    /\ running = Idle
    /\ released' = released + 1
    /\ registered' = FALSE
    /\ held' = {}
    /\ UNCHANGED <<is_registered, running, late, available, queue>>

StopStep == ReleaseNext \/ ClearAllHandler \/ StopApplication
------------------------------------------------------------------------------
\* A service that was requested is requested again only after the connection was
\* lost, for which the environment waits until there is room, or after stop() has
\* given it back: each service is reported at most twice beyond MaxQueue.
ClientTypeOK ==
    /\ is_registered \in BOOLEAN
    /\ running \in [kind : {"idle", "request", "subscribe"}, next : Service, last : Service]
    /\ released \in 0 .. AllReleased + 2
    /\ late \subseteq Kind \X Service
    /\ held \subseteq Kind \X Service
    /\ registered \in BOOLEAN
    /\ available \subseteq Service
    /\ Len(queue) <= MaxQueue + 2 * NumServices

\* Once the loop of stop() is through, the application holds nothing but what a
\* callback, which runs next to stop(), acquired after stop() had given back that
\* very thing.  What a callback acquires earlier, also in the middle of stop(), is
\* given back with the rest.
StopReleasesAll == released >= AllReleased => held \subseteq late

\* A subscribed application has a message handler and has requested the event, in
\* the middle of stop() too, which takes these away one by one.  on_availability
\* can subscribe again behind stop(): the only subscriptions without a handler are
\* those made after stop() had ended the subscription to that very service.
SubscriptionHasHandler ==
    \A s \in Service : <<"subscription", s>> \in held \ late =>
        {<<"messages", s>>, <<"event", s>>} \subseteq held

\* An application that stays registered, with a service that stays available, is
\* subscribed in the end, whatever was lost and reported before.
EventuallySubscribed ==
    \A s \in Service :
        <>[](registered /\ s \in available /\ ~Stopping)
            => <>[](<<"subscription", s>> \in held)
==============================================================================
