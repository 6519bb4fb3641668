---------------------------- MODULE VsomeipService ---------------------------
(***************************************************************************)
(* The server side of the vsomeip application (generic/main.cpp): its      *)
(* threads from the start of main to the end of the process, the mutexes   *)
(* and condition variables between them, and SIGTERM.                      *)
(*                                                                         *)
(*   main        init(), then app_->start() until the application stops    *)
(*   sighandler  waits for a signal, then runs stop()                      *)
(*   offer       run(): offers the service in a loop                       *)
(*   notify      notify(): sends notifications while the service is        *)
(*               offered                                                   *)
(*   fifo        listen_fifo(): reads operation modes (VSOMEIP_CHANGE_MODE)*)
(*                                                                         *)
(* The flags are plain bools that are read and written without a lock; the *)
(* tests of one condition and each assignment are one step.  Before init   *)
(* assigns them they hold whatever the stack held.  A wait on a condition  *)
(* variable is two steps, as the flags may change between the test of the  *)
(* condition and the wait.                                                 *)
(***************************************************************************)
EXTENDS Naturals

CONSTANTS
    ChangeModes,    \* may VSOMEIP_CHANGE_MODE be set: the set of the cases
    SpuriousWakes,  \* may condition variables wake without a notification: likewise
    MaxSignals      \* bound: signals sent to the process

ASSUME ServiceAssumption ==
    /\ ChangeModes \subseteq BOOLEAN
    /\ SpuriousWakes \subseteq BOOLEAN
    /\ MaxSignals \in Nat

Thread == {"main", "sighandler", "offer", "notify", "fifo"}

Flag == {"running", "blocked", "is_offered"}

\* mutex_, notify_mutex_ and sighandler_mutex.
Mutex == {"init", "notify", "sighandler"}

VARIABLES
    pc,         \* where each thread is
    flag,       \* running_, blocked_, is_offered_
    owner,      \* the thread holding each mutex, or "free"
    signal,     \* stop_application, stop_sighandler; external: SIGTERM pending, sent;
                \* history: the state the first one met
    app,        \* payload_ exists; external: the service is offered, stop() was called
    late,       \* history: offer_service calls after stop_offer_service, and events sent
                \* while the service was not offered; each counts to 2, one too many
    outcome,    \* external: how the process ended, "alive" while it has not
    env         \* the environment of the process, constant

vars == <<pc, flag, owner, signal, app, late, outcome, env>>

Init ==
    /\ pc = [main |-> "init", sighandler |-> "masked",
             offer |-> "unborn", notify |-> "unborn", fifo |-> "unborn"]
    /\ flag \in [Flag -> BOOLEAN]       \* uninitialised members
    /\ owner = [m \in Mutex |-> "free"]
    /\ signal = [application |-> FALSE, sighandler |-> FALSE, pending |-> FALSE, sent |-> 0,
                  first |-> "none"]
    /\ app = [payload |-> FALSE, offered |-> FALSE, stopped |-> FALSE]
    /\ late = [offers |-> 0, events |-> 0]
    /\ outcome = "alive"
    /\ env \in [changeMode : ChangeModes, spurious : SpuriousWakes]
------------------------------------------------------------------------------
(* What a step of a thread can be.  Each goes from point p to point q.      *)

Goto(t, p, q) ==
    /\ outcome = "alive"
    /\ pc[t] = p
    /\ pc' = [pc EXCEPT ![t] = q]

Move(t, p, q) ==
    /\ Goto(t, p, q)
    /\ UNCHANGED <<flag, owner, signal, app, late, outcome, env>>

SetFlag(t, p, q, f, value) ==
    /\ Goto(t, p, q)
    /\ flag' = [flag EXCEPT ![f] = value]
    /\ UNCHANGED <<owner, signal, app, late, outcome, env>>

Lock(t, p, q, m) ==
    /\ Goto(t, p, q)
    /\ owner[m] = "free"
    /\ owner' = [owner EXCEPT ![m] = t]
    /\ UNCHANGED <<flag, signal, app, late, outcome, env>>

\* Unlocks m; also the entry of a condition variable's wait, which releases m.
Unlock(t, p, q, m) ==
    /\ Goto(t, p, q)
    /\ owner' = [owner EXCEPT ![m] = "free"]
    /\ UNCHANGED <<flag, signal, app, late, outcome, env>>

SetApp(t, p, q, part, value) ==
    /\ Goto(t, p, q)
    /\ app' = [app EXCEPT ![part] = value]
    /\ UNCHANGED <<flag, owner, signal, late, outcome, env>>

\* Where thread t goes on when the condition variable it waits on is notified;
\* a notification is lost on a thread that is not waiting.
Woken(t) ==
    CASE pc[t] = "wait"        -> "woken"
      [] pc[t] = "waitBlocked" -> "wokenBlocked"
      [] pc[t] = "waitOffered" -> "wokenOffered"
      [] OTHER                 -> pc[t]

NotifyOne(t, p, q, w) ==
    /\ outcome = "alive"
    /\ pc[t] = p
    /\ pc' = [pc EXCEPT ![t] = q, ![w] = Woken(w)]
    /\ UNCHANGED <<flag, owner, signal, app, late, outcome, env>>

\* std::thread's constructor: thread w starts at point first.
StartThread(p, q, w, first) ==
    /\ outcome = "alive"
    /\ pc["main"] = p
    /\ pc' = [pc EXCEPT !["main"] = q, ![w] = first]
    /\ UNCHANGED <<flag, owner, signal, app, late, outcome, env>>

\* The process ends while thread t is at point p.
End(t, p, result) ==
    /\ outcome = "alive"
    /\ pc[t] = p
    /\ outcome' = result
    /\ UNCHANGED <<pc, flag, owner, signal, app, late, env>>
------------------------------------------------------------------------------
(* main: init() under mutex_, start(), the end of the process               *)

\* Faulty: is_offered_ is left as it was.
NoInitOffered == Move("main", "is_offered", "offerThread")

InitBegin         == Lock("main", "init", IF env.changeMode THEN "fifo" ELSE "running", "init")
StartFifo         == StartThread("fifo", "running", "fifo", "testBlocked")
InitRunning       == SetFlag("main", "running", "blocked", "running", TRUE)
InitBlocked       == SetFlag("main", "blocked", "is_offered", "blocked", FALSE)
InitOffered       == SetFlag("main", "is_offered", "offerThread", "is_offered", FALSE)
StartOfferThread  == StartThread("offerThread", "notifyThread", "offer", "lock")
StartNotifyThread == StartThread("notifyThread", "payload", "notify", "lock")
CreatePayload     == SetApp("main", "payload", "unblock", "payload", TRUE)
Unblock           == SetFlag("main", "unblock", "wakeOffer", "blocked", TRUE)
\* condition_ and fifo_condition_ are notified here, notify_condition_ is not.
WakeOffer         == NotifyOne("main", "wakeOffer",
                               IF env.changeMode THEN "wakeFifo" ELSE "return", "offer")
WakeFifo          == NotifyOne("main", "wakeFifo", "return", "fifo")
InitReturn        == Unlock("main", "return", "start", "init")

\* app_->start() returns when the application was stopped.
StartReturns == app.stopped /\ Move("main", "start", "join")

\* sighandler_thread.join() and return 0.  The destructor of a service_sample
\* whose fifo_thread_ was never joined calls std::terminate.
MainReturns ==
    /\ pc["sighandler"] = "ended"
    /\ End("main", "join", IF pc["fifo"] = "unborn" THEN "exit0" ELSE "terminate")

\* app_->init() fails: main locks sighandler_mutex, sets the flag, notifies,
\* and joins the thread with the mutex still locked.
InitFails == Lock("main", "init", "failed", "sighandler")

FailedStop ==
    /\ outcome = "alive"
    /\ pc["main"] = "failed"
    /\ pc' = [pc EXCEPT !["main"] = "failedJoin", !["sighandler"] = Woken("sighandler")]
    /\ signal' = [signal EXCEPT !.sighandler = TRUE]
    /\ UNCHANGED <<flag, owner, app, late, outcome, env>>

FailedReturns == pc["sighandler"] = "ended" /\ End("main", "failedJoin", "exit1")

MainStep ==
    \/ InitBegin \/ StartFifo \/ InitRunning \/ InitBlocked \/ InitOffered
    \/ StartOfferThread \/ StartNotifyThread \/ CreatePayload \/ Unblock
    \/ WakeOffer \/ WakeFifo \/ InitReturn \/ StartReturns \/ MainReturns
    \/ InitFails \/ FailedStop \/ FailedReturns
------------------------------------------------------------------------------
(* sighandler: the lambda of main, handle_signal, stop()                    *)

\* Signals are unblocked before the handler is installed: one that is pending
\* by then meets the default action.
Unmask         == Move("sighandler", "masked", "unmasked")
InstallHandler == ~signal.pending /\ Move("sighandler", "unmasked", "loop")
KilledBySignal == signal.pending /\ End("sighandler", "unmasked", "killed")

\* handle_signal runs on this thread, wherever it is: it sets stop_application and
\* then needs the recursive sighandler_mutex.  Only main can keep it from it, and
\* never unlocks it: then the thread does not get out of the handler again.
HandleSignal ==
    /\ outcome = "alive"
    /\ signal.pending
    /\ pc["sighandler"] \notin {"masked", "unmasked", "blocked", "ended"}
    /\ signal' = [signal EXCEPT !.pending = FALSE, !.application = TRUE]
    /\ pc' = [pc EXCEPT !["sighandler"] =
                 IF owner["sighandler"] = "main" THEN "blocked" ELSE Woken("sighandler")]
    /\ UNCHANGED <<flag, owner, app, late, outcome, env>>

SighandlerLoop == Move("sighandler", "loop", IF signal.sighandler THEN "ended" ELSE "lock")
SighandlerLock == Lock("sighandler", "lock", "enter", "sighandler")
\* The wait comes before the first look at stop_application.
SighandlerWait == Unlock("sighandler", "enter", "wait", "sighandler")
SighandlerWake == Lock("sighandler", "woken", "check", "sighandler")
SighandlerGoOn == ~signal.application /\ Unlock("sighandler", "check", "loop", "sighandler")
SighandlerStop == signal.application /\ Move("sighandler", "check", "stopRunning")

\* Faulty: running_ stays set.
NoStopRunning == Move("sighandler", "stopRunning", "stopBlocked")

StopRunning  == SetFlag("sighandler", "stopRunning", "stopBlocked", "running", FALSE)
StopBlocked  == SetFlag("sighandler", "stopBlocked", "wakeRun", "blocked", TRUE)
\* Notified without the mutex under which the condition is tested.
StopWakeRun    == NotifyOne("sighandler", "wakeRun", "wakeNotify", "offer")
StopWakeNotify == NotifyOne("sighandler", "wakeNotify", "stopOffer", "notify")
StopOffer    == SetApp("sighandler", "stopOffer", "clearOffered", "offered", FALSE)
ClearOffered == SetFlag("sighandler", "clearOffered", "joinOffer", "is_offered", FALSE)
JoinOffer    == pc["offer"] = "ended" /\ Move("sighandler", "joinOffer", "joinNotify")
JoinNotify   == pc["notify"] = "ended" /\ Move("sighandler", "joinNotify", "stopApp")
\* clear_all_handler, app_->stop(); the thread keeps sighandler_mutex to its end.
StopApp      == SetApp("sighandler", "stopApp", "unlock", "stopped", TRUE)
StopReturns  == Unlock("sighandler", "unlock", "ended", "sighandler")

\* join of a thread init has not started yet throws, and nobody catches.  (The
\* notify thread exists when the offer thread has ended: it needed mutex_.)
JoinThrows == pc["offer"] = "unborn" /\ End("sighandler", "joinOffer", "terminate")

SighandlerStep ==
    \/ Unmask \/ InstallHandler \/ KilledBySignal \/ HandleSignal
    \/ SighandlerLoop \/ SighandlerLock \/ SighandlerWait \/ SighandlerWake
    \/ SighandlerGoOn \/ SighandlerStop
    \/ StopRunning \/ StopBlocked \/ StopWakeRun \/ StopWakeNotify
    \/ StopOffer \/ ClearOffered \/ JoinOffer \/ JoinNotify \/ JoinThrows
    \/ StopApp \/ StopReturns
------------------------------------------------------------------------------
(* offer: run() and offer()                                                 *)

\* Faulty: run() does not take mutex_; it offers without a look at running_;
\* offer() does not take notify_mutex_.
RunNoLock   == Move("offer", "lock", "testBlocked")
OfferAlways == Move("offer", "loop", "lockNotify")
OfferNoLock == Move("offer", "lockNotify", "offerService")

RunLock == Lock("offer", "lock", "testBlocked", "init")
RunTest == Move("offer", "testBlocked", IF flag["blocked"] THEN "loop" ELSE "enter")
RunWait == Unlock("offer", "enter", "wait", "init")
RunWake == Lock("offer", "woken", "testBlocked", "init")
\* while (running_) offer(): a busy loop.
RunLoop == flag["running"] /\ Move("offer", "loop", "lockNotify")
RunEnd  == ~flag["running"] /\ Unlock("offer", "loop", "ended", "init")

OfferLock == Lock("offer", "lockNotify", "offerService", "notify")

OfferService ==
    /\ Goto("offer", "offerService", "setOffered")
    /\ app' = [app EXCEPT !["offered"] = TRUE]
    /\ late' = IF pc["sighandler"] \in {"clearOffered", "joinOffer"} /\ late.offers < 2
               THEN [late EXCEPT !.offers = @ + 1] ELSE late
    /\ UNCHANGED <<flag, owner, signal, outcome, env>>

OfferSet    == SetFlag("offer", "setOffered", "wakeNotify", "is_offered", TRUE)
OfferNotify == NotifyOne("offer", "wakeNotify", "unlock", "notify")
OfferUnlock == Unlock("offer", "unlock", "loop", "notify")

OfferStep ==
    \/ RunLock \/ RunTest \/ RunWait \/ RunWake \/ RunLoop \/ RunEnd
    \/ OfferLock \/ OfferService \/ OfferSet \/ OfferNotify \/ OfferUnlock
------------------------------------------------------------------------------
(* notify: notify()                                                         *)

\* Faulty: the notify thread waits on the offer thread's condition variable.
WaitOnCondition == Unlock("notify", "enterBlocked", "wait", "notify")

NotifyLock     == Lock("notify", "lock", "testBlocked", "notify")
NotifyTest     == Move("notify", "testBlocked",
                       IF flag["blocked"] THEN "outer" ELSE "enterBlocked")
NotifyWait     == Unlock("notify", "enterBlocked", "waitBlocked", "notify")
NotifyWake     == Lock("notify", "wokenBlocked", "testBlocked", "notify")
NotifyLoop     == flag["running"] /\ Move("notify", "outer", "testOffered")
NotifyEnd      == ~flag["running"] /\ Unlock("notify", "outer", "ended", "notify")
OfferedTest    == Move("notify", "testOffered",
                       IF ~flag["is_offered"] /\ flag["running"]
                       THEN "enterOffered" ELSE "inner")
OfferedWait    == Unlock("notify", "enterOffered", "waitOffered", "notify")
OfferedWake    == Lock("notify", "wokenOffered", "testOffered", "notify")
InnerTest      == Move("notify", "inner",
                       IF flag["is_offered"] /\ flag["running"] THEN "send" ELSE "outer")
\* payload_->set_data and app_->notify; sleep_for with notify_mutex_ held.
Send ==
    /\ Goto("notify", "send", "sleep")
    /\ late' = IF ~app.offered /\ late.events < 2
               THEN [late EXCEPT !.events = @ + 1] ELSE late
    /\ UNCHANGED <<flag, owner, signal, app, outcome, env>>
Sleep          == Move("notify", "sleep", "inner")

NotifyStep ==
    \/ NotifyLock \/ NotifyTest \/ NotifyWait \/ NotifyWake \/ NotifyLoop \/ NotifyEnd
    \/ OfferedTest \/ OfferedWait \/ OfferedWake \/ InnerTest \/ Send \/ Sleep
------------------------------------------------------------------------------
(* fifo: listen_fifo(); its mutex is shared with nobody                     *)

FifoTest  == Move("fifo", "testBlocked", IF flag["blocked"] THEN "loop" ELSE "enter")
FifoWait  == Move("fifo", "enter", "wait")
FifoWake  == Move("fifo", "woken", "testBlocked")
FifoLoop  == Move("fifo", "loop", IF flag["running"] THEN "open" ELSE "ended")
\* external: open() returns once there is a writer; the mode is read.
FifoRead  == Move("fifo", "open", "loop")

FifoStep == FifoTest \/ FifoWait \/ FifoWake \/ FifoLoop
------------------------------------------------------------------------------
(* The environment: signals, and condition variables that wake early        *)

Started == pc["main"] = "start"

\* The service is up: init is over, it was offered, the handler waits.
Settled == Started /\ pc["sighandler"] = "wait" /\ flag["is_offered"]

SendSignal ==
    /\ outcome = "alive"
    /\ signal.sent < MaxSignals
    /\ signal' = [signal EXCEPT !.pending = TRUE, !.sent = @ + 1,
                     !.first = IF @ # "none" THEN @
                               ELSE CASE Settled -> "settled"
                                      [] Started /\ ~Settled -> "started"
                                      [] OTHER -> "early"]
    /\ UNCHANGED <<pc, flag, owner, app, late, outcome, env>>

SpuriousWake ==
    /\ env.spurious
    /\ \E t \in Thread :
          pc[t] \in {"wait", "waitBlocked", "waitOffered"} /\ Move(t, pc[t], Woken(t))

\* The process has ended.
Ended == outcome # "alive" /\ UNCHANGED vars

Next ==
    \/ MainStep \/ SighandlerStep \/ OfferStep \/ NotifyStep \/ FifoStep
    \/ FifoRead \/ SendSignal \/ SpuriousWake \/ Ended

Spec == Init /\ [][Next]_vars

\* The kernel schedules every thread that can run; a mutex is not fair.
Fairness ==
    /\ WF_vars(MainStep)
    /\ WF_vars(SighandlerStep)
    /\ WF_vars(OfferStep)
    /\ WF_vars(NotifyStep)

FairSpec == Spec /\ Fairness
------------------------------------------------------------------------------
InitPoint == {"init", "fifo", "running", "blocked", "is_offered", "offerThread",
              "notifyThread", "payload", "unblock", "wakeOffer", "wakeFifo", "return"}
MainPoint == InitPoint \cup {"start", "join", "failed", "failedJoin"}
StopPoint == {"stopRunning", "stopBlocked", "wakeRun", "wakeNotify", "stopOffer",
              "clearOffered", "joinOffer", "joinNotify", "stopApp", "unlock"}
SighandlerPoint == StopPoint \cup
    {"masked", "unmasked", "loop", "lock", "enter", "wait", "woken", "check", "blocked",
     "ended"}
OfferPoint == {"unborn", "lock", "testBlocked", "enter", "wait", "woken", "loop",
               "lockNotify", "offerService", "setOffered", "wakeNotify", "unlock", "ended"}
NotifyPoint == {"unborn", "lock", "testBlocked", "enterBlocked", "waitBlocked",
                "wokenBlocked", "outer", "testOffered", "enterOffered",
                "waitOffered", "wokenOffered", "inner", "send", "sleep", "ended"}
FifoPoint == {"unborn", "testBlocked", "enter", "wait", "woken", "loop", "open", "ended"}

TypeOK ==
    /\ pc \in [main : MainPoint, sighandler : SighandlerPoint, offer : OfferPoint,
               notify : NotifyPoint, fifo : FifoPoint]
    /\ flag \in [Flag -> BOOLEAN]
    /\ owner \in [Mutex -> Thread \cup {"free"}]
    /\ signal \in [application : BOOLEAN, sighandler : BOOLEAN, pending : BOOLEAN,
                   sent : 0 .. MaxSignals,
                   first : {"none", "early", "started", "settled"}]
    /\ app \in [payload : BOOLEAN, offered : BOOLEAN, stopped : BOOLEAN]
    /\ late \in [offers : 0 .. 2, events : 0 .. 2]
    /\ outcome \in {"alive", "exit0", "exit1", "killed", "terminate"}
    /\ env \in [changeMode : BOOLEAN, spurious : BOOLEAN]

\* stop() has begun.
Stopping == pc["sighandler"] \in StopPoint \cup {"ended"}

\* payload_ exists whenever the notify thread uses it, although init starts the
\* thread before it creates the payload and stop() may set the flags meanwhile.
PayloadBeforeSend == pc["notify"] = "send" => app.payload

\* No event is sent for a service that is not offered before stop() begins, and
\* only one after that: the one for which notify() tested the flags just before
\* stop() changed them.  (As below, a stop() that overtakes init() is another matter.)
SendOnlyOffered ==
    late.events > 0 => Stopping /\ (signal.first # "early" => late.events = 1)

\* The offer thread can offer the service again after stop() withdrew it (it
\* waits for notify_mutex_ in the middle of its loop), but at most once: the
\* loop tests running_ before every offer.  (A stop() that overtakes init() is
\* another matter: init sets running_ again.)
AtMostOneLateOffer == signal.first # "early" => late.offers <= 1

\* No wakeup is lost between offer() and notify(): a notify thread that waits
\* although the service is offered is about to be notified by the offer thread.
NoLostOffer ==
    pc["notify"] \in {"waitBlocked", "waitOffered"} /\ flag["is_offered"] =>
        pc["offer"] = "wakeNotify"

\* A member comment: the flags are assigned before any thread starts.
FlagsBeforeThreads ==
    pc["main"] \in {"init", "fifo", "running", "blocked", "is_offered"} =>
        \A t \in {"offer", "notify", "fifo"} : pc[t] = "unborn"

\* A stop() that begins after init() is never stuck in the join of the offer
\* thread: wherever that thread is, it gets notify_mutex_ once the notify
\* thread has seen running_.
OfferThreadJoins ==
    pc["sighandler"] = "joinOffer" /\ signal.first # "early"
        ~> pc["sighandler"] = "joinNotify"

\* A settled service that gets SIGTERM, on a system without spurious wakeups,
\* stops, and main returns 0.  With operation modes the process ends too, but in
\* std::terminate: nobody joins the fifo thread.
CleanShutdown ==
    signal.pending /\ signal.first = "settled" /\ ~env.spurious
        ~> outcome = IF env.changeMode THEN "terminate" ELSE "exit0"

\* SIGTERM ends a process that was started.
SignalEndsProcess == signal.pending /\ Started ~> outcome # "alive"
==============================================================================
