------------------------- MODULE VsomeipService_proof -------------------------
(***************************************************************************)
(* Proofs about VsomeipService, for any number of signals, with and        *)
(* without operation modes and spurious wakeups.                           *)
(***************************************************************************)
EXTENDS VsomeipService, TLAPS

\* Before init() has assigned the flags, and after app_->init() failed.
Unassigned == {"init", "fifo", "running", "blocked", "is_offered", "failed",
        "failedJoin"}

\* run() in its loop, and after it.
Offering == {"loop", "lockNotify", "offerService", "setOffered", "wakeNotify",
        "unlock", "ended"}

\* stop() has withdrawn the service.
Withdrawn == pc["sighandler"] \in {"clearOffered", "joinOffer", "joinNotify", "stopApp",
                                   "unlock", "ended"}

\* Who holds a mutex is where the code holds it.
Locks ==
    /\ owner["init"] = "main" <=> pc["main"] \in InitPoint \ {"init"}
    /\ owner["init"] = "offer" <=>
           pc["offer"] \in (Offering \ {"ended"}) \cup {"testBlocked", "enter"}
    /\ owner["notify"] = "offer" <=>
           pc["offer"] \in {"offerService", "setOffered", "wakeNotify", "unlock"}
    /\ owner["notify"] = "notify" <=>
           pc["notify"] \in {"testBlocked", "enterBlocked", "outer", "testOffered",
                             "enterOffered", "inner", "send", "sleep"}
    /\ owner["sighandler"] = "sighandler" <=>
           pc["sighandler"] \in StopPoint \cup {"enter", "check"}

\* A thread runs only after main started it; the offer thread comes to its loop only
\* after init() has returned, and never leaves it for the wait before it.
Threads ==
    /\ pc["main"] \in Unassigned \cup {"offerThread"} => pc["offer"] = "unborn"
    /\ pc["main"] \in Unassigned \cup {"offerThread", "notifyThread"} =>
           pc["notify"] = "unborn"
    /\ pc["offer"] \notin {"unborn", "lock"} => pc["main"] \in {"start", "join"}
    /\ pc["offer"] \in Offering => flag["blocked"]

\* What stands behind is_offered_ once it is assigned.
Offered ==
    /\ pc["main"] \in {"unblock", "wakeOffer", "wakeFifo", "return", "start", "join"} =>
           app.payload
    /\ pc["main"] \notin Unassigned /\ flag["is_offered"] =>
           pc["offer"] \in Offering /\ (Withdrawn \/ app.offered)
    /\ pc["offer"] = "setOffered" => Withdrawn \/ app.offered
    /\ pc["notify"] = "send" => app.payload /\ (Withdrawn \/ app.offered)

\* The notify thread goes to sleep only while the service is not offered.
Waits ==
    /\ pc["notify"] \in {"enterBlocked", "enterOffered"} => ~flag["is_offered"]
    /\ NoLostOffer

\* What the first signal met decides what stop() can rely on.
Signals ==
    /\ signal.pending \/ signal.application => signal.first # "none"
    /\ pc["sighandler"] \in StopPoint => signal.application
    /\ signal.first \in {"started", "settled"} => pc["main"] \in {"start", "join"}
    /\ \/ pc["sighandler"] \in StopPoint \ {"stopRunning"}
       \/ pc["sighandler"] = "ended" /\ signal.application
       => (signal.first # "early" => ~flag["running"])
    /\ signal.sighandler => pc["main"] = "failedJoin"
    /\ pc["sighandler"] = "ended" => signal.application \/ pc["main"] = "failedJoin"
    /\ late.offers > 0 => signal.application /\ Withdrawn
    /\ late.offers > 0 /\ signal.first # "early" =>
           /\ late.offers = 1
           /\ ~flag["running"]
           /\ pc["offer"] \in {"setOffered", "wakeNotify", "unlock", "loop", "ended"}
    /\ late.events > 0 => signal.application /\ Withdrawn
    /\ late.events > 0 /\ signal.first # "early" =>
           /\ late.events = 1
           /\ ~flag["running"]
           /\ pc["notify"] # "send"

\* The inductive invariant.
IInv == TypeOK /\ Locks /\ Threads /\ Offered /\ Waits /\ Signals

AppType == [payload : BOOLEAN, offered : BOOLEAN, stopped : BOOLEAN]
SignalType == [application : BOOLEAN, sighandler : BOOLEAN, pending : BOOLEAN,
               sent : 0 .. MaxSignals,
               first : {"none", "early", "started", "settled"}]

\* What an assignment to one part of app leaves alone.
LEMMA AppParts ==
    ASSUME NEW a \in AppType, NEW value \in BOOLEAN
    PROVE  /\ LET b == [a EXCEPT !["payload"] = value]
              IN  b \in AppType /\ b.payload = value /\ b.offered = a.offered
           /\ LET b == [a EXCEPT !["offered"] = value]
              IN  b \in AppType /\ b.offered = value /\ b.payload = a.payload
           /\ LET b == [a EXCEPT !["stopped"] = value]
              IN  b \in AppType /\ b.payload = a.payload /\ b.offered = a.offered
BY DEF AppType

\* What a signal, or its handling, leaves alone.
LEMMA SignalParts ==
    ASSUME NEW a \in SignalType
    PROVE  /\ LET b == [a EXCEPT !.pending = FALSE, !.application = TRUE]
              IN  b \in SignalType /\ b.application /\ ~b.pending /\ b.first = a.first
           /\ LET b == [a EXCEPT !.sighandler = TRUE]
              IN  /\ b \in SignalType
                  /\ b.application = a.application
                  /\ b.pending = a.pending
                  /\ b.first = a.first
BY DEF SignalType

\* main, one case per step of init(), start() and the end of the process.
LEMMA MainKept ==
    ASSUME IInv, MainStep
    PROVE  IInv'
<1> USE DEF IInv, TypeOK, Locks, Threads, Offered, Waits, Signals, NoLostOffer,
        Unassigned, Offering, Withdrawn, Stopping, Thread, Flag, Mutex, InitPoint, MainPoint,
        StopPoint, SighandlerPoint, OfferPoint, NotifyPoint, FifoPoint
<1>1. CASE InitBegin
    BY <1>1 DEF InitBegin, Lock, Goto
<1>2. CASE StartFifo
    BY <1>2 DEF StartFifo, StartThread
<1>3. CASE InitRunning
    BY <1>3 DEF InitRunning, SetFlag, Goto
<1>4. CASE InitBlocked
    BY <1>4 DEF InitBlocked, SetFlag, Goto
<1>5. CASE InitOffered
    BY <1>5 DEF InitOffered, SetFlag, Goto
<1>6. CASE StartOfferThread
    BY <1>6 DEF StartOfferThread, StartThread
<1>7. CASE StartNotifyThread
    BY <1>7 DEF StartNotifyThread, StartThread
<1>8. CASE CreatePayload
    <2>1. app \in AppType /\ app' = [app EXCEPT !["payload"] = TRUE]
        BY <1>8 DEF CreatePayload, AppType, SetApp
    <2>2. /\ app' \in AppType
          /\ app'.payload
          /\ app'.offered = app.offered
        BY ONLY <2>1, AppParts
    <2> QED
        BY <1>8, <2>2 DEF AppType, CreatePayload, SetApp, Goto
<1>9. CASE Unblock
    BY <1>9 DEF Unblock, SetFlag, Goto
<1>10. CASE WakeOffer
    BY <1>10 DEF WakeOffer, NotifyOne, Woken
<1>11. CASE WakeFifo
    BY <1>11 DEF WakeFifo, NotifyOne, Woken
<1>12. CASE InitReturn
    BY <1>12 DEF InitReturn, Unlock, Goto
<1>13. CASE StartReturns
    BY <1>13 DEF StartReturns, Move, Goto
<1>14. CASE MainReturns
    BY <1>14 DEF MainReturns, End
<1>15. CASE InitFails
    BY <1>15 DEF InitFails, Lock, Goto
<1>16. CASE FailedStop
    <2>1. signal \in SignalType /\ signal' = [signal EXCEPT !.sighandler = TRUE]
        BY <1>16 DEF FailedStop, SignalType
    <2>2. /\ signal' \in SignalType
          /\ signal'.application = signal.application
          /\ signal'.pending = signal.pending
          /\ signal'.first = signal.first
        BY ONLY <2>1, SignalParts
    <2> QED
        BY <1>16, <2>2 DEF SignalType, FailedStop, Woken
<1>17. CASE FailedReturns
    BY <1>17 DEF FailedReturns, End
<1> QED
    BY ONLY MainStep, <1>1, <1>2, <1>3, <1>4, <1>5, <1>6, <1>7, <1>8, <1>9, <1>10,
       <1>11, <1>12, <1>13, <1>14, <1>15, <1>16, <1>17 DEF MainStep

\* The signal thread, one case per step of its loop and of stop().
LEMMA SighandlerKept ==
    ASSUME IInv, SighandlerStep
    PROVE  IInv'
<1> USE DEF IInv, TypeOK, Locks, Threads, Offered, Waits, Signals, NoLostOffer,
        Unassigned, Offering, Withdrawn, Stopping, Thread, Flag, Mutex, InitPoint, MainPoint,
        StopPoint, SighandlerPoint, OfferPoint, NotifyPoint, FifoPoint
<1>1. CASE Unmask
    BY <1>1 DEF Unmask, Move, Goto
<1>2. CASE InstallHandler
    BY <1>2 DEF InstallHandler, Move, Goto
<1>3. CASE KilledBySignal
    BY <1>3 DEF KilledBySignal, End
<1>4. CASE HandleSignal
    <2>1. /\ signal \in SignalType
          /\ signal' = [signal EXCEPT !.pending = FALSE, !.application = TRUE]
        BY <1>4 DEF HandleSignal, SignalType
    <2>2. /\ signal' \in SignalType
          /\ signal'.application /\ ~signal'.pending /\ signal'.first = signal.first
        BY ONLY <2>1, SignalParts
    <2>3. CASE owner["sighandler"] = "main"
        BY <1>4, <2>2, <2>3 DEF SignalType, HandleSignal
    <2>4. CASE owner["sighandler"] # "main"
        BY <1>4, <2>2, <2>4 DEF SignalType, HandleSignal, Woken
    <2> QED
        BY <2>3, <2>4
<1>5. CASE SighandlerLoop
    BY <1>5 DEF SighandlerLoop, Move, Goto
<1>6. CASE SighandlerLock
    BY <1>6 DEF SighandlerLock, Lock, Goto
<1>7. CASE SighandlerWait
    BY <1>7 DEF SighandlerWait, Unlock, Goto
<1>8. CASE SighandlerWake
    BY <1>8 DEF SighandlerWake, Lock, Goto
<1>9. CASE SighandlerGoOn
    BY <1>9 DEF SighandlerGoOn, Unlock, Goto
<1>10. CASE SighandlerStop
    BY <1>10 DEF SighandlerStop, Move, Goto
<1>11. CASE StopRunning
    BY <1>11 DEF StopRunning, SetFlag, Goto
<1>12. CASE StopBlocked
    BY <1>12 DEF StopBlocked, SetFlag, Goto
<1>13. CASE StopWakeRun
    BY <1>13 DEF StopWakeRun, NotifyOne, Woken
<1>14. CASE StopWakeNotify
    BY <1>14 DEF StopWakeNotify, NotifyOne, Woken
<1>15. CASE StopOffer
    <2>1. app \in AppType /\ app' = [app EXCEPT !["offered"] = FALSE]
        BY <1>15 DEF StopOffer, AppType, SetApp
    <2>2. /\ app' \in AppType
          /\ app'.payload = app.payload
          /\ app'.offered = FALSE
        BY ONLY <2>1, AppParts
    <2> QED
        BY <1>15, <2>2 DEF AppType, StopOffer, SetApp, Goto
<1>16. CASE ClearOffered
    BY <1>16 DEF ClearOffered, SetFlag, Goto
<1>17. CASE JoinOffer
    BY <1>17 DEF JoinOffer, Move, Goto
<1>18. CASE JoinNotify
    BY <1>18 DEF JoinNotify, Move, Goto
<1>19. CASE JoinThrows
    BY <1>19 DEF JoinThrows, End
<1>20. CASE StopApp
    <2>1. app \in AppType /\ app' = [app EXCEPT !["stopped"] = TRUE]
        BY <1>20 DEF StopApp, AppType, SetApp
    <2>2. /\ app' \in AppType
          /\ app'.payload = app.payload
          /\ app'.offered = app.offered
        BY ONLY <2>1, AppParts
    <2> QED
        BY <1>20, <2>2 DEF AppType, StopApp, SetApp, Goto
<1>21. CASE StopReturns
    BY <1>21 DEF StopReturns, Unlock, Goto
<1> QED
    BY ONLY SighandlerStep, <1>1, <1>2, <1>3, <1>4, <1>5, <1>6, <1>7, <1>8, <1>9,
       <1>10, <1>11, <1>12, <1>13, <1>14, <1>15, <1>16, <1>17, <1>18, <1>19, <1>20,
       <1>21 DEF SighandlerStep

\* run() and offer().
LEMMA OfferKept ==
    ASSUME IInv, OfferStep
    PROVE  IInv'
<1> USE DEF IInv, TypeOK, Locks, Threads, Offered, Waits, Signals, NoLostOffer,
        Unassigned, Offering, Withdrawn, Stopping, Thread, Flag, Mutex, InitPoint, MainPoint,
        StopPoint, SighandlerPoint, OfferPoint, NotifyPoint, FifoPoint
<1>1. CASE RunLock
    BY <1>1 DEF RunLock, Lock, Goto
<1>2. CASE RunTest
    BY <1>2 DEF RunTest, Move, Goto
<1>3. CASE RunWait
    BY <1>3 DEF RunWait, Unlock, Goto
<1>4. CASE RunWake
    BY <1>4 DEF RunWake, Lock, Goto
<1>5. CASE RunLoop
    BY <1>5 DEF RunLoop, Move, Goto
<1>6. CASE RunEnd
    BY <1>6 DEF RunEnd, Unlock, Goto
<1>7. CASE OfferLock
    BY <1>7 DEF OfferLock, Lock, Goto
<1>8. CASE OfferService
    <2>1. app \in AppType /\ app' = [app EXCEPT !["offered"] = TRUE]
        BY <1>8 DEF OfferService, AppType
    <2>2. /\ app' \in AppType
          /\ app'.payload = app.payload
          /\ app'.offered = TRUE
        BY ONLY <2>1, AppParts
    <2> QED
        BY <1>8, <2>2 DEF AppType, OfferService, Goto
<1>9. CASE OfferSet
    BY <1>9 DEF OfferSet, SetFlag, Goto
<1>10. CASE OfferNotify
    BY <1>10 DEF OfferNotify, NotifyOne, Woken
<1>11. CASE OfferUnlock
    BY <1>11 DEF OfferUnlock, Unlock, Goto
<1> QED
    BY ONLY OfferStep, <1>1, <1>2, <1>3, <1>4, <1>5, <1>6, <1>7, <1>8, <1>9, <1>10,
       <1>11 DEF OfferStep

\* notify().
LEMMA NotifyKept ==
    ASSUME IInv, NotifyStep
    PROVE  IInv'
<1> USE DEF IInv, TypeOK, Locks, Threads, Offered, Waits, Signals, NoLostOffer,
        Unassigned, Offering, Withdrawn, Stopping, Thread, Flag, Mutex, InitPoint, MainPoint,
        StopPoint, SighandlerPoint, OfferPoint, NotifyPoint, FifoPoint
<1>1. CASE NotifyLock
    BY <1>1 DEF NotifyLock, Lock, Goto
<1>2. CASE NotifyTest
    BY <1>2 DEF NotifyTest, Move, Goto
<1>3. CASE NotifyWait
    BY <1>3 DEF NotifyWait, Unlock, Goto
<1>4. CASE NotifyWake
    BY <1>4 DEF NotifyWake, Lock, Goto
<1>5. CASE NotifyLoop
    BY <1>5 DEF NotifyLoop, Move, Goto
<1>6. CASE NotifyEnd
    BY <1>6 DEF NotifyEnd, Unlock, Goto
<1>7. CASE OfferedTest
    BY <1>7 DEF OfferedTest, Move, Goto
<1>8. CASE OfferedWait
    BY <1>8 DEF OfferedWait, Unlock, Goto
<1>9. CASE OfferedWake
    BY <1>9 DEF OfferedWake, Lock, Goto
<1>10. CASE InnerTest
    BY <1>10 DEF InnerTest, Move, Goto
<1>11. CASE Send
    <2>1. late.offers \in 0 .. 2 /\ late.events \in 0 .. 2
        OBVIOUS
    <2>2. /\ late' \in [offers : 0 .. 2, events : 0 .. 2]
          /\ late'.offers = late.offers
          /\ late'.events = IF ~app.offered /\ late.events < 2
                            THEN late.events + 1 ELSE late.events
        BY <1>11, <2>1 DEF Send
    <2>3. CASE app.offered
        BY <1>11, <2>1, <2>2, <2>3 DEF Send, Goto
    <2>4. CASE ~app.offered
        <3>1. Withdrawn /\ signal.application
            BY <1>11, <2>4 DEF Send, Goto
        <3>2. signal.first # "early" => late.events = 0 /\ ~flag["running"]
            BY <1>11, <2>1, <3>1 DEF Send, Goto
        <3> QED
            BY <1>11, <2>1, <2>2, <2>4, <3>1, <3>2 DEF Send, Goto
    <2> QED
        BY <2>3, <2>4
<1>12. CASE Sleep
    BY <1>12 DEF Sleep, Move, Goto
<1> QED
    BY ONLY NotifyStep, <1>1, <1>2, <1>3, <1>4, <1>5, <1>6, <1>7, <1>8, <1>9, <1>10,
       <1>11, <1>12 DEF NotifyStep

\* listen_fifo(), whose steps touch nothing the others read.
LEMMA FifoKept ==
    ASSUME IInv, FifoStep \/ FifoRead
    PROVE  IInv'
<1> USE DEF IInv, TypeOK, Locks, Threads, Offered, Waits, Signals, NoLostOffer,
        Unassigned, Offering, Withdrawn, Stopping, Thread, Flag, Mutex, InitPoint, MainPoint,
        StopPoint, SighandlerPoint, OfferPoint, NotifyPoint, FifoPoint
<1>1. CASE FifoTest
    BY <1>1 DEF FifoTest, Move, Goto
<1>2. CASE FifoWait
    BY <1>2 DEF FifoWait, Move, Goto
<1>3. CASE FifoWake
    BY <1>3 DEF FifoWake, Move, Goto
<1>4. CASE FifoLoop
    BY <1>4 DEF FifoLoop, Move, Goto
<1>5. CASE FifoRead
    BY <1>5 DEF FifoRead, Move, Goto
<1> QED
    BY <1>1, <1>2, <1>3, <1>4, <1>5 DEF FifoStep

\* A signal that is sent: what it met is recorded once.
LEMMA SignalKept ==
    ASSUME IInv, SendSignal
    PROVE  IInv'
<1> USE DEF IInv, TypeOK, Locks, Threads, Offered, Waits, Signals, NoLostOffer,
        Unassigned, Offering, Withdrawn, Stopping, Thread, Flag, Mutex, InitPoint, MainPoint,
        StopPoint, SighandlerPoint, OfferPoint, NotifyPoint, FifoPoint
<1> DEFINE First == IF signal.first # "none" THEN signal.first
                    ELSE CASE Settled -> "settled"
                           [] Started /\ ~Settled -> "started"
                           [] OTHER -> "early"
<1>1. First \in {"early", "started", "settled"}
    BY DEF Settled, Started
<1>2. First \in {"started", "settled"} =>
          signal.first = First \/ pc["main"] = "start"
    BY DEF Settled, Started
<1>3. signal.first # "none" => First = signal.first
    OBVIOUS
<1>4. signal' = [signal EXCEPT !.pending = TRUE, !.sent = signal.sent + 1,
                               !.first = First]
    BY DEF SendSignal, SignalType
<1> HIDE DEF First
<1>5. /\ signal'.application = signal.application
      /\ signal'.first = First
      /\ signal' \in SignalType
    <2>1. signal.sent + 1 \in 0 .. MaxSignals
        BY ServiceAssumption DEF SendSignal
    <2> QED
        BY ONLY signal \in SignalType, <1>1, <1>4, <2>1 DEF SignalType
<1> QED
    BY <1>1, <1>2, <1>3, <1>5 DEF SendSignal, SignalType

\* A thread that wakes early is at a point the notified one could be at.
LEMMA SpuriousKept ==
    ASSUME IInv, SpuriousWake
    PROVE  IInv'
<1> USE DEF IInv, TypeOK, Locks, Threads, Offered, Waits, Signals, NoLostOffer,
        Unassigned, Offering, Withdrawn, Stopping, Thread, Flag, Mutex, InitPoint, MainPoint,
        StopPoint, SighandlerPoint, OfferPoint, NotifyPoint, FifoPoint
<1>1. PICK t \in Thread : pc[t] \in {"wait", "waitBlocked", "waitOffered"}
                            /\ Move(t, pc[t], Woken(t))
    BY DEF SpuriousWake
<1>2. Woken(t) = CASE pc[t] = "wait" -> "woken"
                   [] pc[t] = "waitBlocked" -> "wokenBlocked"
                   [] pc[t] = "waitOffered" -> "wokenOffered"
                   [] OTHER -> pc[t]
    BY DEF Woken
<1> QED
    BY <1>1, <1>2 DEF Move, Goto

\* The invariant is inductive.
LEMMA NextKept ==
    ASSUME IInv, [Next]_vars
    PROVE  IInv'
<1>1. CASE UNCHANGED vars
    BY <1>1 DEF vars, IInv, TypeOK, Locks, Threads, Offered, Waits, Signals, Withdrawn,
           NoLostOffer, Unassigned, Offering, Stopping, Thread, Flag, Mutex,
           InitPoint, MainPoint, StopPoint, SighandlerPoint, OfferPoint,
           NotifyPoint, FifoPoint
<1>2. CASE Ended
    BY <1>1, <1>2 DEF Ended
<1> QED
    BY <1>1, <1>2, MainKept, SighandlerKept, OfferKept, NotifyKept, FifoKept,
       SignalKept, SpuriousKept DEF Next

\* Every behaviour keeps the inductive invariant.
THEOREM Invariance == Spec => []IInv
<1>1. Init => IInv
    BY ServiceAssumption DEF Init, IInv, TypeOK, Locks, Threads, Offered, Waits,
           Signals, NoLostOffer, Unassigned, Offering, Stopping, Thread, Flag,
           Mutex, InitPoint, MainPoint, StopPoint, SighandlerPoint, OfferPoint,
           NotifyPoint, FifoPoint
<1> QED
    BY <1>1, NextKept, PTL DEF Spec

\* Types, whatever signals arrive.
THEOREM ServiceTypeCorrect == Spec => []TypeOK
<1>1. IInv => TypeOK
    BY DEF IInv
<1> QED
    BY <1>1, Invariance, PTL

\* payload_ exists when the notify thread sets its data (main.cpp:413), although the
\* thread is started before the payload is created.
THEOREM PayloadExists == Spec => []PayloadBeforeSend
<1>1. IInv => PayloadBeforeSend
    BY DEF IInv, Offered, PayloadBeforeSend
<1> QED
    BY <1>1, Invariance, PTL

\* notify() sends only for an offered service until stop() begins, and at most once
\* after stop() has withdrawn it.
THEOREM SentWhileOffered == Spec => []SendOnlyOffered
<1>1. IInv => SendOnlyOffered
    BY DEF IInv, TypeOK, Signals, Withdrawn, Stopping, StopPoint, SendOnlyOffered
<1> QED
    BY <1>1, Invariance, PTL

\* offer() and notify() lose no wakeup between them: is_offered_ is set under
\* notify_mutex_, and the wait entered under it.
THEOREM OfferNotLost == Spec => []NoLostOffer
<1>1. IInv => NoLostOffer
    BY DEF IInv, Waits
<1> QED
    BY <1>1, Invariance, PTL

\* A stop() that begins after init() is followed by at most one more offer.
THEOREM OneLateOffer == Spec => []AtMostOneLateOffer
<1>1. IInv => AtMostOneLateOffer
    BY DEF IInv, TypeOK, Signals, AtMostOneLateOffer
<1> QED
    BY <1>1, Invariance, PTL
==============================================================================
