------------------------------ MODULE EventStream -----------------------------
(***************************************************************************)
(* What a started server of the vsomeip application sends                  *)
(* (generic/main.cpp): notify() numbers the events in the first four bytes *)
(* of the payload, and listen_fifo() switches the operation mode, which    *)
(* changes the cycle time and freezes the number.  The threads' locks and  *)
(* their shutdown are in VsomeipService; here the server is up or down.    *)
(*                                                                         *)
(* operation_mode_ and cycle_ are shared without a lock: each assignment   *)
(* of listen_fifo is a step, and so is each part of notify's loop.         *)
(***************************************************************************)
EXTENDS Naturals, Sequences

CONSTANTS
    Cycles,         \* VSOMEIP_SERVER_CYCLE: the values it may have
    ModeCycle,      \* VSOMEIP_CHANGE_MODE_CYCLE
    Sizes,          \* VSOMEIP_SERVER_DATA_SIZE: the values it may have
    MaxUdp,         \* VSOMEIP_MAX_UDP_MESSAGE_SIZE
    Header,         \* what is kept free of it for headers (160)
    ByteBase,       \* values of a byte (256)
    MaxCounter,     \* the largest uint32_t
    MaxStarts       \* bound: how often the server is started

ASSUME StreamAssumption ==
    /\ Cycles \subseteq Nat
    /\ ModeCycle \in Nat \ {0}
    /\ {Header, ByteBase, MaxCounter, MaxStarts} \subseteq Nat \ {0}
    /\ MaxUdp \in Nat
    /\ MaxUdp > Header
    /\ \A size \in Sizes : size \in Nat /\ size >= 4
    /\ MaxCounter > 1
    /\ MaxCounter < ByteBase * ByteBase * ByteBase * ByteBase

VARIABLES
    config,     \* the environment of the process: cycle, data size
    up,         \* the service is offered
    starts,     \* how often the server was started
    mode,       \* operation_mode_
    cycle,      \* cycle_
    cycleOld,   \* cycle_old_
    fifo,       \* listen_fifo: "open", or "set" before the cycle is set
    notifier,   \* notify: "send", "count" or "sleep"
    counter,    \* its_ctr
    lost,       \* history: entering mode 1 saved something else than the configured cycle
    froze       \* history: the counter was held since the last event

stream == <<config, up, starts, mode, cycle, cycleOld, fifo, notifier,
            counter, lost, froze>>

\* The modes that matter: the initial one, 1, and one that stands for all others,
\* the character "1" among them.
Mode == {0, 1, 49}

StreamInit ==
    /\ config \in [cycle : Cycles, size : Sizes]
    /\ up = FALSE
    /\ starts = 0
    /\ mode = 0
    /\ cycle = config.cycle
    /\ cycleOld = 0
    /\ fifo = "open"
    /\ notifier = "send"
    /\ counter = 1
    /\ lost = FALSE
    /\ froze = FALSE
------------------------------------------------------------------------------
(* The payload                                                              *)

\* Payloads that do not fit a UDP message are segmented by someip-tp.
UseTp == config.size > MaxUdp - Header

\* The counter, its least significant byte first; a segmented payload is zero.
FirstBytes(c) ==
    IF UseTp THEN <<0, 0, 0, 0>>
    ELSE <<c % ByteBase,
           (c \div ByteBase) % ByteBase,
           (c \div (ByteBase * ByteBase)) % ByteBase,
           (c \div (ByteBase * ByteBase * ByteBase)) % ByteBase>>

\* generate_payload makes fragments shorter than those that were counted.
Length ==
    IF UseTp THEN (config.size \div MaxUdp + 1) * (MaxUdp - Header) ELSE config.size

\* Faulty: the highest number is not skipped.
WrapToZero(c) == IF c > MaxCounter THEN 0 ELSE c

\* Skips 0 and the highest number.
Wrap(c) == IF c = MaxCounter THEN 1 ELSE c

Payload == [bytes |-> FirstBytes(Wrap(counter)), length |-> Length]
------------------------------------------------------------------------------
(* notify: the loop while the service is offered                            *)

\* What is sent is Payload.
Send ==
    /\ up
    /\ notifier = "send"
    /\ counter' = Wrap(counter)
    /\ notifier' = "count"
    /\ UNCHANGED <<config, up, starts, mode, cycle, cycleOld, fifo, lost, froze>>

\* Faulty: the counter goes on in every mode.
CountAlways ==
    /\ up
    /\ notifier = "count"
    /\ counter' = counter + 1
    /\ froze' = (mode = 1)
    /\ notifier' = "sleep"
    /\ UNCHANGED <<config, up, starts, mode, cycle, cycleOld, fifo, lost>>

Count ==
    /\ up
    /\ notifier = "count"
    /\ counter' = IF mode # 1 THEN counter + 1 ELSE counter
    /\ froze' = (mode = 1)
    /\ notifier' = "sleep"
    /\ UNCHANGED <<config, up, starts, mode, cycle, cycleOld, fifo, lost>>

Sleep ==
    /\ up
    /\ notifier = "sleep"
    /\ notifier' = "send"
    /\ UNCHANGED <<config, up, starts, mode, cycle, cycleOld, fifo, counter, lost, froze>>
------------------------------------------------------------------------------
(* listen_fifo: the loop over open, read and close                          *)

\* What the stream extraction makes of the byte read.  buffer has no room for a
\* terminator: after white space the extraction goes on behind it; a NUL leaves
\* nothing to extract, and the mode as it was.
Extracted(byte) ==
    CASE byte = "NUL"   -> {mode}
      [] byte = "space" -> {mode, 1, 49}
      [] byte = "SOH"   -> {1}
      [] OTHER          -> {49}       \* "1" and every other character

FifoRead(byte) ==
    /\ up
    /\ fifo = "open"
    /\ mode' \in Extracted(byte)
    /\ fifo' = "set"
    /\ lost' = (lost \/ (mode' = 1 /\ (mode = 1 \/ config.cycle = 0)))
    /\ UNCHANGED <<config, up, starts, cycle, cycleOld, notifier, counter, froze>>

\* Faulty: the cycle time is saved in every mode.
SetCycleAlways ==
    /\ up
    /\ fifo = "set"
    /\ cycleOld' = cycle
    /\ cycle' = IF mode = 1 THEN ModeCycle ELSE cycleOld
    /\ fifo' = "open"
    /\ UNCHANGED <<config, up, starts, mode, notifier, counter, lost, froze>>

SetCycle ==
    /\ up
    /\ fifo = "set"
    /\ cycleOld' = IF mode = 1 THEN cycle ELSE cycleOld
    /\ cycle' = CASE mode = 1 -> ModeCycle
                  [] mode # 1 /\ cycleOld # 0 -> cycleOld
                  [] OTHER -> cycle
    /\ fifo' = "open"
    /\ UNCHANGED <<config, up, starts, mode, notifier, counter, lost, froze>>
------------------------------------------------------------------------------
(* The server process: init() and offer(), and its end                      *)

StartServer ==
    /\ ~up
    /\ starts < MaxStarts
    /\ up' = TRUE
    /\ starts' = starts + 1
    /\ mode' = 0
    /\ cycle' = config.cycle
    /\ cycleOld' = 0
    /\ fifo' = "open"
    /\ notifier' = "send"
    /\ counter' = 1
    /\ lost' = FALSE
    /\ froze' = FALSE
    /\ UNCHANGED config

StopServer ==
    /\ up
    /\ up' = FALSE
    /\ UNCHANGED <<config, starts, mode, cycle, cycleOld, fifo, notifier, counter,
                   lost, froze>>
------------------------------------------------------------------------------
StreamTypeOK ==
    /\ config \in [cycle : Cycles, size : Sizes]
    /\ {up, lost, froze} \subseteq BOOLEAN
    /\ starts \in 0 .. MaxStarts
    /\ mode \in Mode
    /\ {cycle, cycleOld} \subseteq Cycles \cup {ModeCycle, 0}
    /\ fifo \in {"open", "set"}
    /\ notifier \in {"send", "count", "sleep"}
    /\ counter \in 1 .. MaxCounter

\* Once a message has been dealt with, the server uses the cycle time of mode 1 in
\* that mode and the configured one in every other.  It loses the configured cycle
\* time, and goes on with that of mode 1 until it is restarted, in two cases and in
\* no other: mode 1 is entered while it is the mode already, or the configured
\* cycle time is 0, which cycle_old_ has for "nothing saved".
CycleFollowsMode ==
    fifo = "open" =>
        cycle = IF mode = 1 \/ lost THEN ModeCycle ELSE config.cycle
==============================================================================
