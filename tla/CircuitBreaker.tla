---------------------------- MODULE CircuitBreaker ----------------------------
(***************************************************************************)
(* The opt-in circuit breaker: _CircuitRuntime in xaidr/circuit_breaker.py *)
(* and the calls the scan boundaries of xaidr/sensor.py make to it.        *)
(*                                                                         *)
(* Callers scan concurrently.  Each critical section of the runtime's lock *)
(* is one action; what state() and _record do after releasing it (emit the *)
(* event, call on_trip, read _open) are actions of their own.              *)
(*                                                                         *)
(* Time is kept as ages: a stamp is the time since it was taken and        *)
(* openFor the time since the trip, both capped where the code can no      *)
(* longer tell larger values apart, so the model needs no bound on time.   *)
(***************************************************************************)
EXTENDS Integers, Sequences, FiniteSets

CONSTANTS
    Callers,        \* the threads that scan
    Counters,       \* the configured triggers, a subset of CounterNames
    Threshold,      \* counter -> its threshold
    Window,         \* counter -> its window
    RetainedCap,    \* _retained_cap: stamps kept per counter
    Modes,          \* the enforcement modes of an instance
    Cooldowns,      \* the cooldown_sec values of an instance, or Never
    Never           \* cooldown_sec = None, and "the circuit is not open"

CounterNames == {"violations", "toolCalls", "delegations"}

ASSUME ConstAssumption ==
    /\ IsFiniteSet(Callers)
    /\ Counters \subseteq CounterNames
    /\ Threshold \in [Counters -> Nat \ {0}]
    /\ Window \in [Counters -> Nat \ {0}]
    /\ RetainedCap \in Nat
    /\ \A k \in Counters : RetainedCap > Threshold[k]
    /\ Modes \subseteq {"block", "monitor"}
    /\ Never \notin Nat
    /\ Cooldowns \subseteq Nat \cup {Never}

VARIABLES
    mode,           \* enforcement_mode, fixed
    cooldown,       \* config.cooldown_sec, fixed
    open,           \* _open
    openFor,        \* time since _opened_at, Never while closed
    stamps,         \* counter -> ages of its stamps, oldest first
    caller,         \* caller -> the step of the scan it executes
    held,           \* history: callers that arrived at an open circuit which
                    \* has not closed since
    owed            \* history: trips whose on_trip has not been called yet

config == <<mode, cooldown>>
runtime == <<open, openFor, stamps>>
vars == <<config, runtime, caller, held, owed>>

-----------------------------------------------------------------------------
(* _Counters: prune from the left what is older than the window.           *)

Fresh(ages, k) ==
    LET old == {i \in 1..Len(ages) : ages[i] > Window[k]}
    IN  SubSeq(ages, Cardinality(old) + 1, Len(ages))

\* deque(maxlen): an append at the cap drops the oldest stamp.
Pushed(ages) == IF Len(ages) < RetainedCap THEN Append(ages, 0)
                ELSE Append(Tail(ages), 0)
Added(ages, k) == Fresh(Pushed(ages), k)

NoStamps == [k \in Counters |-> <<>>]

\* _close_locked clears every counter, whichever of them tripped.
KeptByClose == stamps
ClearedByClose == NoStamps

-----------------------------------------------------------------------------
Steps == {"idle", "gate", "emitClose", "read", "tick", "emitTickTrip",
          "detect", "emitTrip"}
Idle == [step |-> "idle", kind |-> "scan"]
Kinds == {"scan", "tool", "a2a"}

Init ==
    /\ mode \in Modes
    /\ cooldown \in Cooldowns
    /\ open = FALSE
    /\ openFor = Never
    /\ stamps = NoStamps
    /\ caller = [c \in Callers |-> Idle]
    /\ held = {}
    /\ owed = 0

At(c, step) == caller[c].step = step
Goto(c, step) == caller' = [caller EXCEPT ![c].step = step]
Return(c) == caller' = [caller EXCEPT ![c] = Idle]

\* _maybe_cooldown: the circuit is open and its cooldown has elapsed.
Elapsed == open /\ cooldown # Never /\ openFor >= cooldown

Close ==
    /\ open' = FALSE
    /\ openFor' = Never
    /\ stamps' = ClearedByClose
    /\ held' = {}

-----------------------------------------------------------------------------
(* The gate: _run_gates calls _circuit_is_blocking, which in block mode    *)
(* reads state().                                                          *)

\* A boundary is entered.  Monitor mode never asks the breaker.
GatedToolsOnly(kind) == mode = "block" /\ kind = "tool"
Gated(kind) == mode = "block"

Arrive(c, kind) ==
    /\ At(c, "idle")
    /\ caller' = [caller EXCEPT ![c] =
           [step |-> IF Gated(kind) THEN "gate" ELSE "tick", kind |-> kind]]
    /\ held' = IF open /\ mode = "block" THEN held \cup {c} ELSE held
    /\ UNCHANGED <<config, runtime, owed>>

\* state(), under the lock.
GateReadOnly(c) ==
    /\ At(c, "gate")
    /\ Goto(c, "read")
    /\ UNCHANGED <<config, runtime, held, owed>>

GateCooldown(c) ==
    /\ At(c, "gate")
    /\ \/ Elapsed /\ Close /\ Goto(c, "emitClose")
       \/ ~ Elapsed /\ Goto(c, "read") /\ UNCHANGED <<runtime, held>>
    /\ UNCHANGED <<config, owed>>

GateEmitClose(c) ==
    /\ At(c, "emitClose")
    /\ Goto(c, "read")
    /\ UNCHANGED <<config, runtime, held, owed>>

\* state() returns _open, read after the lock is released.  An open circuit
\* answers CIRCUIT_BREAKER_OPEN without detection and counts nothing.
GateRead(c) ==
    /\ At(c, "read")
    /\ IF open THEN Return(c) /\ held' = held \ {c}
       ELSE Goto(c, "tick") /\ held' = held
    /\ UNCHANGED <<config, runtime, owed>>

-----------------------------------------------------------------------------
(* _record.  The close event of an elapsed cooldown is discarded here.     *)

TripsAgain(isOpen, ages, k) == Len(ages) >= Threshold[k]
Trips(isOpen, ages, k) == ~ isOpen /\ Len(ages) >= Threshold[k]

\* Counts on `k`; control moves to `tripped` or, without a trip, to `next`.
Record(c, k, tripped, next) ==
    LET base == IF Elapsed THEN ClearedByClose ELSE stamps
        stillOpen == open /\ ~ Elapsed
        ages == Added(base[k], k)
        trip == Trips(stillOpen, ages, k)
    IN  /\ stamps' = [base EXCEPT ![k] = ages]
        /\ open' = (stillOpen \/ trip)
        /\ openFor' = IF trip THEN 0 ELSE IF stillOpen THEN openFor ELSE Never
        /\ held' = IF Elapsed THEN {} ELSE held
        /\ owed' = owed + (IF ~ stillOpen /\ open' THEN 1 ELSE 0)
        /\ IF trip THEN Goto(c, tripped)
           ELSE IF next = "idle" THEN Return(c) ELSE Goto(c, next)
        /\ UNCHANGED config

\* The counter a boundary ticks before detection: tool calls and OUTBOUND
\* delegations only, and only when that trigger is configured.
TickOf(kind) == IF kind = "tool" THEN {"toolCalls"} \cap Counters
                ELSE IF kind = "a2a" THEN {"delegations"} \cap Counters ELSE {}

Tick(c) ==
    /\ At(c, "tick")
    /\ \/ \E k \in TickOf(caller[c].kind) : Record(c, k, "emitTickTrip", "detect")
       \/ /\ TickOf(caller[c].kind) = {}
          /\ Goto(c, "detect")
          /\ UNCHANGED <<config, runtime, held, owed>>

\* Detection answers; _breaker_observe counts a true (pre-mode) block.
DetectViolation(c) ==
    /\ At(c, "detect")
    /\ "violations" \in Counters
    /\ Record(c, "violations", "emitTrip", "idle")

DetectClean(c) ==
    /\ At(c, "detect")
    /\ Return(c)
    /\ held' = held \ {c}
    /\ UNCHANGED <<config, runtime, owed>>

\* After the lock: emit the trip event and fire on_trip.
Announce(c) ==
    /\ \/ At(c, "emitTickTrip") /\ Goto(c, "detect")
       \/ At(c, "emitTrip") /\ Return(c)
    /\ owed' = owed - 1
    /\ UNCHANGED <<config, runtime, held>>

-----------------------------------------------------------------------------
(* The host: circuit_state, reset_circuit, and the clock.                  *)

PollState ==
    /\ Elapsed
    /\ Close
    /\ UNCHANGED <<config, caller, owed>>

Reset ==
    /\ Close
    /\ UNCHANGED <<config, caller, owed>>

Older(age, cap) == IF age < cap THEN age + 1 ELSE age
Second ==
    /\ stamps' = [k \in Counters |->
           [i \in 1..Len(stamps[k]) |-> Older(stamps[k][i], Window[k] + 1)]]
    /\ openFor' = IF openFor = Never \/ cooldown = Never THEN openFor
                  ELSE Older(openFor, cooldown)
    /\ UNCHANGED <<config, open, caller, held, owed>>

Step(c) ==
    \/ GateCooldown(c)
    \/ GateEmitClose(c)
    \/ GateRead(c)
    \/ Tick(c)
    \/ DetectViolation(c)
    \/ DetectClean(c)
    \/ Announce(c)

Next ==
    \/ \E c \in Callers : Step(c) \/ \E kind \in Kinds : Arrive(c, kind)
    \/ PollState
    \/ Reset
    \/ Second

\* Time passes, a running thread is scheduled, and the host keeps scanning.
Fairness ==
    /\ WF_vars(Second)
    /\ \A c \in Callers : /\ WF_vars(Step(c))
                          /\ WF_vars(\E kind \in Kinds : Arrive(c, kind))

Spec == Init /\ [][Next]_vars
FairSpec == Spec /\ Fairness

-----------------------------------------------------------------------------
(* Properties.                                                             *)

TypeOK ==
    /\ mode \in {"block", "monitor"}
    /\ cooldown \in Nat \cup {Never}
    /\ open \in BOOLEAN
    /\ openFor \in Nat \cup {Never}
    /\ open <=> openFor # Never
    /\ DOMAIN stamps = Counters
    /\ \A k \in Counters : stamps[k] \in Seq(Nat) /\ Len(stamps[k]) <= RetainedCap
    /\ caller \in [Callers -> [step : Steps, kind : Kinds]]
    /\ held \subseteq Callers
    /\ owed \in Nat

Announcing == {c \in Callers : caller[c].step \in {"emitTickTrip", "emitTrip"}}
\* "Both are fired exactly once per trip": the trips whose on_trip is due are
\* exactly the callers about to call it.
OnTripOncePerTrip == owed = Cardinality(Announcing)

\* A closed circuit never holds a full window: the record that fills a window
\* trips it, and a close, by any path, leaves every counter below threshold.
Live(k) == {i \in 1..Len(stamps[k]) : stamps[k][i] <= Window[k]}
ClosedBelowThreshold ==
    ~ open => \A k \in Counters : Cardinality(Live(k)) < Threshold[k]

\* The halt: in block mode a call that arrives at an open circuit, and sees it
\* stay open, never reaches its counters or detection.
HaltsScans ==
    \A c \in held : ~ (At(c, "tick") \/ At(c, "detect") \/ At(c, "emitTickTrip"))

\* Traffic while the circuit is open does not postpone its cooldown: openFor
\* goes back only with a close, or a trip after the cooldown elapsed.
CooldownNotExtended ==
    [][open /\ open' /\ ~ Elapsed => openFor' # Never /\ openFor' >= openFor]_vars

\* In block mode with a cooldown, a host that keeps scanning sees the circuit
\* close again after every trip, without a background timer.
Recovers == (open /\ mode = "block" /\ cooldown # Never) ~> ~ open
=============================================================================
