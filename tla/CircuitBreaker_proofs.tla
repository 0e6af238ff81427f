------------------------- MODULE CircuitBreaker_proofs -------------------------
(***************************************************************************)
(* Proofs about CircuitBreaker for any number of callers, any counters,    *)
(* thresholds, windows and cooldowns: the halt reaches every boundary,     *)
(* every trip owes exactly one on_trip call, a closed circuit holds no     *)
(* full window, and traffic does not postpone the cooldown.                *)
(***************************************************************************)
EXTENDS CircuitBreaker, FiniteSetTheorems, SequenceTheorems, TLAPS

\* The part of the type invariant the proofs rest on.
Typed == /\ caller \in [Callers -> [step : Steps, kind : Kinds]]
         /\ open \in BOOLEAN
         /\ held \subseteq Callers

\* The halt is inductive only with its reason: a caller is held while the
\* circuit it found open has not closed, and only in block mode.
Halted == /\ Typed
          /\ HaltsScans
          /\ ~ open => held = {}
          /\ mode # "block" => held = {}

Moves(c, step) == caller' = [caller EXCEPT ![c].step = step]

\* Where a record leaves its caller, and what it does to the circuit.
LEMMA RecordEffect ==
    ASSUME Typed, NEW c \in Callers, NEW k \in Counters,
           NEW tripped, NEW next \in {"idle", "detect"},
           Record(c, k, tripped, next)
    PROVE  /\ mode' = mode
           /\ open' \in BOOLEAN
           /\ held' = IF Elapsed THEN {} ELSE held
           /\ \/ /\ ~ (open /\ ~ Elapsed)
                 /\ open' = TRUE
                 /\ owed' = owed + 1
                 /\ Moves(c, tripped)
              \/ /\ open' = (open /\ ~ Elapsed)
                 /\ owed' = owed + 0
                 /\ IF next = "idle" THEN Return(c) ELSE Moves(c, next)
<1> DEFINE base == IF Elapsed THEN ClearedByClose ELSE stamps
           stillOpen == open /\ ~ Elapsed
           ages == Added(base[k], k)
           trip == Trips(stillOpen, ages, k)
<1>1. /\ open' = (stillOpen \/ trip)
      /\ owed' = owed + (IF ~ stillOpen /\ open' THEN 1 ELSE 0)
      /\ IF trip THEN Goto(c, tripped)
         ELSE IF next = "idle" THEN Return(c) ELSE Goto(c, next)
      /\ held' = IF Elapsed THEN {} ELSE held
      /\ mode' = mode
  BY DEF Record, config
<1>2. trip => ~ stillOpen
  BY DEF Trips
<1> HIDE DEF trip, stillOpen
<1>3. CASE trip
  <2>1. open' = TRUE
    BY <1>1, <1>3
  <2>2. owed' = owed + 1
    BY <1>1, <1>2, <1>3, <2>1
  <2>3. QED BY <1>1, <1>2, <1>3, <2>1, <2>2 DEF Goto, Moves, stillOpen
<1>4. CASE ~ trip
  <2>1. open' = stillOpen
    BY <1>1, <1>4, Zenon DEF stillOpen
  <2>2. owed' = owed + 0
    BY <1>1, <2>1
  <2>3. stillOpen \in BOOLEAN
    BY DEF stillOpen
  <2>4. QED BY <1>1, <1>4, <2>1, <2>2, <2>3 DEF Goto, Moves, stillOpen
<1>5. QED BY <1>3, <1>4

\* Moving a caller, or returning from its scan, changes that caller alone.
LEMMA MoveEffect ==
    ASSUME Typed, NEW c \in Callers, NEW step \in Steps,
           Moves(c, step) \/ (step = "idle" /\ Return(c))
    PROVE  /\ caller' \in [Callers -> [step : Steps, kind : Kinds]]
           /\ caller'[c].step = step
           /\ \A d \in Callers \ {c} : caller'[d] = caller[d]
<1>1. caller[c] \in [step : Steps, kind : Kinds]
  BY DEF Typed
<1>2. CASE Moves(c, step)
  <2>1. [caller[c] EXCEPT !.step = step] \in [step : Steps, kind : Kinds]
    BY <1>1
  <2>2. [caller[c] EXCEPT !.step = step].step = step
    BY <1>1
  <2>3. QED BY <2>1, <2>2, <1>2 DEF Moves, Typed
<1>3. CASE step = "idle" /\ Return(c)
  <2>1. Idle \in [step : Steps, kind : Kinds] /\ Idle.step = "idle"
    BY DEF Idle, Steps, Kinds
  <2>2. QED BY <2>1, <1>3 DEF Return, Typed
<1>4. QED BY <1>2, <1>3

Counting == {"tick", "detect", "emitTickTrip"}

\* A caller that moves past its gate was not held, or is held no longer.
LEMMA HaltedMove ==
    ASSUME Halted, NEW c \in Callers, NEW step \in Steps,
           Moves(c, step) \/ (step = "idle" /\ Return(c)),
           mode' = mode, open' \in BOOLEAN, held' \subseteq held,
           ~ open' => held' = {},
           step \in Counting => c \notin held'
    PROVE  Halted'
<1>1. /\ caller' \in [Callers -> [step : Steps, kind : Kinds]]
      /\ caller'[c].step = step
      /\ \A d \in Callers \ {c} : caller'[d] = caller[d]
  BY MoveEffect DEF Halted
<1>2. HaltsScans'
  BY <1>1 DEF Halted, HaltsScans, At, Counting, Typed
<1>3. QED BY <1>1, <1>2 DEF Halted, Typed

\* Counting on a trigger keeps the halt.
LEMMA HaltedRecord ==
    ASSUME Halted, NEW c \in Callers, At(c, "tick") \/ At(c, "detect"),
           NEW k \in Counters, NEW tripped \in {"emitTickTrip", "emitTrip"},
           NEW next \in {"idle", "detect"}, Record(c, k, tripped, next)
    PROVE  Halted'
<1>1. c \notin held
  BY DEF Halted, HaltsScans, At
<1>2. Typed
  BY DEF Halted
<1>3. /\ mode' = mode /\ open' \in BOOLEAN
      /\ held' = IF Elapsed THEN {} ELSE held
      /\ open' = TRUE \/ open' = (open /\ ~ Elapsed)
      /\ Moves(c, tripped) \/ (IF next = "idle" THEN Return(c) ELSE Moves(c, next))
  BY <1>2, RecordEffect
<1>4. held' \subseteq held /\ c \notin held'
  BY <1>1, <1>3
<1>5. ~ open' => held' = {}
  <2>1. CASE Elapsed
    BY <2>1, <1>3
  <2>2. CASE ~ Elapsed
    BY <2>2, <1>3 DEF Halted, Typed
  <2>3. QED BY <2>1, <2>2
<1>6. tripped \in Steps /\ next \in Steps
  BY DEF Steps
<1>7. QED BY <1>3, <1>4, <1>5, <1>6, HaltedMove

\* A close, by any path, frees every caller.
LEMMA HaltedClose ==
    ASSUME Halted, Close, mode' = mode,
           \/ caller' = caller
           \/ \E c \in Callers : Moves(c, "emitClose")
    PROVE  Halted'
<1>1. open' = FALSE /\ held' = {}
  BY DEF Close
<1>2. CASE caller' = caller
  BY <1>1, <1>2 DEF Halted, Typed, HaltsScans
<1>3. ASSUME NEW c \in Callers, Moves(c, "emitClose")
      PROVE  Halted'
  BY <1>1, <1>3, HaltedMove DEF Steps
<1>4. QED BY <1>2, <1>3

LEMMA HaltedStep == Halted /\ [Next]_vars => Halted'
<1> SUFFICES ASSUME Halted, [Next]_vars PROVE Halted'
  OBVIOUS
<1>0. Typed /\ held \subseteq Callers /\ open \in BOOLEAN
  BY DEF Halted, Typed
<1>1. ASSUME NEW c \in Callers, NEW kind \in Kinds, Arrive(c, kind)
      PROVE  Halted'
  <2> DEFINE new == [step |-> IF Gated(kind) THEN "gate" ELSE "tick", kind |-> kind]
  <2>1. /\ caller' = [caller EXCEPT ![c] = new] /\ mode' = mode /\ open' = open
        /\ held' = IF open /\ mode = "block" THEN held \cup {c} ELSE held
    BY <1>1 DEF Arrive, config, runtime
  <2>2. new \in [step : Steps, kind : Kinds]
    BY DEF Steps
  <2>3. mode = "block" => new.step = "gate"
    BY DEF Gated
  <2> HIDE DEF new
  <2>4. Typed'
    BY <2>1, <2>2, <1>0 DEF Typed
  <2>5. HaltsScans'
    <3>1. CASE mode = "block"
      BY <3>1, <2>1, <2>3, <1>0 DEF Halted, HaltsScans, At, Typed
    <3>2. CASE mode # "block"
      BY <3>2, <2>1 DEF Halted, HaltsScans
    <3>3. QED BY <3>1, <3>2
  <2>6. QED BY <2>1, <2>4, <2>5 DEF Halted
<1>2. ASSUME NEW c \in Callers, GateCooldown(c)
      PROVE  Halted'
  <2>1. CASE Elapsed /\ Close /\ Goto(c, "emitClose")
    BY <2>1, <1>2, HaltedClose DEF GateCooldown, config, Goto, Moves
  <2>2. CASE ~ Elapsed /\ Goto(c, "read") /\ UNCHANGED <<runtime, held>>
    <3>1. Moves(c, "read") /\ mode' = mode /\ open' = open /\ held' = held
      BY <2>2, <1>2 DEF GateCooldown, config, runtime, Goto, Moves
    <3>2. QED BY <3>1, <1>0, HaltedMove DEF Steps, Halted, Counting
  <2>3. QED BY <2>1, <2>2, <1>2 DEF GateCooldown
<1>3. ASSUME NEW c \in Callers, GateEmitClose(c)
      PROVE  Halted'
  <2>1. Moves(c, "read") /\ mode' = mode /\ open' = open /\ held' = held
    BY <1>3 DEF GateEmitClose, config, runtime, Goto, Moves
  <2>2. QED BY <2>1, <1>0, HaltedMove DEF Steps, Halted, Counting
<1>4. ASSUME NEW c \in Callers, GateRead(c)
      PROVE  Halted'
  <2>1. mode' = mode /\ open' = open
    BY <1>4 DEF GateRead, config, runtime
  <2>2. CASE open
    BY <2>1, <2>2, <1>0, <1>4, HaltedMove DEF GateRead, Steps, Halted, Counting
  <2>3. CASE ~ open
    <3>1. Moves(c, "tick") /\ held' = held /\ held = {}
      BY <2>3, <1>4 DEF GateRead, Goto, Moves, Halted
    <3>2. QED BY <3>1, <2>1, <1>0, HaltedMove DEF Steps, Halted
  <2>4. QED BY <2>2, <2>3
<1>5. ASSUME NEW c \in Callers, Tick(c)
      PROVE  Halted'
  <2>1. At(c, "tick")
    BY <1>5 DEF Tick
  <2>2. ASSUME NEW k \in TickOf(caller[c].kind),
               Record(c, k, "emitTickTrip", "detect")
        PROVE  Halted'
    <3>1. k \in Counters
      BY DEF TickOf
    <3>2. QED BY <3>1, <2>1, <2>2, HaltedRecord
  <2>3. CASE /\ Goto(c, "detect")
             /\ UNCHANGED <<config, runtime, held, owed>>
    <3>1. Moves(c, "detect") /\ mode' = mode /\ open' = open /\ held' = held
      BY <2>3 DEF config, runtime, Goto, Moves
    <3>2. c \notin held
      BY <2>1 DEF Halted, HaltsScans
    <3>3. QED BY <3>1, <3>2, <1>0, HaltedMove DEF Steps, Halted
  <2>4. QED BY <2>2, <2>3, <1>5 DEF Tick
<1>6. ASSUME NEW c \in Callers, DetectViolation(c)
      PROVE  Halted'
  BY <1>6, HaltedRecord DEF DetectViolation
<1>7. ASSUME NEW c \in Callers, DetectClean(c)
      PROVE  Halted'
  <2>1. Return(c) /\ mode' = mode /\ open' = open /\ held' = held \ {c}
    BY <1>7 DEF DetectClean, config, runtime
  <2>2. QED BY <2>1, <1>0, HaltedMove DEF Steps, Halted, Counting
<1>8. ASSUME NEW c \in Callers, Announce(c)
      PROVE  Halted'
  <2>1. mode' = mode /\ open' = open /\ held' = held
    BY <1>8 DEF Announce, config, runtime
  <2>2. CASE At(c, "emitTickTrip") /\ Goto(c, "detect")
    <3>1. c \notin held
      BY <2>2 DEF Halted, HaltsScans
    <3>2. QED BY <3>1, <2>1, <2>2, <1>0, HaltedMove DEF Steps, Halted, Goto, Moves
  <2>3. CASE At(c, "emitTrip") /\ Return(c)
    BY <2>3, <2>1, <1>0, HaltedMove DEF Steps, Halted, Counting
  <2>4. QED BY <2>2, <2>3, <1>8 DEF Announce
<1>9. CASE PollState \/ Reset
  BY <1>9, HaltedClose DEF PollState, Reset, config
<1>10. CASE Second
  BY <1>10 DEF Second, config, Halted, Typed, HaltsScans, At
<1>11. CASE UNCHANGED vars
  BY <1>11 DEF vars, config, runtime, Halted, Typed, HaltsScans, At
<1>12. QED BY <1>1, <1>2, <1>3, <1>4, <1>5, <1>6, <1>7, <1>8, <1>9, <1>10, <1>11
           DEF Next, Step

LEMMA HaltedInit == Init => Halted
<1> SUFFICES ASSUME Init PROVE Halted
  OBVIOUS
<1>1. Idle \in [step : Steps, kind : Kinds]
  BY DEF Idle, Steps, Kinds
<1>2. QED BY <1>1 DEF Init, Halted, Typed, HaltsScans

\* The halt: in block mode no boundary counts or runs detection for a call that
\* arrived at an open circuit, for any number of concurrent callers, unless the
\* circuit closed in between.
THEOREM HaltReachesEveryBoundary == Spec => []HaltsScans
<1>1. Halted => HaltsScans
  BY DEF Halted
<1>2. QED BY <1>1, HaltedInit, HaltedStep, PTL DEF Spec

-----------------------------------------------------------------------------
(* on_trip: owed counts the trips whose hook is due.                       *)

\* A caller that neither enters nor leaves the announcement owes nothing new;
\* one that enters it owes one; one that leaves it has paid.
LEMMA AnnouncingMove ==
    ASSUME Typed, NEW c \in Callers, NEW step \in Steps,
           caller' \in [Callers -> [step : Steps, kind : Kinds]],
           caller'[c].step = step,
           \A d \in Callers \ {c} : caller'[d] = caller[d]
    PROVE  /\ Cardinality(Announcing) \in Nat
           /\ (c \in Announcing <=> step \in {"emitTickTrip", "emitTrip"})
                => Cardinality(Announcing') = Cardinality(Announcing)
           /\ c \notin Announcing /\ step \in {"emitTickTrip", "emitTrip"}
                => Cardinality(Announcing') = Cardinality(Announcing) + 1
           /\ c \in Announcing /\ step \notin {"emitTickTrip", "emitTrip"}
                => Cardinality(Announcing') = Cardinality(Announcing) - 1
<1>1. IsFiniteSet(Announcing)
  BY ConstAssumption, FS_Subset DEF Announcing
<1>2. CASE c \in Announcing <=> step \in {"emitTickTrip", "emitTrip"}
  <2>1. Announcing' = Announcing
    BY <1>2 DEF Announcing
  <2>2. QED BY <1>1, <1>2, <2>1, FS_CardinalityType
<1>3. CASE c \notin Announcing /\ step \in {"emitTickTrip", "emitTrip"}
  <2>1. Announcing' = Announcing \cup {c}
    BY <1>3 DEF Announcing
  <2>2. QED BY <1>1, <1>3, <2>1, FS_AddElement, FS_CardinalityType
<1>4. CASE c \in Announcing /\ step \notin {"emitTickTrip", "emitTrip"}
  <2>1. Announcing' = Announcing \ {c}
    BY <1>4 DEF Announcing
  <2>2. QED BY <1>1, <1>4, <2>1, FS_RemoveElement, FS_CardinalityType
<1>5. QED BY <1>2, <1>3, <1>4

\* Steps that touch no announcement leave the debt as it is.
LEMMA OwingQuiet ==
    ASSUME Typed, OnTripOncePerTrip, NEW c \in Callers, NEW step \in Steps,
           Moves(c, step) \/ (step = "idle" /\ Return(c)),
           c \notin Announcing, step \notin {"emitTickTrip", "emitTrip"},
           owed' = owed
    PROVE  OnTripOncePerTrip'
  BY MoveEffect, AnnouncingMove DEF OnTripOncePerTrip

\* A record owes one call more exactly when it trips.
LEMMA OwingRecord ==
    ASSUME Typed, OnTripOncePerTrip, NEW c \in Callers,
           At(c, "tick") \/ At(c, "detect"),
           NEW k \in Counters, NEW tripped \in {"emitTickTrip", "emitTrip"},
           NEW next \in {"idle", "detect"}, Record(c, k, tripped, next)
    PROVE  OnTripOncePerTrip'
<1>1. c \notin Announcing /\ tripped \in Steps /\ next \in Steps
  BY DEF Announcing, At, Steps
<1>2. Cardinality(Announcing) \in Nat
  BY ConstAssumption, FS_Subset, FS_CardinalityType DEF Announcing
<1>3. CASE owed' = owed + 1 /\ Moves(c, tripped)
  BY <1>1, <1>3, MoveEffect, AnnouncingMove DEF OnTripOncePerTrip
<1>4. CASE /\ owed' = owed + 0
           /\ IF next = "idle" THEN Return(c) ELSE Moves(c, next)
  <2>1. owed' = owed
    BY <1>2, <1>4 DEF OnTripOncePerTrip
  <2>2. Moves(c, next) \/ (next = "idle" /\ Return(c))
    BY <1>4
  <2>3. QED BY <2>1, <2>2, <1>1, OwingQuiet
<1>5. QED BY <1>3, <1>4, RecordEffect

LEMMA OwingStep == Typed /\ OnTripOncePerTrip /\ [Next]_vars => OnTripOncePerTrip'
<1> SUFFICES ASSUME Typed, OnTripOncePerTrip, [Next]_vars PROVE OnTripOncePerTrip'
  OBVIOUS
<1>1. ASSUME NEW c \in Callers, NEW kind \in Kinds, Arrive(c, kind)
      PROVE  OnTripOncePerTrip'
  <2> DEFINE new == [step |-> IF Gated(kind) THEN "gate" ELSE "tick", kind |-> kind]
  <2>1. caller' = [caller EXCEPT ![c] = new] /\ owed' = owed /\ caller[c].step = "idle"
    BY <1>1 DEF Arrive, At
  <2>2. new.step \notin {"emitTickTrip", "emitTrip"}
    OBVIOUS
  <2> HIDE DEF new
  <2>3. Announcing' = Announcing
    BY <2>1, <2>2 DEF Announcing, Typed
  <2>4. QED BY <2>1, <2>3 DEF OnTripOncePerTrip
<1>2. ASSUME NEW c \in Callers, GateCooldown(c) \/ GateEmitClose(c) \/ GateRead(c)
      PROVE  OnTripOncePerTrip'
  <2>1. owed' = owed /\ c \notin Announcing
    BY <1>2 DEF GateCooldown, GateEmitClose, GateRead, At, Announcing
  <2>2. Return(c) \/ \E step \in {"emitClose", "read", "tick"} : Moves(c, step)
    BY <1>2 DEF GateCooldown, GateEmitClose, GateRead, Goto, Moves
  <2>3. QED BY <2>1, <2>2, OwingQuiet DEF Steps
<1>3. ASSUME NEW c \in Callers, Tick(c)
      PROVE  OnTripOncePerTrip'
  <2>1. At(c, "tick") /\ c \notin Announcing
    BY <1>3 DEF Tick, At, Announcing
  <2>2. ASSUME NEW k \in TickOf(caller[c].kind),
               Record(c, k, "emitTickTrip", "detect")
        PROVE  OnTripOncePerTrip'
    <3>1. k \in Counters
      BY DEF TickOf
    <3>2. QED BY <3>1, <2>1, <2>2, OwingRecord
  <2>3. CASE /\ Goto(c, "detect")
             /\ UNCHANGED <<config, runtime, held, owed>>
    BY <2>1, <2>3, OwingQuiet DEF Goto, Moves, Steps
  <2>4. QED BY <2>2, <2>3, <1>3 DEF Tick
<1>4. ASSUME NEW c \in Callers, DetectViolation(c)
      PROVE  OnTripOncePerTrip'
  BY <1>4, OwingRecord DEF DetectViolation
<1>5. ASSUME NEW c \in Callers, DetectClean(c)
      PROVE  OnTripOncePerTrip'
  BY <1>5, OwingQuiet DEF DetectClean, At, Announcing, Steps
<1>6. ASSUME NEW c \in Callers, Announce(c)
      PROVE  OnTripOncePerTrip'
  <2>1. c \in Announcing /\ owed' = owed - 1
    BY <1>6 DEF Announce, At, Announcing
  <2>2. Moves(c, "detect") \/ Return(c)
    BY <1>6 DEF Announce, Goto, Moves
  <2>3. Cardinality(Announcing') = Cardinality(Announcing) - 1
    BY <2>1, <2>2, MoveEffect, AnnouncingMove DEF Steps
  <2>4. QED BY <2>1, <2>3 DEF OnTripOncePerTrip
<1>7. CASE PollState \/ Reset \/ Second \/ UNCHANGED vars
  BY <1>7 DEF PollState, Reset, Second, vars, OnTripOncePerTrip, Announcing
<1>8. QED BY <1>1, <1>2, <1>3, <1>4, <1>5, <1>6, <1>7 DEF Next, Step

\* on_trip fires exactly once per trip: whatever callers race to record, the
\* trips whose hook is still due are exactly the callers about to call it.
THEOREM OnTripFiresOncePerTrip == Spec => []OnTripOncePerTrip
<1>1. Init => OnTripOncePerTrip
  <2>1. Init => Announcing = {}
    BY DEF Init, Announcing, Idle
  <2>2. QED BY <2>1, FS_EmptySet DEF Init, OnTripOncePerTrip
<1>2. Halted => Typed
  BY DEF Halted
<1>3. QED BY <1>1, <1>2, HaltedInit, HaltedStep, OwingStep, PTL DEF Spec

-----------------------------------------------------------------------------
(* The counters and the cooldown.                                          *)

\* The circuit has an age exactly while it is open, and stamps are ages.
Timed == /\ cooldown \in Nat \cup {Never}
         /\ open \in BOOLEAN
         /\ open => openFor \in Nat
         /\ ~ open => openFor = Never
         /\ stamps \in [Counters -> Seq(Nat)]

\* That a close leaves every counter below its threshold is inductive with it.
Counted == Timed /\ ClosedBelowThreshold

\* Of the stamps of a counter, those within its window are at most all.
LiveOf(ages, k) == {i \in 1..Len(ages) : ages[i] <= Window[k]}

\* There are no more live stamps than stamps, and none in an empty counter.
LEMMA LiveBounded ==
    ASSUME NEW ages \in Seq(Nat), NEW k
    PROVE  /\ IsFiniteSet(LiveOf(ages, k))
           /\ Cardinality(LiveOf(ages, k)) \in Nat
           /\ Cardinality(LiveOf(ages, k)) <= Len(ages)
<1>1. IsFiniteSet(1..Len(ages)) /\ Cardinality(1..Len(ages)) = Len(ages)
  <2> DEFINE n == Len(ages)
  <2>1. n \in Nat
    OBVIOUS
  <2> HIDE DEF n
  <2>2. IsFiniteSet(1..n) /\ Cardinality(1..n) = IF 1 > n THEN 0 ELSE n - 1 + 1
    BY <2>1, FS_Interval
  <2>3. QED BY <2>1, <2>2 DEF n
<1>2. LiveOf(ages, k) \in SUBSET (1..Len(ages))
  BY DEF LiveOf
<1>3. QED BY <1>1, <1>2, FS_Subset, FS_CardinalityType

\* What a record leaves of a counter is a sequence of ages.
LEMMA AddedOf ==
    ASSUME NEW k \in Counters, NEW ages \in Seq(Nat)
    PROVE  Added(ages, k) \in Seq(Nat)
<1> DEFINE pushed == Pushed(ages)
           old == {i \in 1..Len(pushed) : pushed[i] > Window[k]}
<1>1. pushed \in Seq(Nat)
  <2>1. CASE Len(ages) < RetainedCap
    BY <2>1 DEF Pushed
  <2>2. CASE ~ (Len(ages) < RetainedCap)
    <3>1. RetainedCap \in Nat /\ RetainedCap > 0
      BY ConstAssumption
    <3>2. ages # <<>>
      BY <2>2, <3>1
    <3>3. Tail(ages) \in Seq(Nat)
      BY <3>2
    <3>4. QED BY <2>2, <3>3 DEF Pushed
  <2>3. QED BY <2>1, <2>2
<1> HIDE DEF pushed
<1>2. IsFiniteSet(1..Len(pushed))
  BY <1>1, FS_Interval
<1>3. Cardinality(old) \in Nat
  BY <1>2, FS_Subset, FS_CardinalityType
<1>4. SubSeq(pushed, Cardinality(old) + 1, Len(pushed)) \in Seq(Nat)
  <2> DEFINE m == Cardinality(old) + 1
  <2>1. m \in Int /\ Len(pushed) \in Int /\ m >= 1
    BY <1>1, <1>3
  <2> HIDE DEF m
  <2>2. \A i \in m .. Len(pushed) : pushed[i] \in Nat
    BY <1>1, <2>1
  <2>3. SubSeq(pushed, m, Len(pushed)) \in Seq(Nat)
    BY <2>1, <2>2, SubSeqProperties
  <2>4. QED BY <2>3 DEF m
<1>5. QED BY <1>4 DEF Added, Fresh, pushed

\* An empty counter is a sequence of ages.
LEMMA NoStampsOf == NoStamps \in [Counters -> Seq(Nat)]
<1>1. <<>> \in Seq(Nat)
  OBVIOUS
<1>2. QED BY <1>1 DEF NoStamps

\* No counter of a new breaker holds anything.
LEMMA CountedInit == Init => Counted
<1> SUFFICES ASSUME Init PROVE Counted
  OBVIOUS
<1>1. Timed
  <2>1. cooldown \in Nat \cup {Never} /\ open = FALSE /\ openFor = Never /\ stamps = NoStamps
    BY ConstAssumption DEF Init
  <2>2. QED BY <2>1, NoStampsOf DEF Timed
<1>2. ASSUME NEW k \in Counters
      PROVE  Cardinality(Live(k)) < Threshold[k]
  <2>1. Live(k) = {}
    BY DEF Init, NoStamps, Live
  <2>2. QED BY <2>1, FS_EmptySet, ConstAssumption
<1>3. QED BY <1>1, <1>2 DEF Counted, ClosedBelowThreshold

\* _close_locked empties every counter.
LEMMA CountedClose ==
    ASSUME Counted, Close, cooldown' = cooldown
    PROVE  Counted'
<1>1. open' = FALSE /\ openFor' = Never /\ stamps' = NoStamps
  BY DEF Close, ClearedByClose
<1>2. Timed'
  BY <1>1, NoStampsOf DEF Counted, Timed
<1>3. ASSUME NEW k \in Counters
      PROVE  Cardinality(Live(k)') < Threshold[k]
  <2>1. Live(k)' = {}
    BY <1>1 DEF NoStamps, Live
  <2>2. QED BY <2>1, FS_EmptySet, ConstAssumption
<1>4. QED BY <1>2, <1>3 DEF Counted, ClosedBelowThreshold

\* _record: a counter that fills its window trips, and one that does not has
\* fewer stamps than its threshold; the others are as they were, or cleared.
LEMMA CountedRecord ==
    ASSUME Counted, NEW c, NEW k \in Counters, NEW tripped, NEW next, Record(c, k, tripped, next)
    PROVE  /\ Counted'
           /\ open /\ ~ Elapsed => openFor' = openFor
<1> DEFINE base == IF Elapsed THEN ClearedByClose ELSE stamps
           stillOpen == open /\ ~ Elapsed
           ages == Added(base[k], k)
           trip == Trips(stillOpen, ages, k)
<1>1. /\ stamps' = [base EXCEPT ![k] = ages]
      /\ open' = (stillOpen \/ trip)
      /\ openFor' = IF trip THEN 0 ELSE IF stillOpen THEN openFor ELSE Never
      /\ cooldown' = cooldown
  BY DEF Record, config
<1>2. trip <=> ~ stillOpen /\ Len(ages) >= Threshold[k]
  BY DEF Trips
<1>3. base \in [Counters -> Seq(Nat)]
  BY NoStampsOf DEF Counted, Timed, ClearedByClose
<1>4. ages \in Seq(Nat)
  BY <1>3, AddedOf
<1>5. stillOpen => openFor \in Nat
  BY DEF Counted, Timed
<1>6. ~ stillOpen => \A j \in Counters : Cardinality(LiveOf(base[j], j)) < Threshold[j]
  <2>1. ASSUME ~ stillOpen, NEW j \in Counters
        PROVE  Cardinality(LiveOf(base[j], j)) < Threshold[j]
    <3>1. CASE Elapsed
      <4>1. LiveOf(base[j], j) = {}
        BY <3>1 DEF ClearedByClose, NoStamps, LiveOf
      <4>2. QED BY <4>1, FS_EmptySet, ConstAssumption
    <3>2. CASE ~ Elapsed
      <4>1. ~ open /\ base = stamps
        BY <2>1, <3>2
      <4>2. Live(j) = LiveOf(base[j], j)
        BY <4>1 DEF Live, LiveOf
      <4>3. QED BY <4>1, <4>2 DEF Counted, ClosedBelowThreshold
    <3>3. QED BY <3>1, <3>2
  <2>2. QED BY <2>1
<1>7. open /\ ~ Elapsed => stillOpen
  OBVIOUS
<1>8. stillOpen \in BOOLEAN
  BY DEF Counted, Timed
<1> HIDE DEF base, stillOpen, ages, trip
<1>9. stamps' \in [Counters -> Seq(Nat)] /\ stamps'[k] = ages
      /\ \A j \in Counters \ {k} : stamps'[j] = base[j]
  BY <1>1, <1>3, <1>4
<1>10. Timed'
  <2>1. cooldown' \in Nat \cup {Never}
    BY <1>1 DEF Counted, Timed
  <2>2. (open' => openFor' \in Nat) /\ (~ open' => openFor' = Never)
    BY <1>1, <1>2, <1>5
  <2>3. open' \in BOOLEAN
    BY <1>1, <1>2, <1>8
  <2>4. QED BY <1>9, <2>1, <2>2, <2>3 DEF Timed
<1>11. ASSUME ~ open', NEW j \in Counters
       PROVE  Cardinality(Live(j)') < Threshold[j]
  <2>1. ~ stillOpen /\ ~ trip
    BY <1>1, <1>11
  <2>2. Live(j)' = LiveOf(stamps'[j], j)
    BY DEF Live, LiveOf
  <2>3. CASE j = k
    <3>1. Threshold[k] \in Nat /\ Len(ages) \in Nat /\ Len(ages) < Threshold[k]
      BY <1>2, <1>4, <2>1, ConstAssumption
    <3>2. /\ Cardinality(LiveOf(ages, k)) \in Nat
          /\ Cardinality(LiveOf(ages, k)) <= Len(ages)
      BY <1>4, LiveBounded
    <3>3. QED BY <1>9, <2>2, <2>3, <3>1, <3>2
  <2>4. CASE j # k
    BY <1>6, <1>9, <2>1, <2>2, <2>4
  <2>5. QED BY <2>3, <2>4
<1>12. stillOpen => openFor' = openFor
  BY <1>1, <1>2
<1>13. QED BY <1>7, <1>10, <1>11, <1>12 DEF Counted, ClosedBelowThreshold

\* A second makes every stamp older, and so no stamp live again.
LEMMA CountedSecond ==
    ASSUME Counted, Second
    PROVE  /\ Counted'
           /\ open => openFor' \in Nat /\ openFor' >= openFor
<1>1. /\ stamps' = [k \in Counters |->
               [i \in 1..Len(stamps[k]) |-> Older(stamps[k][i], Window[k] + 1)]]
      /\ openFor' = IF openFor = Never \/ cooldown = Never THEN openFor
                    ELSE Older(openFor, cooldown)
      /\ open' = open /\ cooldown' = cooldown
  BY DEF Second, config
<1>2. ASSUME NEW age \in Nat, NEW cap \in Nat
      PROVE  Older(age, cap) \in Nat /\ Older(age, cap) >= age
  BY DEF Older
<1>3. \A k \in Counters : Window[k] \in Nat /\ Window[k] + 1 \in Nat /\ Threshold[k] \in Nat
  BY ConstAssumption
<1>4. ASSUME NEW k \in Counters
      PROVE  /\ stamps'[k] \in Seq(Nat)
             /\ LiveOf(stamps'[k], k) \subseteq LiveOf(stamps[k], k)
  <2> DEFINE s == stamps[k]
             t == [i \in 1..Len(s) |-> Older(s[i], Window[k] + 1)]
  <2>1. s \in Seq(Nat)
    BY DEF Counted, Timed
  <2>2. stamps'[k] = t
    BY <1>1
  <2> HIDE DEF s
  <2>3. \A i \in 1..Len(s) : s[i] \in Nat /\ Older(s[i], Window[k] + 1) \in Nat
                             /\ Older(s[i], Window[k] + 1) >= s[i]
    <3>1. ASSUME NEW i \in 1..Len(s)
          PROVE  s[i] \in Nat
      BY <2>1
    <3>2. Window[k] + 1 \in Nat
      BY <1>3
    <3>3. QED BY <1>2, <3>1, <3>2
  <2>4. t \in Seq(Nat) /\ Len(t) = Len(s) /\ \A i \in 1..Len(s) : t[i] = Older(s[i], Window[k] + 1)
    BY <2>1, <2>3
  <2> HIDE DEF t
  <2>5. LiveOf(t, k) \subseteq LiveOf(s, k)
    BY <1>3, <2>3, <2>4 DEF LiveOf
  <2>6. QED BY <2>2, <2>4, <2>5 DEF s
<1>5. open => openFor' \in Nat /\ openFor' >= openFor
  <2>1. SUFFICES ASSUME open PROVE openFor' \in Nat /\ openFor' >= openFor
    OBVIOUS
  <2>2. openFor \in Nat /\ cooldown \in Nat \cup {Never}
    BY <2>1 DEF Counted, Timed
  <2>3. CASE cooldown = Never
    BY <1>1, <2>2, <2>3
  <2>4. CASE cooldown # Never
    <3>1. Older(openFor, cooldown) \in Nat /\ Older(openFor, cooldown) >= openFor
      BY <1>2, <2>2, <2>4
    <3>2. QED BY <1>1, <2>2, <3>1
  <2>5. QED BY <2>3, <2>4
<1>6. Timed'
  <2>1. stamps' \in [Counters -> Seq(Nat)]
    BY <1>1, <1>4
  <2>2. ~ open => openFor' = Never
    BY <1>1 DEF Counted, Timed
  <2>3. QED BY <1>1, <1>5, <2>1, <2>2 DEF Counted, Timed
<1>7. ASSUME ~ open', NEW k \in Counters
      PROVE  Cardinality(Live(k)') < Threshold[k]
  <2>1. Cardinality(Live(k)) < Threshold[k]
    BY <1>1, <1>7 DEF Counted, ClosedBelowThreshold
  <2>2. Live(k) = LiveOf(stamps[k], k) /\ Live(k)' = LiveOf(stamps'[k], k)
    BY DEF Live, LiveOf
  <2>3. IsFiniteSet(Live(k)) /\ Cardinality(Live(k)) \in Nat
    BY <2>2, LiveBounded DEF Counted, Timed
  <2>4. Live(k)' \in SUBSET Live(k)
    BY <1>4, <2>2
  <2>5. Cardinality(Live(k)') <= Cardinality(Live(k)) /\ Cardinality(Live(k)') \in Nat
    BY <2>3, <2>4, FS_Subset, FS_CardinalityType
  <2>6. QED BY <1>3, <2>1, <2>3, <2>5
<1>8. QED BY <1>5, <1>6, <1>7 DEF Counted, ClosedBelowThreshold

\* What the steps of a caller leave alone that neither record nor close.
Untouched == UNCHANGED <<cooldown, open, openFor, stamps>>

\* The age of the circuit and its counters change only in a close, a record,
\* and with time.
LEMMA CountedSteps ==
    ASSUME Counted, [Next]_vars
    PROVE  \/ Untouched
           \/ Close /\ cooldown' = cooldown
           \/ \E c \in Callers, k \in Counters :
                 \E tripped, next \in Steps : Record(c, k, tripped, next)
           \/ Second
<1>1. ASSUME NEW c \in Callers, Step(c)
      PROVE  \/ Untouched
             \/ Close /\ cooldown' = cooldown
             \/ \E k \in Counters : \E tripped, next \in Steps : Record(c, k, tripped, next)
  <2>1. CASE GateCooldown(c) \/ GateEmitClose(c) \/ GateRead(c) \/ DetectClean(c) \/ Announce(c)
    BY <2>1 DEF GateCooldown, GateEmitClose, GateRead, DetectClean, Announce, config, runtime, Untouched
  <2>2. CASE Tick(c)
    <3>1. CASE \E k \in TickOf(caller[c].kind) : Record(c, k, "emitTickTrip", "detect")
      BY <3>1 DEF TickOf, Steps
    <3>2. CASE UNCHANGED <<config, runtime, held, owed>>
      BY <3>2 DEF config, runtime, Untouched
    <3>3. QED BY <2>2, <3>1, <3>2 DEF Tick
  <2>3. CASE DetectViolation(c)
    BY <2>3 DEF DetectViolation, Steps
  <2>4. QED BY <1>1, <2>1, <2>2, <2>3 DEF Step
<1>2. ASSUME NEW c \in Callers, NEW kind \in Kinds, Arrive(c, kind)
      PROVE  Untouched
  BY <1>2 DEF Arrive, config, runtime, Untouched
<1>3. CASE PollState \/ Reset
  BY <1>3 DEF PollState, Reset, config
<1>4. CASE UNCHANGED vars
  BY <1>4 DEF vars, config, runtime, Untouched
<1>5. QED BY <1>1, <1>2, <1>3, <1>4 DEF Next

\* The invariant of the counters is inductive.
LEMMA CountedStep == Counted /\ [Next]_vars => Counted'
<1> SUFFICES ASSUME Counted, [Next]_vars PROVE Counted'
  OBVIOUS
<1>1. CASE Untouched
  BY <1>1 DEF Untouched, Counted, Timed, ClosedBelowThreshold, Live
<1>2. CASE Close /\ cooldown' = cooldown
  BY <1>2, CountedClose
<1>3. ASSUME NEW c \in Callers, NEW k \in Counters, NEW tripped \in Steps, NEW next \in Steps,
             Record(c, k, tripped, next)
      PROVE  Counted'
  BY <1>3, CountedRecord
<1>4. CASE Second
  BY <1>4, CountedSecond
<1>5. QED BY <1>1, <1>2, <1>3, <1>4, CountedSteps

\* A closed circuit never holds a full window, for any thresholds, windows and
\* cap of retained stamps: the record that fills one trips the circuit, and no
\* close, by a gate, a poll, a reset or a later record, leaves a stamp behind.
THEOREM ClosedCountersAreLow == Spec => []ClosedBelowThreshold
<1>1. Counted => ClosedBelowThreshold
  BY DEF Counted
<1>2. QED BY <1>1, CountedInit, CountedStep, PTL DEF Spec

\* What is recorded while the circuit is open does not postpone its cooldown:
\* the age of the trip never goes back, and is forgotten only with a close.
THEOREM CooldownRunsOn == Spec => CooldownNotExtended
<1>1. ASSUME Counted, [Next]_vars, open, open', ~ Elapsed
      PROVE  openFor' # Never /\ openFor' >= openFor
  <2>1. openFor \in Nat /\ Never \notin Nat
    BY <1>1, ConstAssumption DEF Counted, Timed
  <2>2. CASE Untouched
    BY <2>1, <2>2 DEF Untouched
  <2>3. CASE Close
    BY <1>1, <2>3 DEF Close
  <2>4. ASSUME NEW c \in Callers, NEW k \in Counters, NEW tripped \in Steps, NEW next \in Steps,
               Record(c, k, tripped, next)
        PROVE  openFor' = openFor
    BY <1>1, <2>4, CountedRecord
  <2>5. CASE Second
    BY <1>1, <2>1, <2>5, CountedSecond
  <2>6. CASE openFor' = openFor
    BY <2>1, <2>6
  <2>7. QED BY <1>1, <2>2, <2>3, <2>4, <2>5, <2>6, CountedSteps
<1>2. Counted /\ [Next]_vars =>
          [open /\ open' /\ ~ Elapsed => openFor' # Never /\ openFor' >= openFor]_vars
  BY <1>1
<1>3. QED BY <1>2, CountedInit, CountedStep, PTL DEF Spec, CooldownNotExtended
===============================================================================
