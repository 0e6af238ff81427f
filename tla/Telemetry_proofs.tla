---------------------------- MODULE Telemetry_proofs ---------------------------
(***************************************************************************)
(* Proofs about Telemetry for any events, producers, workers and drainers, *)
(* any queue length and batch size: no event is lost or reported twice     *)
(* while the process is up, and a drain that saw its worker end has        *)
(* reported every event accepted before it began.                          *)
(*                                                                         *)
(* ExactlyOnce counts places; it is inductive only with the reason why a   *)
(* step moves an event from one place to one other.  Inv says that no      *)
(* event is twice in the queue, that the queue, the batches, the hands of  *)
(* the drainers and the settled events share none and make up the accepted *)
(* ones, that a thread between two batches holds nothing, and that what a  *)
(* producer is about to put is accepted by nobody yet.  A full queue and a *)
(* raised report settle the event, in the words of the module.             *)
(*                                                                         *)
(* Drains adds, for every drain, what it knows of the events that are due: *)
(* none returns to the queue once the drain found it empty; and while no   *)
(* other drain began and state.thread was not replaced, no other worker is *)
(* alive and nobody else's hands hold any.                                 *)
(***************************************************************************)
EXTENDS Telemetry, FiniteSetTheorems, TLAPS

-----------------------------------------------------------------------------
(* The inductive invariant of the queue.                                   *)

Items == Events \cup {Stop}
WorkerSteps == {"dead", "new", "loop", "get", "more", "report"}
ProducerSteps == {"idle", "start", "mark", "spawn", "run", "put"}
DrainerSteps == {"idle", "drain", "report", "pill", "join", "return"}
Threads == Workers \cup {NoThread}
WorkerType == [step : WorkerSteps, batch : Seq(Events)]
ProducerType == [step : ProducerSteps, event : Items]
DrainerType == [step : DrainerSteps, kind : {"flush", "close", "exit"}, remaining : Seq(Events),
                target : Threads, due : SUBSET Events, old : Threads,
                alone : BOOLEAN, joined : BOOLEAN]

Typed ==
    /\ queue \in Seq(Items)
    /\ thread \in Threads
    /\ producer \in [Producers -> ProducerType]
    /\ worker \in [Workers -> WorkerType]
    /\ drainer \in [AllDrainers -> DrainerType]
    /\ accepted \in SUBSET Events
    /\ settled \in SUBSET Events

\* No event is twice in a sequence; pills may be.
Distinct(s) == \A i, j \in 1..Len(s) : s[i] = s[j] /\ s[i] # Stop => i = j
Queued == ItemsOf(queue)
Batch(w) == ItemsOf(worker[w].batch)
Hand(d) == ItemsOf(drainer[d].remaining)

\* A worker or a drainer between two batches has none.
WorkerIdle(r) == r.step \in {"dead", "new", "loop", "get"} => r.batch = <<>>
DrainerIdle(r) == r.step \in {"idle", "pill", "join", "return"} => r.remaining = <<>>

\* Each event is emitted once.
Offered ==
    \A p \in Producers : producer[p].step # "idle" =>
        /\ producer[p].event \in Events \ accepted
        /\ \A q \in Producers \ {p} : producer[q].event # producer[p].event

\* Who holds an event, and that only one place does.
Held(e) == (\E w \in Workers : e \in Batch(w)) \/ (\E d \in AllDrainers : e \in Hand(d))
Apart(e) ==
    /\ e \in accepted => e \in Queued \/ e \in settled \/ Held(e)
    /\ e \in Queued \/ e \in settled \/ Held(e) => e \in accepted
    /\ ~ (e \in Queued /\ e \in settled)
    /\ Held(e) => e \notin Queued /\ e \notin settled
    /\ \A w \in Workers, d \in AllDrainers : ~ (e \in Batch(w) /\ e \in Hand(d))
    /\ \A w, v \in Workers : e \in Batch(w) /\ e \in Batch(v) => w = v
    /\ \A d, c \in AllDrainers : e \in Hand(d) /\ e \in Hand(c) => d = c

Inv ==
    /\ Typed
    /\ Distinct(queue)
    /\ \A w \in Workers : WorkerIdle(worker[w])
    /\ \A d \in AllDrainers : DrainerIdle(drainer[d])
    /\ Offered
    /\ \A e \in Events : Apart(e)

-----------------------------------------------------------------------------
(* The queue's operations.                                                 *)

\* put_nowait adds its item; the pill is no event.
LEMMA ItemsOfAppend ==
    ASSUME NEW s \in Seq(Items), NEW x \in Items
    PROVE  /\ Append(s, x) \in Seq(Items)
           /\ ItemsOf(Append(s, x)) = ItemsOf(s) \cup ({x} \ {Stop})
           /\ Distinct(s) /\ x \notin ItemsOf(s) => Distinct(Append(s, x))
<1> DEFINE t == Append(s, x)
<1>1. /\ t \in Seq(Items) /\ Len(t) = Len(s) + 1 /\ t[Len(s) + 1] = x
      /\ \A i \in 1..Len(s) : t[i] = s[i]
  OBVIOUS
<1>2. 1..Len(t) = 1..Len(s) \cup {Len(s) + 1} /\ Len(s) \in Nat
  BY <1>1
<1> HIDE DEF t
<1>3. ItemsOf(t) = ItemsOf(s) \cup ({x} \ {Stop})
  BY <1>1, <1>2 DEF ItemsOf
<1>4. Distinct(s) /\ x \notin ItemsOf(s) => Distinct(t)
  BY <1>1, <1>2 DEF ItemsOf, Distinct
<1>5. QED BY <1>1, <1>3, <1>4 DEF t

\* get takes its item out, and it was there once.
LEMMA ItemsOfTail ==
    ASSUME NEW s \in Seq(Items), s # <<>>, Distinct(s)
    PROVE  /\ Tail(s) \in Seq(Items) /\ Head(s) \in Items
           /\ Head(s) # Stop => Head(s) \in ItemsOf(s)
           /\ ItemsOf(Tail(s)) = ItemsOf(s) \ {Head(s)}
           /\ Distinct(Tail(s))
<1> DEFINE t == Tail(s)
<1>1. /\ t \in Seq(Items) /\ Len(t) = Len(s) - 1 /\ Head(s) = s[1] /\ Len(s) \in Nat \ {0}
      /\ \A i \in 1..Len(t) : t[i] = s[i + 1]
  OBVIOUS
<1>2. s[1] \in Items
  BY <1>1
<1> HIDE DEF t
<1>3. ItemsOf(t) = ItemsOf(s) \ {s[1]}
  <2>1. ASSUME NEW x \in ItemsOf(t)
        PROVE  x \in ItemsOf(s) /\ x # s[1]
    <3>1. PICK i \in 1..Len(t) : x = t[i] /\ x # Stop
      BY <2>1 DEF ItemsOf
    <3>2. i + 1 \in 1..Len(s) /\ i + 1 # 1 /\ 1 \in 1..Len(s) /\ x = s[i + 1]
      BY <1>1, <3>1
    <3>3. QED BY <3>1, <3>2 DEF ItemsOf, Distinct
  <2>2. ASSUME NEW x \in ItemsOf(s), x # s[1]
        PROVE  x \in ItemsOf(t)
    <3>1. PICK i \in 1..Len(s) : x = s[i] /\ x # Stop
      BY <2>2 DEF ItemsOf
    <3>2. i - 1 \in 1..Len(t) /\ t[i - 1] = x
      BY <1>1, <2>2, <3>1
    <3>3. QED BY <3>1, <3>2 DEF ItemsOf
  <2>3. QED BY <2>1, <2>2
<1>4. Distinct(t)
  <2>1. ASSUME NEW i \in 1..Len(t), NEW j \in 1..Len(t), t[i] = t[j], t[i] # Stop
        PROVE  i = j
    <3>1. i + 1 \in 1..Len(s) /\ j + 1 \in 1..Len(s) /\ s[i + 1] = s[j + 1] /\ s[i + 1] # Stop
      BY <1>1, <2>1
    <3>2. i + 1 = j + 1
      BY <3>1 DEF Distinct
    <3>3. QED BY <3>2
  <2>2. QED BY <2>1 DEF Distinct
<1>5. s[1] # Stop => s[1] \in ItemsOf(s)
  BY <1>1 DEF ItemsOf
<1>6. QED BY <1>1, <1>2, <1>3, <1>4, <1>5 DEF t

\* An empty batch and one of a single event.
LEMMA ItemsOfSmall ==
    /\ ItemsOf(<<>>) = {} /\ <<>> \in Seq(Events) /\ <<>> \in Seq(Items)
    /\ \A x \in Events : <<x>> \in Seq(Events) /\ ItemsOf(<<x>>) = {x}
    /\ Seq(Events) \subseteq Seq(Items)
    /\ Distinct(<<>>)
<1>1. ItemsOf(<<>>) = {} /\ Distinct(<<>>)
  BY DEF ItemsOf, Distinct
<1>2. ASSUME NEW x \in Events
      PROVE  ItemsOf(<<x>>) = {x}
  <2>1. x # Stop
    BY ConstAssumption
  <2>2. 1..Len(<<x>>) = {1} /\ <<x>>[1] = x
    OBVIOUS
  <2>3. QED BY <2>1, <2>2 DEF ItemsOf
<1>3. Seq(Events) \subseteq Seq(Items)
  BY DEF Items
<1>4. QED BY <1>1, <1>2, <1>3

-----------------------------------------------------------------------------
(* The invariant is inductive.                                             *)

\* It holds before the first event.
THEOREM InitInv == Init => Inv
<1> SUFFICES ASSUME Init PROVE Inv
  OBVIOUS
<1>1. IdleP \in ProducerType /\ Dead \in WorkerType /\ IdleD \in DrainerType
  BY ItemsOfSmall DEF IdleP, Dead, IdleD, ProducerType, WorkerType, DrainerType, ProducerSteps,
     WorkerSteps, DrainerSteps, Items, Threads
<1>2. Typed
  BY <1>1, ItemsOfSmall DEF Init, Typed, Threads
<1>3. /\ \A w \in Workers : worker[w].batch = <<>> /\ Batch(w) = {}
      /\ \A d \in AllDrainers : drainer[d].remaining = <<>> /\ Hand(d) = {}
      /\ Queued = {} /\ settled = {} /\ accepted = {}
  BY ItemsOfSmall DEF Init, Batch, Hand, Queued, Dead, IdleD
<1>4. \A e \in Events : Apart(e)
  BY <1>3 DEF Apart, Held
<1>5. Offered
  BY DEF Init, Offered, IdleP
<1>6. QED BY <1>2, <1>3, <1>4, <1>5, ItemsOfSmall DEF Inv, Init, WorkerIdle, DrainerIdle

\* A worker takes from the queue, reports, or moves on: what it and the queue
\* had is split between the queue, its batch and the settled events.
LEMMA WorkerMoves ==
    ASSUME Inv, NEW w \in Workers, NEW r \in WorkerType, WorkerIdle(r),
           worker' = [worker EXCEPT ![w] = r], UNCHANGED NotWorker,
           queue' \in Seq(Items), Distinct(queue'),
           NEW S \in SUBSET Events, settled' = settled \cup S,
           ItemsOf(queue') \cap ItemsOf(r.batch) = {},
           (ItemsOf(queue') \cup ItemsOf(r.batch)) \cap S = {},
           ItemsOf(queue') \cup ItemsOf(r.batch) \cup S = Queued \cup Batch(w)
    PROVE  Inv'
<1>1. /\ thread' = thread /\ producer' = producer /\ drainer' = drainer /\ accepted' = accepted
  BY DEF NotWorker
<1>2. Typed'
  BY <1>1 DEF Inv, Typed
<1>3. /\ Queued' = ItemsOf(queue') /\ Batch(w)' = ItemsOf(r.batch)
      /\ \A v \in Workers \ {w} : Batch(v)' = Batch(v)
      /\ \A d \in AllDrainers : Hand(d)' = Hand(d)
  BY <1>1 DEF Inv, Typed, Queued, Batch, Hand
<1>4. ASSUME NEW e \in Events
      PROVE  Apart(e)'
  <2>1. Apart(e)
    BY DEF Inv
  <2>2. \A d \in AllDrainers : e \in Hand(d)' <=> e \in Hand(d)
    BY <1>3
  <2>3. \A v \in Workers \ {w} : e \in Batch(v)' <=> e \in Batch(v)
    BY <1>3
  <2>4. e \in Queued' \/ e \in Batch(w)' \/ e \in S <=> e \in Queued \/ e \in Batch(w)
    BY <1>3
  <2>5. /\ ~ (e \in Queued' /\ e \in Batch(w)') /\ ~ (e \in Queued' /\ e \in S)
        /\ ~ (e \in Batch(w)' /\ e \in S)
    BY <1>3
  <2>6. e \in settled' <=> e \in settled \/ e \in S
    OBVIOUS
  <2>7. e \in accepted' <=> e \in accepted
    BY <1>1
  <2>8. QED BY <2>1, <2>2, <2>3, <2>4, <2>5, <2>6, <2>7 DEF Apart, Held
<1>5. \A v \in Workers : WorkerIdle(worker[v])'
  BY DEF Inv, Typed, WorkerIdle
<1>6. Offered' /\ \A d \in AllDrainers : DrainerIdle(drainer[d])'
  BY <1>1 DEF Inv, Offered, DrainerIdle
<1>7. QED BY <1>2, <1>4, <1>5, <1>6 DEF Inv

\* A drainer takes from the queue, reports, or moves on, likewise.
LEMMA DrainerMoves ==
    ASSUME Inv, NEW d \in AllDrainers, drainer' \in [AllDrainers -> DrainerType],
           \A c \in AllDrainers : DrainerIdle(drainer'[c]),
           \A c \in AllDrainers \ {d} : drainer'[c].remaining = drainer[c].remaining,
           UNCHANGED <<producer, worker, thread, accepted>>,
           queue' \in Seq(Items), Distinct(queue'),
           NEW S \in SUBSET Events, settled' = settled \cup S,
           ItemsOf(queue') \cap ItemsOf(drainer'[d].remaining) = {},
           (ItemsOf(queue') \cup ItemsOf(drainer'[d].remaining)) \cap S = {},
           ItemsOf(queue') \cup ItemsOf(drainer'[d].remaining) \cup S = Queued \cup Hand(d)
    PROVE  Inv'
<1>2. Typed'
  BY DEF Inv, Typed
<1>3. /\ Queued' = ItemsOf(queue') /\ Hand(d)' = ItemsOf(drainer'[d].remaining)
      /\ \A c \in AllDrainers \ {d} : Hand(c)' = Hand(c)
      /\ \A w \in Workers : Batch(w)' = Batch(w)
  BY DEF Inv, Typed, Queued, Batch, Hand
<1>4. ASSUME NEW e \in Events
      PROVE  Apart(e)'
  <2>1. Apart(e)
    BY DEF Inv
  <2>2. \A w \in Workers : e \in Batch(w)' <=> e \in Batch(w)
    BY <1>3
  <2>3. \A c \in AllDrainers \ {d} : e \in Hand(c)' <=> e \in Hand(c)
    BY <1>3
  <2>4. e \in Queued' \/ e \in Hand(d)' \/ e \in S <=> e \in Queued \/ e \in Hand(d)
    BY <1>3
  <2>5. /\ ~ (e \in Queued' /\ e \in Hand(d)') /\ ~ (e \in Queued' /\ e \in S)
        /\ ~ (e \in Hand(d)' /\ e \in S)
    BY <1>3
  <2>6. e \in settled' <=> e \in settled \/ e \in S
    OBVIOUS
  <2>7. e \in accepted' <=> e \in accepted
    OBVIOUS
  <2>8. QED BY <2>1, <2>2, <2>3, <2>4, <2>5, <2>6, <2>7 DEF Apart, Held
<1>5. \A c \in AllDrainers : DrainerIdle(drainer[c])'
  BY DEF DrainerIdle
<1>6. Offered' /\ \A w \in Workers : WorkerIdle(worker[w])'
  BY DEF Inv, Offered, WorkerIdle
<1>7. QED BY <1>2, <1>4, <1>5, <1>6 DEF Inv

\* put_nowait: the event enters the queue, or is dropped and so settled.
LEMMA PutGood ==
    ASSUME Inv, NEW p \in Producers, Put(p)
    PROVE  Inv'
<1> DEFINE e == producer[p].event
<1>1. e \in Events \ accepted /\ e # Stop /\ \A q \in Producers \ {p} : producer[q].event # e
  BY ConstAssumption DEF Inv, Offered, Put, ProducerAt
<1>2. e \notin Queued /\ e \notin settled /\ ~ Held(e)
  BY <1>1 DEF Inv, Apart
<1>3. /\ thread' = thread /\ worker' = worker /\ drainer' = drainer
      /\ accepted' = accepted \cup {e}
      /\ producer' = [producer EXCEPT ![p] = IdleP]
      /\ \/ queue' = Append(queue, e) /\ settled' = settled
         \/ queue' = queue /\ settled' = settled \cup {e}
  BY DEF Put
<1> HIDE DEF e
<1>4. /\ queue' \in Seq(Items) /\ Distinct(queue')
      /\ \/ Queued' = Queued \cup {e} /\ settled' = settled
         \/ Queued' = Queued /\ settled' = settled \cup {e}
  <2>1. queue \in Seq(Items) /\ Distinct(queue) /\ e \in Items /\ e \notin ItemsOf(queue)
    BY <1>1, <1>2 DEF Inv, Typed, Items, Queued
  <2>2. CASE queue' = Append(queue, e) /\ settled' = settled
    BY <1>1, <2>1, <2>2, ItemsOfAppend DEF Queued
  <2>3. CASE queue' = queue /\ settled' = settled \cup {e}
    BY <2>1, <2>3 DEF Queued
  <2>4. QED BY <1>3, <2>2, <2>3
<1>5. Typed'
  <2>1. IdleP \in ProducerType
    BY DEF IdleP, ProducerType, ProducerSteps, Items
  <2>2. QED BY <1>1, <1>3, <1>4, <2>1 DEF Inv, Typed
<1>6. (\A w \in Workers : Batch(w)' = Batch(w)) /\ (\A d \in AllDrainers : Hand(d)' = Hand(d))
  BY <1>3 DEF Batch, Hand
<1>7. ASSUME NEW x \in Events
      PROVE  Apart(x)'
  <2>1. Apart(x)
    BY DEF Inv
  <2>2. QED BY <1>2, <1>3, <1>4, <1>6, <2>1 DEF Apart, Held
<1>8. Offered'
  <2>1. /\ producer'[p].step = "idle" /\ producer'[p].event = Stop
        /\ \A q \in Producers \ {p} : producer'[q] = producer[q]
    BY <1>3 DEF Inv, Typed, IdleP
  <2>2. QED BY <1>1, <1>3, <2>1, ConstAssumption DEF Inv, Offered
<1>9. QED BY <1>3, <1>4, <1>5, <1>7, <1>8 DEF Inv, WorkerIdle, DrainerIdle

\* The steps of enqueue() and start() before the put.
LEMMA OfferGood ==
    ASSUME Inv, NEW p \in Producers,
           producer' \in [Producers -> ProducerType], Offered',
           UNCHANGED <<queue, drainer, accepted, settled>>,
           thread' \in Threads, worker' \in [Workers -> WorkerType],
           \A w \in Workers : worker'[w].batch = worker[w].batch /\ WorkerIdle(worker'[w])
    PROVE  Inv'
<1>1. Typed'
  BY DEF Inv, Typed
<1>2. /\ Queued' = Queued /\ (\A w \in Workers : Batch(w)' = Batch(w))
      /\ (\A d \in AllDrainers : Hand(d)' = Hand(d))
  BY DEF Queued, Batch, Hand
<1>3. \A e \in Events : Apart(e)'
  BY <1>2 DEF Inv, Apart, Held
<1>4. QED BY <1>1, <1>3 DEF Inv, WorkerIdle, DrainerIdle

\* enqueue: an event no producer holds and nobody accepted.
LEMMA EnqueueGood ==
    ASSUME Inv, NEW p \in Producers, NEW e \in Events, Enqueue(p, e)
    PROVE  Inv'
<1> DEFINE r == [step |-> IF started THEN "put" ELSE "start", event |-> e]
<1>1. r \in ProducerType /\ r.event = e
  BY DEF ProducerType, ProducerSteps, Items
<1>2. producer' = [producer EXCEPT ![p] = r] /\ e \in Fresh
      /\ UNCHANGED <<queue, drainer, accepted, settled, thread, worker>>
  BY DEF Enqueue, state
<1> HIDE DEF r
<1>3. producer' \in [Producers -> ProducerType]
  BY <1>1, <1>2 DEF Inv, Typed
<1>4. Offered'
  BY <1>1, <1>2 DEF Inv, Typed, Offered, Fresh
<1>5. QED BY <1>2, <1>3, <1>4, OfferGood DEF Inv, Typed

\* Within start() a producer keeps its event.
LEMMA StepOfProducer ==
    ASSUME Inv, NEW p \in Producers, NEW step \in ProducerSteps \ {"idle"},
           producer[p].step # "idle", ProducerTo(p, step), accepted' = accepted
    PROVE  producer' \in [Producers -> ProducerType] /\ Offered'
<1>1. producer[p] \in ProducerType
  BY DEF Inv, Typed
<1>2. [producer[p] EXCEPT !.step = step] \in ProducerType
      /\ [producer[p] EXCEPT !.step = step].event = producer[p].event
  BY <1>1 DEF ProducerType
<1>3. /\ producer' \in [Producers -> ProducerType]
      /\ \A q \in Producers : producer'[q].event = producer[q].event
      /\ \A q \in Producers \ {p} : producer'[q].step = producer[q].step
  BY <1>2 DEF Inv, Typed, ProducerTo
<1>4. QED BY <1>3 DEF Inv, Offered

\* start() makes a worker out of one that holds nothing, and forgets another.
LEMMA SpawnGood ==
    ASSUME Inv, NEW p \in Producers, StartSpawn(p)
    PROVE  Inv'
<1>1. PICK w \in Workers \ Alive :
        /\ worker' = [v \in Workers |-> IF v = w THEN New
                                        ELSE IF v \in Unstarted THEN Dead ELSE worker[v]]
        /\ thread' = w
  BY DEF StartSpawn
<1>2. New \in WorkerType /\ Dead \in WorkerType /\ New.batch = <<>> /\ Dead.batch = <<>>
      /\ WorkerIdle(New) /\ WorkerIdle(Dead)
  BY ItemsOfSmall DEF WorkerType, WorkerSteps, WorkerIdle, New, Dead
<1>3. \A v \in Workers : /\ worker[v] \in WorkerType /\ WorkerIdle(worker[v])
                         /\ v \notin Alive \/ v \in Unstarted => worker[v].batch = <<>>
  BY DEF Inv, Typed, Alive, Unstarted, WorkerIdle
<1>4. worker' \in [Workers -> WorkerType]
      /\ \A v \in Workers : worker'[v].batch = worker[v].batch /\ WorkerIdle(worker'[v])
  BY <1>1, <1>2, <1>3
<1>5. producer' \in [Producers -> ProducerType] /\ Offered'
  <2>1. producer[p].step # "idle" /\ ProducerTo(p, "run") /\ accepted' = accepted
    BY DEF StartSpawn, ProducerAt
  <2>2. QED BY <2>1, StepOfProducer DEF ProducerSteps
<1>6. UNCHANGED <<queue, drainer, accepted, settled>> /\ thread' \in Threads
  BY <1>1 DEF StartSpawn, Threads
<1>7. QED BY <1>4, <1>5, <1>6, OfferGood

\* start() runs a worker that holds nothing, or raises.
LEMMA RunGood ==
    ASSUME Inv, NEW p \in Producers, StartRun(p)
    PROVE  Inv'
<1>1. UNCHANGED <<queue, drainer, accepted, settled, thread>> /\ thread' \in Threads
  BY DEF StartRun, Inv, Typed
<1>2. CASE thread \in Unstarted
  <2> DEFINE r == [worker[thread] EXCEPT !.step = "loop"]
  <2>1. thread \in Workers /\ worker[thread] \in WorkerType /\ worker[thread].batch = <<>>
    BY <1>2 DEF Unstarted, Inv, Typed, WorkerIdle
  <2>2. r \in WorkerType /\ r.batch = worker[thread].batch /\ WorkerIdle(r)
    BY <2>1 DEF WorkerType, WorkerSteps, WorkerIdle
  <2>3. worker' = [worker EXCEPT ![thread] = r]
    BY <1>2 DEF StartRun
  <2> HIDE DEF r
  <2>4. worker' \in [Workers -> WorkerType]
        /\ \A v \in Workers : worker'[v].batch = worker[v].batch /\ WorkerIdle(worker'[v])
    BY <2>1, <2>2, <2>3 DEF Inv, Typed
  <2>5. producer[p].step # "idle" /\ ProducerTo(p, "put") /\ accepted' = accepted
    BY <1>2 DEF StartRun, ProducerAt
  <2>6. producer' \in [Producers -> ProducerType] /\ Offered'
    BY <2>5, StepOfProducer DEF ProducerSteps
  <2>7. QED BY <1>1, <2>4, <2>6, OfferGood
<1>3. CASE thread \notin Unstarted
  <2>1. producer' = [producer EXCEPT ![p] = IdleP] /\ worker' = worker
    BY <1>3 DEF StartRun
  <2>2. IdleP \in ProducerType /\ IdleP.step = "idle" /\ IdleP.event = Stop
    BY DEF IdleP, ProducerType, ProducerSteps, Items
  <2>3. producer' \in [Producers -> ProducerType]
        /\ \A q \in Producers : producer'[q] = IF q = p THEN IdleP ELSE producer[q]
    BY <2>1, <2>2 DEF Inv, Typed
  <2>4. Offered'
    BY <1>1, <2>2, <2>3, ConstAssumption DEF Inv, Offered
  <2>5. worker' \in [Workers -> WorkerType]
        /\ \A v \in Workers : worker'[v].batch = worker[v].batch /\ WorkerIdle(worker'[v])
    BY <2>1 DEF Inv, Typed
  <2>6. QED BY <1>1, <2>3, <2>4, <2>5, OfferGood
<1>4. QED BY <1>2, <1>3

\* start() and the put.
LEMMA EnqueueStepGood ==
    ASSUME Inv, NEW p \in Producers, EnqueueStep(p)
    PROVE  Inv'
<1>1. CASE StartCheck(p) \/ StartMark(p)
  <2>1. /\ producer[p].step # "idle" /\ accepted' = accepted
        /\ UNCHANGED <<queue, drainer, accepted, settled, thread, worker>>
        /\ \E step \in ProducerSteps \ {"idle"} : ProducerTo(p, step)
    BY <1>1 DEF StartCheck, StartMark, ProducerAt, ProducerSteps, state
  <2>2. producer' \in [Producers -> ProducerType] /\ Offered'
    BY <2>1, StepOfProducer
  <2>3. QED BY <2>1, <2>2, OfferGood DEF Inv, Typed
<1>2. QED BY <1>1, SpawnGood, RunGood, PutGood DEF EnqueueStep

\* The same for a worker whose batch becomes the given one.
LEMMA Took ==
    ASSUME Inv, NEW w \in Workers, NEW batch \in Seq(Events), NEW step \in WorkerSteps,
           Taking(w, batch, step), UNCHANGED NotWorker,
           step \in {"dead", "new", "loop", "get"} => batch = <<>>,
           queue' \in Seq(Items), Distinct(queue'),
           NEW S \in SUBSET Events, settled' = settled \cup S,
           ItemsOf(queue') \cap ItemsOf(batch) = {},
           (ItemsOf(queue') \cup ItemsOf(batch)) \cap S = {},
           ItemsOf(queue') \cup ItemsOf(batch) \cup S = Queued \cup Batch(w)
    PROVE  Inv'
<1> DEFINE r == [step |-> step, batch |-> batch]
<1>1. r \in WorkerType /\ WorkerIdle(r) /\ worker' = [worker EXCEPT ![w] = r] /\ r.batch = batch
  BY DEF WorkerType, WorkerIdle, Taking
<1> HIDE DEF r
<1>2. ItemsOf(r.batch) = ItemsOf(batch)
  BY <1>1
<1>3. QED BY <1>1, <1>2, WorkerMoves

\* _run, _collect_batch and _flush, with the pill at every place.
LEMMA WorkerGood ==
    ASSUME Inv, NEW w \in Workers, WorkerStep(w)
    PROVE  Inv'
<1>1. /\ queue \in Seq(Items) /\ Distinct(queue) /\ worker[w] \in WorkerType
      /\ WorkerIdle(worker[w]) /\ worker[w].batch \in Seq(Events)
      /\ Batch(w) = ItemsOf(worker[w].batch) /\ Queued = ItemsOf(queue)
      /\ Batch(w) \subseteq Events /\ Queued \cap Batch(w) = {}
  <2>1. worker[w] \in WorkerType /\ worker[w].batch \in Seq(Events)
    BY DEF Inv, Typed, WorkerType
  <2>2. Batch(w) \subseteq Events
    BY <2>1 DEF Batch, ItemsOf
  <2>3. Queued \cap Batch(w) = {}
    BY <2>2 DEF Inv, Apart, Held
  <2>4. QED BY <2>1, <2>2, <2>3 DEF Inv, Typed, Batch, Queued
<1>2. CASE WorkerLoop(w)
  <2> DEFINE step == IF stopping THEN "dead" ELSE "get"
  <2>1. worker[w].batch = <<>> /\ Batch(w) = {}
    BY <1>1, <1>2, ItemsOfSmall DEF WorkerLoop, WorkerAt, WorkerIdle
  <2>2. Taking(w, <<>>, step) /\ UNCHANGED NotWorker /\ queue' = queue /\ settled' = settled \cup {}
    BY <1>2 DEF WorkerLoop, Taking, Dead
  <2>3. step \in WorkerSteps
    BY DEF WorkerSteps
  <2> HIDE DEF step
  <2>4. <<>> \in Seq(Events) /\ ItemsOf(<<>>) = {}
    BY ItemsOfSmall
  <2>5. QED BY <1>1, <2>1, <2>2, <2>3, <2>4, Took
<1>3. CASE WorkerGet(w)
  <2>1. worker[w].batch = <<>> /\ Batch(w) = {} /\ queue # <<>>
    BY <1>1, <1>3, ItemsOfSmall DEF WorkerGet, WorkerAt, WorkerIdle
  <2>2. /\ Tail(queue) \in Seq(Items) /\ Head(queue) \in Items
        /\ Head(queue) # Stop => Head(queue) \in Queued
        /\ ItemsOf(Tail(queue)) = Queued \ {Head(queue)} /\ Distinct(Tail(queue))
    BY <1>1, <2>1, ItemsOfTail
  <2>3. queue' = Tail(queue) /\ UNCHANGED NotWorker /\ settled' = settled \cup {}
    BY <1>3 DEF WorkerGet
  <2>4. CASE Head(queue) = Stop
    <3>1. Taking(w, <<>>, "loop") /\ "loop" \in WorkerSteps
      BY <1>3, <2>4 DEF WorkerGet, WorkerSteps
    <3>2. Stop \notin Queued /\ <<>> \in Seq(Events) /\ ItemsOf(<<>>) = {}
      BY ItemsOfSmall DEF Queued, ItemsOf
    <3>3. ItemsOf(queue') = Queued
      BY <2>2, <2>3, <2>4, <3>2
    <3>4. queue' \in Seq(Items) /\ Distinct(queue')
      BY <2>2, <2>3
    <3>5. QED BY <2>1, <2>3, <3>1, <3>2, <3>3, <3>4, Took
  <2>5. CASE Head(queue) # Stop
    <3> DEFINE h == Head(queue)
    <3>1. Taking(w, <<h>>, "more") /\ h \in Events
      BY <1>3, <2>2, <2>5 DEF WorkerGet, Items
    <3>2. h \in Queued /\ ItemsOf(queue') = Queued \ {h}
      BY <2>2, <2>3, <2>5
    <3>3. queue' \in Seq(Items) /\ Distinct(queue') /\ "more" \in WorkerSteps
      BY <2>2, <2>3 DEF WorkerSteps
    <3> HIDE DEF h
    <3> DEFINE b == <<h>>
    <3>4. b \in Seq(Events) /\ ItemsOf(b) = {h} /\ Taking(w, b, "more")
      BY <3>1, ItemsOfSmall
    <3> HIDE DEF b
    <3>5. /\ ItemsOf(queue') \cap ItemsOf(b) = {} /\ (ItemsOf(queue') \cup ItemsOf(b)) \cap {} = {}
          /\ ItemsOf(queue') \cup ItemsOf(b) \cup {} = Queued \cup Batch(w)
      BY <2>1, <3>2, <3>4
    <3>6. QED BY <2>3, <3>3, <3>4, <3>5, Took
  <2>6. QED BY <2>4, <2>5
<1>4. CASE WorkerGetTimeout(w)
  <2>1. worker[w].batch = <<>> /\ Batch(w) = {}
    BY <1>1, <1>4, ItemsOfSmall DEF WorkerGetTimeout, WorkerAt, WorkerIdle
  <2>2. Taking(w, <<>>, "loop") /\ UNCHANGED NotWorker /\ queue' = queue
        /\ settled' = settled \cup {} /\ "loop" \in WorkerSteps
    BY <1>4 DEF WorkerGetTimeout, WorkerSteps
  <2>3. <<>> \in Seq(Events) /\ ItemsOf(<<>>) = {}
    BY ItemsOfSmall
  <2>4. QED BY <1>1, <2>1, <2>2, <2>3, Took
<1>5. CASE WorkerMore(w)
  <2> DEFINE batch == worker[w].batch
  <2>1. UNCHANGED NotWorker /\ settled' = settled \cup {} /\ {"report", "more"} \subseteq WorkerSteps
    BY <1>5 DEF WorkerMore, WorkerSteps
  <2>2. CASE Taking(w, batch, "report") /\ queue' = queue
    <3>1. batch \in Seq(Events) /\ ItemsOf(batch) = Batch(w)
      BY <1>1
    <3> HIDE DEF batch
    <3>2. QED BY <1>1, <2>1, <2>2, <3>1, Took
  <2>3. CASE queue # <<>> /\ queue' = Tail(queue)
             /\ Taking(w, batch, "report") /\ Head(queue) = Stop
    <3>1. batch \in Seq(Events) /\ ItemsOf(batch) = Batch(w) /\ Taking(w, batch, "report")
      BY <1>1, <2>3
    <3>2. Tail(queue) \in Seq(Items) /\ ItemsOf(Tail(queue)) = Queued \ {Stop} /\ Distinct(Tail(queue))
      BY <1>1, <2>3, ItemsOfTail
    <3>3. Stop \notin Queued
      BY DEF Queued, ItemsOf
    <3>4. ItemsOf(queue') = Queued /\ queue' \in Seq(Items) /\ Distinct(queue')
      BY <2>3, <3>2, <3>3
    <3> HIDE DEF batch
    <3>5. QED BY <1>1, <2>1, <3>1, <3>4, Took
  <2>4. CASE queue # <<>> /\ queue' = Tail(queue)
             /\ Taking(w, Append(batch, Head(queue)), "more") /\ Head(queue) # Stop
    <3> DEFINE h == Head(queue)
               b == Append(batch, h)
    <3>1. /\ h \in Events /\ h \in Queued
          /\ ItemsOf(queue') = Queued \ {h} /\ queue' \in Seq(Items) /\ Distinct(queue')
      BY <1>1, <2>4, ItemsOfTail DEF Items
    <3> HIDE DEF h
    <3>2. b \in Seq(Events) /\ ItemsOf(b) = Batch(w) \cup {h}
      <4>1. batch \in Seq(Items) /\ h \in Items /\ h # Stop
        BY <1>1, <3>1, ItemsOfSmall, ConstAssumption DEF Items
      <4>2. ItemsOf(b) = Batch(w) \cup {h}
        BY <1>1, <4>1, ItemsOfAppend
      <4>3. QED BY <1>1, <3>1, <4>2
    <3>3. Taking(w, b, "more")
      BY <2>4 DEF h
    <3> HIDE DEF b, batch
    <3>4. /\ ItemsOf(queue') \cap ItemsOf(b) = {} /\ (ItemsOf(queue') \cup ItemsOf(b)) \cap {} = {}
          /\ ItemsOf(queue') \cup ItemsOf(b) \cup {} = Queued \cup Batch(w)
      BY <1>1, <3>1, <3>2
    <3>5. QED BY <2>1, <3>1, <3>2, <3>3, <3>4, Took
  <2>5. QED BY <1>5, <2>2, <2>3, <2>4 DEF WorkerMore, OnPill
<1>6. CASE WorkerReport(w)
  <2>1. Taking(w, <<>>, "loop") /\ UNCHANGED NotWorker /\ queue' = queue
        /\ settled' = settled \cup Batch(w) /\ "loop" \in WorkerSteps
    BY <1>6 DEF WorkerReport, WorkerSteps, Batch
  <2>2. <<>> \in Seq(Events) /\ ItemsOf(<<>>) = {}
    BY ItemsOfSmall
  <2>3. QED BY <1>1, <2>1, <2>2, Took
<1>7. QED BY <1>2, <1>3, <1>4, <1>5, <1>6 DEF WorkerStep

\* A drainer moves on within its call.
LEMMA DrainGoes ==
    ASSUME Inv, NEW d \in AllDrainers, NEW r \in DrainerType, DrainerIdle(r),
           drainer' = [drainer EXCEPT ![d] = r],
           UNCHANGED <<producer, worker, thread, accepted>>,
           queue' \in Seq(Items), Distinct(queue'),
           NEW S \in SUBSET Events, settled' = settled \cup S,
           ItemsOf(queue') \cap ItemsOf(r.remaining) = {},
           (ItemsOf(queue') \cup ItemsOf(r.remaining)) \cap S = {},
           ItemsOf(queue') \cup ItemsOf(r.remaining) \cup S = Queued \cup Hand(d)
    PROVE  Inv'
<1>1. drainer' \in [AllDrainers -> DrainerType] /\ drainer'[d] = r
      /\ \A c \in AllDrainers \ {d} : drainer'[c] = drainer[c]
  BY DEF Inv, Typed
<1>2. \A c \in AllDrainers : DrainerIdle(drainer'[c])
  BY <1>1 DEF Inv
<1>3. \A c \in AllDrainers \ {d} : drainer'[c].remaining = drainer[c].remaining
  BY <1>1
<1>4. ItemsOf(drainer'[d].remaining) = ItemsOf(r.remaining)
  BY <1>1
<1>5. QED BY <1>1, <1>2, <1>3, <1>4, DrainerMoves

\* A drain begins with empty hands, and takes the others their solitude.
LEMMA BeginGood ==
    ASSUME Inv, NEW d \in AllDrainers, NEW kind \in {"flush", "close", "exit"}, Begin(d, kind),
           UNCHANGED <<producer, worker, thread, accepted, queue, settled>>
    PROVE  Inv'
<1> DEFINE alone == /\ Alive \subseteq {thread} /\ Unstarted = {}
                    /\ \A b \in AllDrainers : drainer[b] = IdleD
           r == [IdleD EXCEPT !.step = "drain", !.kind = kind, !.old = thread,
                              !.due = accepted \ settled, !.alone = alone]
<1>1. drainer[d] = IdleD /\ IdleD \in DrainerType /\ IdleD.remaining = <<>>
  BY ItemsOfSmall DEF Begin, IdleD, DrainerType, DrainerSteps, Threads
<1>2. alone \in BOOLEAN
  OBVIOUS
<1>3. drainer' = [c \in AllDrainers |-> IF c # d THEN [drainer[c] EXCEPT !.alone = FALSE] ELSE r]
  BY DEF Begin
<1> HIDE DEF alone
<1>4. r \in DrainerType /\ r.remaining = <<>> /\ DrainerIdle(r)
  BY <1>1, <1>2 DEF DrainerType, DrainerSteps, Inv, Typed, DrainerIdle
<1> HIDE DEF r
<1>5. ASSUME NEW c \in AllDrainers
      PROVE  /\ [drainer[c] EXCEPT !.alone = FALSE] \in DrainerType
             /\ [drainer[c] EXCEPT !.alone = FALSE].remaining = drainer[c].remaining
             /\ [drainer[c] EXCEPT !.alone = FALSE].step = drainer[c].step
  BY DEF Inv, Typed, DrainerType
<1>6. /\ drainer' \in [AllDrainers -> DrainerType]
      /\ \A c \in AllDrainers : drainer'[c].remaining = drainer[c].remaining
      /\ \A c \in AllDrainers \ {d} : drainer'[c].step = drainer[c].step
      /\ drainer'[d] = r
  BY <1>1, <1>3, <1>4, <1>5
<1>7. \A c \in AllDrainers : DrainerIdle(drainer'[c])
  BY <1>4, <1>6 DEF Inv, DrainerIdle
<1>8. queue' \in Seq(Items) /\ Distinct(queue') /\ Queued = ItemsOf(queue')
      /\ ItemsOf(drainer'[d].remaining) = Hand(d) /\ Queued \cap Hand(d) = {}
  <2>1. Hand(d) = {}
    BY <1>1, ItemsOfSmall DEF Hand
  <2>2. QED BY <1>6, <2>1 DEF Inv, Typed, Queued, Hand
<1>9. settled' = settled \cup {}
  OBVIOUS
<1>10. QED BY <1>6, <1>7, <1>8, <1>9, DrainerMoves

\* _drain_and_stop, from its first get_nowait to its return.
LEMMA DrainGood ==
    ASSUME Inv, NEW d \in AllDrainers, DrainStep(d)
    PROVE  Inv'
<1>1. /\ queue \in Seq(Items) /\ Distinct(queue) /\ drainer[d] \in DrainerType
      /\ DrainerIdle(drainer[d]) /\ drainer[d].remaining \in Seq(Events)
      /\ Hand(d) = ItemsOf(drainer[d].remaining) /\ Queued = ItemsOf(queue)
      /\ Hand(d) \subseteq Events /\ Queued \cap Hand(d) = {}
  <2>1. drainer[d] \in DrainerType /\ drainer[d].remaining \in Seq(Events)
    BY DEF Inv, Typed, DrainerType
  <2>2. Hand(d) \subseteq Events
    BY <2>1 DEF Hand, ItemsOf
  <2>3. Queued \cap Hand(d) = {}
    BY <2>2 DEF Inv, Apart, Held
  <2>4. QED BY <2>1, <2>2, <2>3 DEF Inv, Typed, Hand, Queued
<1>2. /\ UNCHANGED <<producer, worker, thread, accepted>>
  BY DEF DrainStep, Drain, DrainReport, DrainPill, DrainJoin, DrainReturn, NotDrainer, state
<1>3. CASE Drain(d)
  <2>1. CASE queue = <<>> /\ DrainerTo(d, "report") /\ queue' = queue
    <3> DEFINE r == [drainer[d] EXCEPT !.step = "report"]
    <3>1. r \in DrainerType /\ DrainerIdle(r) /\ r.remaining = drainer[d].remaining
      BY <1>1 DEF DrainerType, DrainerSteps, DrainerIdle
    <3>2. drainer' = [drainer EXCEPT ![d] = r] /\ settled' = settled \cup {}
      BY <1>3, <2>1 DEF Drain, DrainerTo
    <3> HIDE DEF r
    <3>3. ItemsOf(r.remaining) = Hand(d)
      BY <1>1, <3>1
    <3>4. QED BY <1>1, <1>2, <2>1, <3>1, <3>2, <3>3, DrainGoes
  <2>2. CASE /\ queue # <<>> /\ queue' = Tail(queue)
             /\ drainer' = [drainer EXCEPT ![d].remaining = @ \o Kept(Head(queue))]
    <3> DEFINE h == Head(queue)
               rest == drainer[d].remaining \o Kept(h)
               r == [drainer[d] EXCEPT !.remaining = rest]
    <3>1. /\ queue' \in Seq(Items) /\ h \in Items /\ (h # Stop => h \in Queued)
          /\ ItemsOf(queue') = Queued \ {h} /\ Distinct(queue')
      BY <1>1, <2>2, ItemsOfTail
    <3>2. drainer[d].step = "drain"
      BY <1>3 DEF Drain, DrainerAt
    <3>3. drainer' = [drainer EXCEPT ![d] = r] /\ settled' = settled \cup {}
      BY <1>3, <2>2 DEF Drain
    <3> HIDE DEF h
    <3>4. rest \in Seq(Events) /\ ItemsOf(rest) = Hand(d) \cup ({h} \ {Stop})
      <4>1. CASE h = Stop
        <5>1. rest = drainer[d].remaining
          BY <1>1, <4>1 DEF Kept
        <5>2. QED BY <1>1, <4>1, <5>1
      <4>2. CASE h # Stop
        <5>1. h \in Events /\ rest = Append(drainer[d].remaining, h)
          BY <1>1, <3>1, <4>2 DEF Kept, Items
        <5>2. drainer[d].remaining \in Seq(Items)
          BY <1>1, ItemsOfSmall
        <5>3. ItemsOf(rest) = Hand(d) \cup ({h} \ {Stop})
          BY <1>1, <3>1, <5>1, <5>2, ItemsOfAppend
        <5>4. QED BY <1>1, <5>1, <5>3
      <4>3. QED BY <4>1, <4>2
    <3> HIDE DEF rest
    <3>5. r \in DrainerType /\ DrainerIdle(r) /\ r.remaining = rest
      BY <1>1, <3>2, <3>4 DEF DrainerType, DrainerIdle
    <3> HIDE DEF r
    <3>6. ItemsOf(r.remaining) = Hand(d) \cup ({h} \ {Stop}) /\ Stop \notin Queued
      BY <3>4, <3>5 DEF Queued, ItemsOf
    <3>7. /\ ItemsOf(queue') \cap ItemsOf(r.remaining) = {}
          /\ (ItemsOf(queue') \cup ItemsOf(r.remaining)) \cap {} = {}
          /\ ItemsOf(queue') \cup ItemsOf(r.remaining) \cup {} = Queued \cup Hand(d)
      BY <1>1, <3>1, <3>6
    <3>8. QED BY <1>2, <3>1, <3>3, <3>5, <3>7, DrainGoes
  <2>3. QED BY <1>3, <2>1, <2>2 DEF Drain
<1>4. CASE DrainReport(d)
  <2> DEFINE r == [drainer[d] EXCEPT !.step = "pill", !.remaining = <<>>]
  <2>1. r \in DrainerType /\ DrainerIdle(r) /\ r.remaining = <<>>
    BY <1>1, ItemsOfSmall DEF DrainerType, DrainerSteps, DrainerIdle
  <2>2. drainer' = [drainer EXCEPT ![d] = r] /\ settled' = settled \cup Hand(d) /\ queue' = queue
    BY <1>1, <1>4 DEF DrainReport, state
  <2> HIDE DEF r
  <2>3. ItemsOf(r.remaining) = {} /\ ItemsOf(queue') = Queued
    BY <1>1, <2>1, <2>2, ItemsOfSmall
  <2>4. /\ ItemsOf(queue') \cap ItemsOf(r.remaining) = {}
        /\ (ItemsOf(queue') \cup ItemsOf(r.remaining)) \cap Hand(d) = {}
        /\ ItemsOf(queue') \cup ItemsOf(r.remaining) \cup Hand(d) = Queued \cup Hand(d)
    BY <1>1, <2>3
  <2>5. queue' \in Seq(Items) /\ Distinct(queue') /\ Hand(d) \in SUBSET Events
    BY <1>1, <2>2
  <2>6. QED BY <1>2, <2>1, <2>2, <2>4, <2>5, DrainGoes
<1>5. CASE DrainPill(d)
  <2> DEFINE r == [drainer[d] EXCEPT !.target = JoinTarget, !.step = "join"]
  <2>1. drainer[d].step = "pill" /\ drainer[d].remaining = <<>> /\ Hand(d) = {}
    BY <1>1, <1>5, ItemsOfSmall DEF DrainPill, DrainerAt, DrainerIdle
  <2>2. JoinTarget \in Threads
    BY DEF JoinTarget, Threads, Inv, Typed
  <2>3. r \in DrainerType /\ DrainerIdle(r) /\ r.remaining = <<>>
    BY <1>1, <2>1, <2>2 DEF DrainerType, DrainerSteps, DrainerIdle
  <2>4. drainer' = [drainer EXCEPT ![d] = r] /\ settled' = settled \cup {}
    BY <1>5 DEF DrainPill
  <2> HIDE DEF r
  <2>5. queue' \in Seq(Items) /\ Distinct(queue') /\ ItemsOf(queue') = Queued
    <3>1. queue' = queue \/ queue' = Append(queue, Stop)
      BY <1>5 DEF DrainPill, PutPill
    <3>2. Stop \in Items /\ Stop \notin ItemsOf(queue) /\ {Stop} \ {Stop} = {}
      BY DEF Items, ItemsOf
    <3>3. CASE queue' = queue
      BY <1>1, <3>3
    <3>4. CASE queue' = Append(queue, Stop)
      <4> DEFINE t == Append(queue, Stop)
      <4>1. t \in Seq(Items) /\ ItemsOf(t) = ItemsOf(queue) \cup ({Stop} \ {Stop}) /\ Distinct(t)
        BY <1>1, <3>2, ItemsOfAppend
      <4> HIDE DEF t
      <4>2. queue' = t
        BY <3>4 DEF t
      <4>3. QED BY <1>1, <4>1, <4>2
    <3>5. QED BY <3>1, <3>3, <3>4
  <2>6. ItemsOf(r.remaining) = {}
    BY <2>3, ItemsOfSmall
  <2>7. QED BY <1>2, <2>1, <2>3, <2>4, <2>5, <2>6, DrainGoes
<1>6. CASE DrainJoin(d)
  <2> DEFINE joined == /\ drainer[d].target \notin Alive
                       /\ drainer[d].alone /\ thread = drainer[d].old
             r == [drainer[d] EXCEPT !.step = "return", !.target = NoThread, !.joined = joined]
  <2>1. drainer[d].step = "join" /\ drainer[d].remaining = <<>> /\ Hand(d) = {}
    BY <1>1, <1>6, ItemsOfSmall DEF DrainJoin, DrainerAt, DrainerIdle
  <2>2. drainer' = [drainer EXCEPT ![d] = r] /\ settled' = settled \cup {} /\ queue' = queue
    BY <1>6 DEF DrainJoin
  <2>3. joined \in BOOLEAN /\ NoThread \in Threads
    BY DEF Threads
  <2> HIDE DEF joined
  <2>4. r \in DrainerType /\ DrainerIdle(r) /\ r.remaining = <<>>
    BY <1>1, <2>1, <2>3 DEF DrainerType, DrainerSteps, DrainerIdle
  <2> HIDE DEF r
  <2>5. ItemsOf(r.remaining) = {}
    BY <2>4, ItemsOfSmall
  <2>6. QED BY <1>1, <1>2, <2>1, <2>2, <2>4, <2>5, DrainGoes
<1>7. CASE DrainReturn(d)
  <2>1. Hand(d) = {}
    BY <1>1, <1>7, ItemsOfSmall DEF DrainReturn, DrainerAt, DrainerIdle
  <2>2. drainer' = [drainer EXCEPT ![d] = IdleD] /\ settled' = settled \cup {} /\ queue' = queue
    BY <1>7 DEF DrainReturn
  <2>3. IdleD \in DrainerType /\ IdleD.remaining = <<>> /\ DrainerIdle(IdleD)
    BY ItemsOfSmall DEF IdleD, DrainerType, DrainerSteps, Threads, DrainerIdle
  <2>4. ItemsOf(IdleD.remaining) = {}
    BY <2>3, ItemsOfSmall
  <2>5. QED BY <1>1, <1>2, <2>1, <2>2, <2>3, <2>4, DrainGoes
<1>8. QED BY <1>3, <1>4, <1>5, <1>6, <1>7 DEF DrainStep

\* No step of a producer, a worker or a drain breaks it.
THEOREM StepInv == Inv /\ [Next]_vars => Inv'
<1> SUFFICES ASSUME Inv, [Next]_vars PROVE Inv'
  OBVIOUS
<1>1. CASE UNCHANGED vars
  <2>1. UNCHANGED <<queue, thread, producer, worker, drainer, accepted, settled>>
    BY <1>1 DEF vars, state
  <2>2. QED BY <2>1 DEF Inv, Typed, Distinct, WorkerIdle, DrainerIdle, Offered, Apart, Held, Queued, Batch, Hand
<1>2. ASSUME NEW d \in Drainers, NEW kind \in DrainKinds, CallDrain(d, kind)
      PROVE  Inv'
  <2>1. d \in AllDrainers /\ kind \in {"flush", "close", "exit"} /\ Begin(d, kind)
        /\ UNCHANGED <<producer, worker, thread, accepted, queue, settled>>
    BY <1>2, ConstAssumption DEF CallDrain, AllDrainers
  <2>2. QED BY <2>1, BeginGood
<1>3. CASE Exit
  <2>1. Exiter \in AllDrainers /\ Begin(Exiter, "exit")
        /\ UNCHANGED <<producer, worker, thread, accepted, queue, settled>>
    BY <1>3 DEF Exit, AllDrainers
  <2>2. QED BY <2>1, BeginGood
<1>4. QED BY <1>1, <1>2, <1>3, EnqueueGood, EnqueueStepGood, WorkerGood, DrainGood DEF Next

\* The places of the events are disjoint and complete in every behaviour.
THEOREM AlwaysInv == Spec => []Inv
BY InitInv, StepInv, PTL DEF Spec

\* Every accepted event is in exactly one place, whatever workers, drains and
\* the finalizer race for the queue: none is lost and none is reported twice.
THEOREM Once == Spec => []ExactlyOnce
<1>1. ASSUME Inv, NEW e \in accepted
      PROVE  Cardinality(Places(e)) = 1
  <2> DEFINE Q == {<<"queue", i>> : i \in {j \in 1..Len(queue) : queue[j] = e}}
             B == {<<"batch", w>> : w \in {v \in Workers : e \in Batch(v)}}
             D == {<<"drain", d>> : d \in {c \in AllDrainers : e \in Hand(c)}}
             S == IF e \in settled THEN {<<"settled", 0>>} ELSE {}
  <2>1. Places(e) = Q \cup B \cup D \cup S
    BY DEF Places, Batch, Hand
  <2>2. e \in Events /\ e # Stop /\ Apart(e) /\ Distinct(queue)
    BY <1>1, ConstAssumption DEF Inv, Typed
  <2>3. e \notin Queued => Q = {}
    BY <2>2 DEF Queued, ItemsOf
  <2>4. (\A w \in Workers : e \notin Batch(w)) => B = {}
    OBVIOUS
  <2>5. (\A d \in AllDrainers : e \notin Hand(d)) => D = {}
    OBVIOUS
  <2>6. \E x : Places(e) = {x}
    <3>1. CASE e \in Queued
      <4>1. PICK i \in 1..Len(queue) : queue[i] = e
        BY <3>1 DEF Queued, ItemsOf
      <4>2. Q = {<<"queue", i>>}
        BY <2>2, <4>1 DEF Distinct
      <4>3. B = {} /\ D = {} /\ S = {}
        BY <2>2, <2>4, <2>5, <3>1 DEF Apart, Held
      <4>4. QED BY <2>1, <4>2, <4>3
    <3>2. CASE e \in settled
      <4>1. Q = {} /\ B = {} /\ D = {} /\ S = {<<"settled", 0>>}
        BY <2>2, <2>3, <2>4, <2>5, <3>2 DEF Apart, Held
      <4>2. QED BY <2>1, <4>1
    <3>3. ASSUME NEW w \in Workers, e \in Batch(w)
          PROVE  \E x : Places(e) = {x}
      <4>1. B = {<<"batch", w>>}
        BY <2>2, <3>3 DEF Apart
      <4>2. Q = {} /\ D = {} /\ S = {}
        BY <2>2, <2>3, <2>5, <3>3 DEF Apart, Held
      <4>3. QED BY <2>1, <4>1, <4>2
    <3>4. ASSUME NEW d \in AllDrainers, e \in Hand(d)
          PROVE  \E x : Places(e) = {x}
      <4>1. D = {<<"drain", d>>}
        BY <2>2, <3>4 DEF Apart
      <4>2. Q = {} /\ B = {} /\ S = {}
        BY <2>2, <2>3, <2>4, <3>4 DEF Apart, Held
      <4>3. QED BY <2>1, <4>1, <4>2
    <3>5. QED BY <2>2, <3>1, <3>2, <3>3, <3>4 DEF Apart, Held
  <2>7. QED BY <2>6, FS_Singleton
<1>2. Inv => ExactlyOnce
  BY <1>1 DEF ExactlyOnce
<1>3. QED BY <1>2, AlwaysInv, PTL

-----------------------------------------------------------------------------
(* What a drain knows.                                                     *)

\* Of the events due to it: all were accepted, none is in the queue it has
\* emptied, and all are settled when it has seen its worker end.
WaitingFor(r, taken, pending, done) ==
    /\ r.step # "idle" => r.due \subseteq taken
    /\ r.step \in {"report", "pill", "join"} => r.due \cap pending = {}
    /\ r.step = "return" /\ r.joined => r.due \subseteq done
Waiting(r) == WaitingFor(r, accepted, Queued, settled)

\* Of the other threads, while it is alone with the worker it found.
Undisturbed(d, r) ==
    r.step \in {"drain", "report", "pill", "join"} /\ r.alone /\ thread = r.old =>
        /\ Alive \subseteq {thread} /\ Unstarted = {}
        /\ \A c \in AllDrainers \ {d} : drainer[c] = IdleD
        /\ r.step = "join" => r.target \in {thread, NoThread}
        /\ r.step = "join" /\ r.target = NoThread => Alive = {}

Drains == \A d \in AllDrainers : Waiting(drainer[d]) /\ Undisturbed(d, drainer[d])

\* No drain has begun.
LEMMA InitDrains == Init => Drains
<1>1. ASSUME Init, NEW d \in AllDrainers
      PROVE  drainer[d].step = "idle"
  BY <1>1 DEF Init, IdleD
<1>2. QED BY <1>1 DEF Drains, Waiting, WaitingFor, Undisturbed

\* What no drainer does: nothing that is due returns to the queue, what is
\* accepted or settled stays so, a spawn renames the thread, and only one made
\* before is brought to life.
LEMMA OthersDrains ==
    ASSUME Inv, Drains, drainer' = drainer,
           accepted \subseteq accepted', settled \subseteq settled',
           Queued' \cap accepted \subseteq Queued,
           \/ thread' = thread /\ Alive' \subseteq Alive /\ Unstarted' \subseteq Unstarted
           \/ thread' = thread /\ Unstarted # {}
           \/ \A d \in AllDrainers : thread' # drainer[d].old
    PROVE  Drains'
<1>1. ASSUME NEW d \in AllDrainers
      PROVE  Waiting(drainer[d])' /\ Undisturbed(d, drainer[d])'
  <2>1. Waiting(drainer[d]) /\ Undisturbed(d, drainer[d])
    BY DEF Drains
  <2>2. Waiting(drainer[d])'
    BY <2>1 DEF Waiting, WaitingFor
  <2>3. Undisturbed(d, drainer[d])'
    <3>1. CASE thread' = thread /\ Alive' \subseteq Alive /\ Unstarted' \subseteq Unstarted
      BY <2>1, <3>1 DEF Undisturbed
    <3>2. CASE thread' # drainer[d].old
      BY <3>2 DEF Undisturbed
    <3>3. CASE thread' = thread /\ Unstarted # {}
      BY <2>1, <3>3 DEF Undisturbed
    <3>4. QED BY <3>1, <3>2, <3>3
  <2>4. QED BY <2>2, <2>3
<1>2. QED BY <1>1 DEF Drains

\* A producer puts new events only, and a worker it spawns gets a new name.
LEMMA ProducerDrains ==
    ASSUME Inv, Drains, NEW p \in Producers, EnqueueStep(p)
    PROVE  Drains'
<1>1. CASE StartCheck(p) \/ StartMark(p)
  <2>1. UNCHANGED <<queue, thread, worker, drainer, accepted, settled>>
    BY <1>1 DEF StartCheck, StartMark, state
  <2>2. Queued' = Queued /\ Alive' = Alive /\ Unstarted' = Unstarted
    BY <2>1 DEF Queued, Alive, Unstarted
  <2>3. QED BY <2>1, <2>2, OthersDrains
<1>2. CASE StartSpawn(p)
  <2>1. /\ UNCHANGED <<queue, drainer, accepted, settled>>
        /\ \A d \in AllDrainers : thread' # drainer[d].old
    BY <1>2 DEF StartSpawn
  <2>2. Queued' = Queued
    BY <2>1 DEF Queued
  <2>3. QED BY <2>1, <2>2, OthersDrains
<1>5. CASE StartRun(p)
  <2>1. /\ UNCHANGED <<queue, drainer, thread, accepted, settled>>
        /\ (Unstarted # {} \/ worker' = worker)
    BY <1>5 DEF StartRun
  <2>2. Queued' = Queued
    BY <2>1 DEF Queued
  <2>3. CASE Unstarted # {}
    BY <2>1, <2>2, <2>3, OthersDrains
  <2>4. CASE worker' = worker
    <3>1. Alive' = Alive /\ Unstarted' = Unstarted
      BY <2>4 DEF Alive, Unstarted
    <3>2. QED BY <2>1, <2>2, <3>1, OthersDrains
  <2>5. QED BY <2>1, <2>3, <2>4
<1>3. CASE Put(p)
  <2> DEFINE e == producer[p].event
  <2>1. /\ UNCHANGED <<thread, worker, drainer>> /\ accepted' = accepted \cup {e}
        /\ \/ queue' = Append(queue, e) /\ settled' = settled
           \/ queue' = queue /\ settled' = settled \cup {e}
    BY <1>3 DEF Put
  <2>2. e \in Events \ accepted
    BY <1>3 DEF Inv, Offered, Put, ProducerAt
  <2> HIDE DEF e
  <2>3. Queued' \subseteq Queued \cup {e}
    <3>1. queue \in Seq(Items) /\ e \in Items
      BY <2>2 DEF Inv, Typed, Items
    <3>2. ItemsOf(Append(queue, e)) \subseteq ItemsOf(queue) \cup {e}
      BY <3>1, ItemsOfAppend
    <3>3. QED BY <2>1, <3>2 DEF Queued
  <2>4. Alive' = Alive /\ Unstarted' = Unstarted
    BY <2>1 DEF Alive, Unstarted
  <2>5. accepted \subseteq accepted' /\ settled \subseteq settled'
        /\ Queued' \cap accepted \subseteq Queued
    BY <2>1, <2>2, <2>3
  <2>6. QED BY <2>1, <2>4, <2>5, OthersDrains
<1>4. QED BY <1>1, <1>2, <1>3, <1>5 DEF EnqueueStep

\* A worker only takes from the queue, and only ends.
LEMMA WorkerDrains ==
    ASSUME Inv, Drains, NEW w \in Workers, WorkerStep(w)
    PROVE  Drains'
<1>1. drainer' = drainer /\ thread' = thread /\ accepted' = accepted
  BY DEF WorkerStep, WorkerLoop, WorkerGet, WorkerGetTimeout, WorkerMore, WorkerReport, NotWorker
<1>2. settled \subseteq settled'
  BY DEF WorkerStep, WorkerLoop, WorkerGet, WorkerGetTimeout, WorkerMore, WorkerReport
<1>3. Queued' \subseteq Queued
  <2>1. queue' = queue \/ (queue # <<>> /\ queue' = Tail(queue))
    BY DEF WorkerStep, WorkerLoop, WorkerGet, WorkerGetTimeout, WorkerMore, WorkerReport
  <2>2. queue # <<>> => ItemsOf(Tail(queue)) \subseteq ItemsOf(queue)
    BY ItemsOfTail DEF Inv, Typed
  <2>3. QED BY <2>1, <2>2 DEF Queued
<1>4. Alive' \subseteq Alive /\ Unstarted' \subseteq Unstarted
  <2>1. w \in Alive
    BY DEF WorkerStep, WorkerLoop, WorkerGet, WorkerGetTimeout, WorkerMore, WorkerReport, WorkerAt,
       Alive
  <2>2. \A v \in Workers \ {w} : worker'[v] = worker[v]
    BY DEF WorkerStep, WorkerLoop, WorkerGet, WorkerGetTimeout, WorkerMore, WorkerReport, Taking,
       Inv, Typed
  <2>3. w \notin Unstarted'
    BY DEF WorkerStep, WorkerLoop, WorkerGet, WorkerGetTimeout, WorkerMore, WorkerReport, Taking,
       Inv, Typed, Unstarted, Dead
  <2>4. QED BY <2>1, <2>2, <2>3 DEF Alive, Unstarted
<1>5. Queued' \cap accepted \subseteq Queued
  BY <1>3
<1>6. QED BY <1>1, <1>2, <1>4, <1>5, OthersDrains

\* A drainer that moves is disturbed by nobody it finds; any other that was
\* in a call is no longer alone.
LEMMA OwnDrains ==
    ASSUME Inv, Drains, NEW d \in AllDrainers, drainer[d] # IdleD,
           NEW r \in DrainerType, drainer' = [drainer EXCEPT ![d] = r],
           UNCHANGED <<thread, worker, accepted>>, settled \subseteq settled',
           Queued' \subseteq Queued,
           WaitingFor(r, accepted', Queued', settled'),
           r.alone = drainer[d].alone, r.old = drainer[d].old,
           r.step \in {"drain", "report", "pill", "join"}
               => drainer[d].step \in {"drain", "report", "pill", "join"},
           r.step = "join" => r.target = JoinTarget
    PROVE  Drains'
<1>1. Alive' = Alive /\ Unstarted' = Unstarted
  BY DEF Alive, Unstarted
<1>2. drainer'[d] = r /\ \A c \in AllDrainers \ {d} : drainer'[c] = drainer[c]
  BY DEF Inv, Typed
<1>3. ASSUME NEW c \in AllDrainers \ {d}
      PROVE  Waiting(drainer[c])' /\ Undisturbed(c, drainer[c])'
  <2>1. Waiting(drainer[c]) /\ Undisturbed(c, drainer[c])
    BY DEF Drains
  <2>2. Waiting(drainer[c])'
    BY <1>2, <2>1 DEF Waiting, WaitingFor
  <2>3. ~ (/\ drainer[c].step \in {"drain", "report", "pill", "join"}
           /\ drainer[c].alone /\ thread = drainer[c].old)
    BY <2>1 DEF Undisturbed
  <2>4. QED BY <1>2, <2>2, <2>3 DEF Undisturbed
<1>4. Waiting(drainer[d])' /\ Undisturbed(d, drainer[d])'
  <2>1. Undisturbed(d, drainer[d])
    BY DEF Drains
  <2>2. JoinTarget \in {thread, NoThread} /\ (JoinTarget = NoThread => thread \notin Alive)
    BY ConstAssumption DEF JoinTarget, Alive
  <2>3. Undisturbed(d, drainer[d])'
    BY <1>1, <1>2, <2>1, <2>2 DEF Undisturbed
  <2>4. Waiting(drainer[d])'
    BY <1>2 DEF Waiting, WaitingFor
  <2>5. QED BY <2>3, <2>4
<1>5. QED BY <1>3, <1>4 DEF Drains

\* A drain that begins finds out who else is about.
LEMMA BeginDrains ==
    ASSUME Inv, Drains, NEW d \in AllDrainers, NEW kind \in {"flush", "close", "exit"}, Begin(d, kind),
           UNCHANGED <<thread, worker, accepted, queue, settled>>
    PROVE  Drains'
<1> DEFINE alone == /\ Alive \subseteq {thread} /\ Unstarted = {}
                    /\ \A b \in AllDrainers : drainer[b] = IdleD
           r == [IdleD EXCEPT !.step = "drain", !.kind = kind, !.old = thread,
                              !.due = accepted \ settled, !.alone = alone]
<1>1. drainer' = [c \in AllDrainers |-> IF c # d THEN [drainer[c] EXCEPT !.alone = FALSE] ELSE r]
  BY DEF Begin
<1>2. alone => Alive \subseteq {thread} /\ Unstarted = {} /\ \A b \in AllDrainers : drainer[b] = IdleD
  OBVIOUS
<1> HIDE DEF alone
<1>3. r.step = "drain" /\ r.old = thread /\ r.due = accepted \ settled /\ r.alone = alone
  BY DEF IdleD
<1> HIDE DEF r
<1>4. Alive' = Alive /\ Unstarted' = Unstarted /\ Queued' = Queued
  BY DEF Alive, Unstarted, Queued
<1>5. [IdleD EXCEPT !.alone = FALSE] = IdleD
  <2>1. IdleD.alone = FALSE
    BY DEF IdleD
  <2>2. IdleD \in DrainerType
    BY DEF Begin, Inv, Typed
  <2>3. QED BY <2>1, <2>2 DEF DrainerType
<1>6. drainer'[d] = r /\ \A c \in AllDrainers \ {d} : drainer'[c] = [drainer[c] EXCEPT !.alone = FALSE]
  BY <1>1
<1>7. Waiting(drainer[d])' /\ Undisturbed(d, drainer[d])'
  <2>1. Waiting(drainer[d])'
    BY <1>3, <1>6 DEF Waiting, WaitingFor
  <2>2. r.alone => \A c \in AllDrainers \ {d} : drainer'[c] = IdleD
    BY <1>2, <1>3, <1>5, <1>6
  <2>3. Undisturbed(d, drainer[d])'
    BY <1>2, <1>3, <1>4, <1>6, <2>2 DEF Undisturbed
  <2>4. QED BY <2>1, <2>3
<1>8. ASSUME NEW c \in AllDrainers \ {d}
      PROVE  Waiting(drainer[c])' /\ Undisturbed(c, drainer[c])'
  <2> DEFINE x == [drainer[c] EXCEPT !.alone = FALSE]
  <2>1. x.step = drainer[c].step /\ x.due = drainer[c].due /\ x.joined = drainer[c].joined /\ x.alone = FALSE
    BY DEF Inv, Typed, DrainerType
  <2>2. drainer'[c] = x
    BY <1>6
  <2> HIDE DEF x
  <2>3. Waiting(drainer[c])
    BY DEF Drains
  <2>4. QED BY <1>4, <2>1, <2>2, <2>3 DEF Waiting, WaitingFor, Undisturbed
<1>9. QED BY <1>7, <1>8 DEF Drains

\* Every step of a drain; the join that found the worker gone has everything
\* settled, because no place is left for what was due.
LEMMA DrainerDrains ==
    ASSUME Inv, Drains, NEW d \in AllDrainers, DrainStep(d)
    PROVE  Drains'
<1> DEFINE m == drainer[d]
<1>1. /\ m \in DrainerType /\ Waiting(m) /\ Undisturbed(d, m) /\ DrainerIdle(m)
      /\ queue \in Seq(Items) /\ Distinct(queue)
  BY DEF Inv, Typed, Drains
<1>2. m # IdleD /\ m.step # "idle"
  <2>1. m.step # "idle"
    BY DEF DrainStep, Drain, DrainReport, DrainPill, DrainJoin, DrainReturn, DrainerAt
  <2>2. IdleD.step = "idle"
    BY DEF IdleD
  <2>3. QED BY <2>1, <2>2
<1>3. UNCHANGED <<thread, worker, accepted>> /\ settled \subseteq settled'
  BY DEF DrainStep, Drain, DrainReport, DrainPill, DrainJoin, DrainReturn, NotDrainer, state
<1>4. Queued' \subseteq Queued
  <2>1. queue' = queue \/ (queue # <<>> /\ queue' = Tail(queue)) \/ queue' = Append(queue, Stop)
    BY DEF DrainStep, Drain, DrainReport, DrainPill, DrainJoin, DrainReturn, PutPill, state
  <2>2. queue # <<>> => ItemsOf(Tail(queue)) \subseteq ItemsOf(queue)
    BY <1>1, ItemsOfTail
  <2>3. ItemsOf(Append(queue, Stop)) \subseteq ItemsOf(queue)
    BY <1>1, ItemsOfAppend DEF Items
  <2>4. QED BY <2>1, <2>2, <2>3 DEF Queued
<1>5. CASE Drain(d)
  <2>1. m.step = "drain" /\ settled' = settled
    BY <1>5 DEF Drain, DrainerAt
  <2>2. CASE queue = <<>> /\ DrainerTo(d, "report") /\ queue' = queue
    <3> DEFINE r == [m EXCEPT !.step = "report"]
    <3>1. /\ r \in DrainerType /\ r.step = "report" /\ r.due = m.due /\ r.alone = m.alone
          /\ r.old = m.old
      BY <1>1 DEF DrainerType, DrainerSteps
    <3>2. drainer' = [drainer EXCEPT ![d] = r]
      BY <2>2 DEF DrainerTo
    <3> HIDE DEF r
    <3>3. Queued' = {}
      BY <2>2, ItemsOfSmall DEF Queued
    <3>4. WaitingFor(r, accepted', Queued', settled')
      BY <1>1, <1>2, <1>3, <3>1, <3>3 DEF Waiting, WaitingFor
    <3>5. QED BY <1>2, <1>3, <1>4, <2>1, <3>1, <3>2, <3>4, OwnDrains
  <2>3. CASE drainer' = [drainer EXCEPT ![d].remaining = @ \o Kept(Head(queue))] /\ queue # <<>>
    <3> DEFINE rest == m.remaining \o Kept(Head(queue))
               r == [m EXCEPT !.remaining = rest]
    <3>1. rest \in Seq(Events)
      <4>1. m.remaining \in Seq(Events)
        BY <1>1 DEF DrainerType
      <4>2. Head(queue) \in Items
        BY <1>1, <2>3, ItemsOfTail
      <4>3. Kept(Head(queue)) \in Seq(Events)
        BY <4>2, ItemsOfSmall DEF Kept, Items
      <4>4. QED BY <4>1, <4>3
    <3>2. drainer' = [drainer EXCEPT ![d] = r]
      BY <2>3
    <3> HIDE DEF rest
    <3>3. /\ r \in DrainerType /\ r.step = "drain" /\ r.due = m.due /\ r.alone = m.alone
          /\ r.old = m.old
      BY <1>1, <2>1, <3>1 DEF DrainerType
    <3> HIDE DEF r
    <3>4. WaitingFor(r, accepted', Queued', settled')
      BY <1>1, <1>2, <1>3, <3>3 DEF Waiting, WaitingFor
    <3>5. QED BY <1>2, <1>3, <1>4, <2>1, <3>2, <3>3, <3>4, OwnDrains
  <2>4. QED BY <1>5, <2>2, <2>3 DEF Drain
<1>6. CASE DrainReport(d)
  <2> DEFINE r == [m EXCEPT !.step = "pill", !.remaining = <<>>]
  <2>1. /\ r \in DrainerType /\ r.step = "pill" /\ r.due = m.due /\ r.alone = m.alone /\ r.old = m.old
    BY <1>1, ItemsOfSmall DEF DrainerType, DrainerSteps
  <2>2. drainer' = [drainer EXCEPT ![d] = r] /\ m.step = "report"
    BY <1>6 DEF DrainReport, DrainerAt
  <2> HIDE DEF r
  <2>3. WaitingFor(r, accepted', Queued', settled')
    BY <1>1, <1>3, <1>4, <2>1, <2>2 DEF Waiting, WaitingFor
  <2>4. QED BY <1>2, <1>3, <1>4, <2>1, <2>2, <2>3, OwnDrains
<1>7. CASE DrainPill(d)
  <2> DEFINE r == [m EXCEPT !.target = JoinTarget, !.step = "join"]
  <2>1. JoinTarget \in Threads
    BY DEF JoinTarget, Threads, Inv, Typed
  <2>2. /\ r \in DrainerType /\ r.step = "join" /\ r.due = m.due /\ r.alone = m.alone /\ r.old = m.old
        /\ r.target = JoinTarget
    BY <1>1, <2>1 DEF DrainerType, DrainerSteps
  <2>3. drainer' = [drainer EXCEPT ![d] = r] /\ m.step = "pill"
    BY <1>7 DEF DrainPill, DrainerAt
  <2> HIDE DEF r
  <2>4. WaitingFor(r, accepted', Queued', settled')
    BY <1>1, <1>3, <1>4, <2>2, <2>3 DEF Waiting, WaitingFor
  <2>5. QED BY <1>2, <1>3, <1>4, <2>2, <2>3, <2>4, OwnDrains
<1>8. CASE DrainJoin(d)
  <2> DEFINE joined == m.target \notin Alive /\ m.alone /\ thread = m.old
             r == [m EXCEPT !.step = "return", !.target = NoThread, !.joined = joined]
  <2>1. m.step = "join" /\ settled' = settled /\ drainer' = [drainer EXCEPT ![d] = r]
    BY <1>8 DEF DrainJoin, DrainerAt
  <2>2. joined => m.due \subseteq settled
    <3>1. SUFFICES ASSUME joined, NEW e \in m.due
                   PROVE  e \in settled
      OBVIOUS
    <3>2. Alive = {}
      BY <1>1, <2>1, <3>1 DEF Undisturbed
    <3>3. \A w \in Workers : Batch(w) = {}
      BY <3>2, ItemsOfSmall DEF Alive, Batch, Inv, WorkerIdle
    <3>4. \A c \in AllDrainers : Hand(c) = {}
      <4>1. \A c \in AllDrainers \ {d} : drainer[c].remaining = <<>>
        BY <1>1, <2>1, <3>1 DEF Undisturbed, IdleD
      <4>2. drainer[d].remaining = <<>>
        BY <1>1, <2>1 DEF DrainerIdle
      <4>3. QED BY <4>1, <4>2, ItemsOfSmall DEF Hand
    <3>5. e \in accepted /\ e \notin Queued /\ e \in Events
      BY <1>1, <2>1, <3>1 DEF Waiting, WaitingFor, Inv, Typed
    <3>6. QED BY <3>3, <3>4, <3>5 DEF Inv, Apart, Held
  <2>3. joined \in BOOLEAN /\ NoThread \in Threads
    BY DEF Threads
  <2> HIDE DEF joined
  <2>4. /\ r \in DrainerType /\ r.step = "return" /\ r.due = m.due /\ r.alone = m.alone /\ r.old = m.old
        /\ r.joined = joined
    BY <1>1, <2>3 DEF DrainerType, DrainerSteps
  <2> HIDE DEF r
  <2>5. WaitingFor(r, accepted', Queued', settled')
    BY <1>1, <1>3, <2>1, <2>2, <2>4 DEF Waiting, WaitingFor
  <2>6. QED BY <1>2, <1>3, <1>4, <2>1, <2>4, <2>5, OwnDrains
<1>9. CASE DrainReturn(d)
  <2>1. drainer' = [drainer EXCEPT ![d] = IdleD] /\ UNCHANGED <<queue, settled>>
    BY <1>9 DEF DrainReturn
  <2>2. ASSUME NEW c \in AllDrainers
        PROVE  Waiting(drainer[c])' /\ Undisturbed(c, drainer[c])'
    <3>1. Alive' = Alive /\ Unstarted' = Unstarted /\ Queued' = Queued
      BY <1>3, <2>1 DEF Alive, Unstarted, Queued
    <3>2. CASE c = d
      <4>1. drainer'[c] = IdleD /\ IdleD.step = "idle"
        BY <2>1, <3>2 DEF Inv, Typed, IdleD
      <4>2. QED BY <4>1 DEF Waiting, WaitingFor, Undisturbed
    <3>3. CASE c # d
      <4>1. drainer'[c] = drainer[c] /\ Waiting(drainer[c]) /\ Undisturbed(c, drainer[c])
        BY <2>1, <3>3 DEF Inv, Typed, Drains
      <4>2. Waiting(drainer[c])'
        BY <1>3, <2>1, <3>1, <4>1 DEF Waiting, WaitingFor
      <4>3. ~ (/\ drainer[c].step \in {"drain", "report", "pill", "join"}
               /\ drainer[c].alone /\ thread = drainer[c].old)
        BY <1>2, <3>3, <4>1 DEF Undisturbed
      <4>4. QED BY <1>3, <4>1, <4>2, <4>3 DEF Undisturbed
    <3>4. QED BY <3>2, <3>3
  <2>3. QED BY <2>2 DEF Drains
<1>10. QED BY <1>5, <1>6, <1>7, <1>8, <1>9 DEF DrainStep

\* No step makes a drain wrong about the events due to it.
THEOREM StepDrains == Inv /\ Drains /\ [Next]_vars => Drains'
<1> SUFFICES ASSUME Inv, Drains, [Next]_vars PROVE Drains'
  OBVIOUS
<1>1. CASE UNCHANGED vars
  <2>1. UNCHANGED <<queue, thread, worker, drainer, accepted, settled>>
    BY <1>1 DEF vars, state
  <2>2. Queued' = Queued /\ Alive' = Alive /\ Unstarted' = Unstarted
    BY <2>1 DEF Queued, Alive, Unstarted
  <2>3. QED BY <2>1, <2>2, OthersDrains
<1>2. ASSUME NEW p \in Producers, NEW e \in Events, Enqueue(p, e)
      PROVE  Drains'
  <2>1. UNCHANGED <<queue, thread, worker, drainer, accepted, settled>>
    BY <1>2 DEF Enqueue, state
  <2>2. Queued' = Queued /\ Alive' = Alive /\ Unstarted' = Unstarted
    BY <2>1 DEF Queued, Alive, Unstarted
  <2>3. QED BY <2>1, <2>2, OthersDrains
<1>3. ASSUME NEW d \in Drainers, NEW kind \in DrainKinds, CallDrain(d, kind)
      PROVE  Drains'
  <2>1. d \in AllDrainers /\ kind \in {"flush", "close", "exit"} /\ Begin(d, kind)
        /\ UNCHANGED <<worker, thread, accepted, queue, settled>>
    BY <1>3, ConstAssumption DEF CallDrain, AllDrainers
  <2>2. QED BY <2>1, BeginDrains
<1>4. CASE Exit
  <2>1. Exiter \in AllDrainers /\ Begin(Exiter, "exit")
        /\ UNCHANGED <<worker, thread, accepted, queue, settled>>
    BY <1>4 DEF Exit, AllDrainers
  <2>2. QED BY <2>1, BeginDrains
<1>5. QED BY <1>1, <1>2, <1>3, <1>4, ProducerDrains, WorkerDrains, DrainerDrains DEF Next

\* flush_sync and close_sync report every pending event: a drain that was
\* alone with its worker and saw it end returns with all it owed settled.
THEOREM ReportsAll == Spec => []DrainReportsAll
<1>1. Drains => DrainReportsAll
  BY DEF Drains, Waiting, WaitingFor, DrainReportsAll, DrainerAt
<1>2. Spec => []Drains
  BY InitInv, StepInv, InitDrains, StepDrains, PTL DEF Spec
<1>3. QED BY <1>1, <1>2, PTL
===============================================================================
