------------------------------ MODULE Telemetry ------------------------------
(***************************************************************************)
(* SyncTelemetryQueue of xaidr/telemetry.py: host threads enqueue events,  *)
(* a daemon worker collects batches and reports them, flush_sync and       *)
(* close_sync drain from a host thread, and a finalizer drains at exit.    *)
(*                                                                         *)
(* Nothing here is locked but queue.Queue itself: `started`, `stop_event`  *)
(* and `thread` are read and written in separate steps, as the code does.  *)
(* Each queue operation is one action.  A report() call occupies its       *)
(* caller between taking the last item and the action that settles them;   *)
(* it is assumed to return within the 2 s of join(timeout=2.0).  At the    *)
(* end of the interpreter the daemon workers stop where they are.          *)
(***************************************************************************)
EXTENDS Integers, Sequences, FiniteSets

CONSTANTS
    Events,         \* the events the host emits, each once
    Producers,      \* host threads that scan
    Drainers,       \* host threads that call flush_sync or close_sync
    Exiter,         \* the thread that runs the finalizer at interpreter exit
    Workers,        \* worker thread incarnations
    NoThread,       \* state.thread = None
    Stop,           \* _STOP
    QueueCap,       \* queue.Queue(maxsize)
    BatchSize,      \* batch_size
    DrainKinds,     \* the calls a drainer makes: "flush", "close"
    MaxDrains       \* bound: flush_sync and close_sync calls

ASSUME ConstAssumption ==
    /\ IsFiniteSet(Events)
    /\ Stop \notin Events
    /\ NoThread \notin Workers
    /\ Exiter \notin Drainers
    /\ QueueCap \in Nat \ {0}
    /\ BatchSize \in Nat \ {0}
    /\ DrainKinds \subseteq {"flush", "close"}
    /\ MaxDrains \in Nat

VARIABLES
    queue,          \* state.queue
    started,        \* state.started
    stopping,       \* state.stop_event
    thread,         \* state.thread
    finalizer,      \* a weakref.finalize is registered
    closed,         \* reporter.close() was called
    producer,       \* producer -> the step of its enqueue() and the event
    worker,         \* worker -> its step and batch
    drainer,        \* drainer -> its step, call, and what it took
    drains,         \* how many drains ran
    process,        \* the interpreter is up, exiting, or over
    accepted,       \* history: events put_nowait took
    settled         \* history: events handed to report(), in whatever outcome

state == <<queue, started, stopping, thread, finalizer, closed>>
vars == <<state, producer, worker, drainer, drains, process, accepted,
          settled>>

AllDrainers == Drainers \cup {Exiter}
Fresh == Events \ (accepted \cup {producer[p].event : p \in Producers})

IdleP == [step |-> "idle", event |-> Stop]
Dead == [step |-> "dead", batch |-> <<>>]
New == [step |-> "new", batch |-> <<>>]     \* a Thread that was not started
IdleD == [step |-> "idle", kind |-> "flush", remaining |-> <<>>,
          target |-> NoThread, due |-> {}, old |-> NoThread, alone |-> FALSE,
          joined |-> FALSE]

Init ==
    /\ queue = <<>>
    /\ started = FALSE
    /\ stopping = FALSE
    /\ thread = NoThread
    /\ finalizer = FALSE
    /\ closed = FALSE
    /\ producer = [p \in Producers |-> IdleP]
    /\ worker = [w \in Workers |-> Dead]
    /\ drainer = [d \in AllDrainers |-> IdleD]
    /\ drains = 0
    /\ process = "up"
    /\ accepted = {}
    /\ settled = {}

Alive == {w \in Workers : worker[w].step \notin {"dead", "new"}}
Unstarted == {w \in Workers : worker[w].step = "new"}
ItemsOf(s) == {s[i] : i \in 1..Len(s)} \ {Stop}

-----------------------------------------------------------------------------
(* enqueue() and start().                                                  *)

ProducerAt(p, step) == producer[p].step = step
ProducerTo(p, step) == producer' = [producer EXCEPT ![p].step = step]

\* enqueue: if not state.started: self.start()
Enqueue(p, e) ==
    /\ producer[p] = IdleP
    /\ process = "up"
    /\ e \in Fresh
    /\ producer' = [producer EXCEPT ![p] =
           [step |-> IF started THEN "put" ELSE "start", event |-> e]]
    /\ UNCHANGED <<state, worker, drainer, drains, process, accepted, settled>>

\* start: if state.started: return
StartCheck(p) ==
    /\ ProducerAt(p, "start")
    /\ ProducerTo(p, IF started THEN "put" ELSE "mark")
    /\ UNCHANGED <<state, worker, drainer, drains, process, accepted, settled>>

\* start: state.started = True and stop_event.clear().
StartMark(p) ==
    /\ ProducerAt(p, "mark")
    /\ ProducerTo(p, "spawn")
    /\ started' = TRUE
    /\ stopping' = FALSE
    /\ UNCHANGED <<queue, thread, finalizer, closed, worker, drainer, drains,
                   process, accepted, settled>>

\* start: state.thread = Thread(...).  One that was there and not started yet is
\* forgotten.  A worker some drain remembers keeps its identity until it ends.
StartSpawn(p) ==
    /\ ProducerAt(p, "spawn")
    /\ \E w \in Workers \ Alive :
        /\ \A d \in AllDrainers : w \notin {drainer[d].target, drainer[d].old}
        /\ worker' = [v \in Workers |-> IF v = w THEN New
                                       ELSE IF v \in Unstarted THEN Dead ELSE worker[v]]
        /\ thread' = w
    /\ ProducerTo(p, "run")
    /\ UNCHANGED <<queue, started, stopping, finalizer, closed, drainer, drains,
                   process, accepted, settled>>

\* start: state.thread.start(), read again, and the finalizer is registered.
\* A thread another start() has started raises RuntimeError out of enqueue:
\* the event is not queued.
StartRun(p) ==
    /\ ProducerAt(p, "run")
    /\ IF thread \in Unstarted
       THEN /\ worker' = [worker EXCEPT ![thread].step = "loop"]
            /\ finalizer' = TRUE
            /\ ProducerTo(p, "put")
       ELSE /\ producer' = [producer EXCEPT ![p] = IdleP]
            /\ UNCHANGED <<worker, finalizer>>
    /\ UNCHANGED <<queue, started, stopping, thread, closed, drainer, drains,
                   process, accepted, settled>>

\* put_nowait, or queue.Full and the event is dropped.
Put(p) ==
    /\ ProducerAt(p, "put")
    /\ producer' = [producer EXCEPT ![p] = IdleP]
    /\ accepted' = accepted \cup {producer[p].event}
    /\ IF Len(queue) < QueueCap
       THEN queue' = Append(queue, producer[p].event) /\ settled' = settled
       ELSE queue' = queue /\ settled' = settled \cup {producer[p].event}
    /\ UNCHANGED <<started, stopping, thread, finalizer, closed, worker,
                   drainer, drains, process>>

-----------------------------------------------------------------------------
(* The worker: _run, _collect_batch, _flush.                               *)

WorkerAt(w, step) == worker[w].step = step
Taking(w, batch, step) ==
    worker' = [worker EXCEPT ![w] = [step |-> step, batch |-> batch]]
NotWorker == <<started, stopping, thread, finalizer, closed, producer, drainer,
               drains, process, accepted>>

WorkerLoop(w) ==
    /\ WorkerAt(w, "loop")
    /\ worker' = [worker EXCEPT ![w] =
           IF stopping THEN Dead ELSE [step |-> "get", batch |-> <<>>]]
    /\ UNCHANGED <<NotWorker, queue, settled>>

\* get(timeout): the first item; the pill sends the worker back to its loop.
WorkerGet(w) ==
    /\ WorkerAt(w, "get")
    /\ queue # <<>>
    /\ queue' = Tail(queue)
    /\ IF Head(queue) = Stop THEN Taking(w, <<>>, "loop")
       ELSE Taking(w, <<Head(queue)>>, "more")
    /\ UNCHANGED <<NotWorker, settled>>

WorkerGetTimeout(w) ==
    /\ WorkerAt(w, "get")
    /\ queue = <<>>
    /\ Taking(w, <<>>, "loop")
    /\ UNCHANGED <<NotWorker, queue, settled>>

\* What a batch becomes when the pill is met inside it: it is reported.
OnPillDropping(batch) == <<>>
OnPill(batch) == batch

\* get_nowait until the batch is full, the queue empty, or a pill is met.
WorkerMore(w) ==
    LET batch == worker[w].batch
    IN  /\ WorkerAt(w, "more")
        /\ \/ /\ Len(batch) >= BatchSize \/ queue = <<>>
              /\ Taking(w, batch, "report")
              /\ queue' = queue
           \/ /\ Len(batch) < BatchSize
              /\ queue # <<>>
              /\ queue' = Tail(queue)
              /\ IF Head(queue) = Stop THEN Taking(w, OnPill(batch), "report")
                 ELSE Taking(w, Append(batch, Head(queue)), "more")
        /\ UNCHANGED <<NotWorker, settled>>

\* reporter.report returns or raises; a raise drops the batch with a warning.
WorkerReport(w) ==
    /\ WorkerAt(w, "report")
    /\ settled' = settled \cup ItemsOf(worker[w].batch)
    /\ Taking(w, <<>>, "loop")
    /\ UNCHANGED <<NotWorker, queue>>

-----------------------------------------------------------------------------
(* _drain_and_stop, flush_sync, close_sync, and the finalizer.             *)

DrainerAt(d, step) == drainer[d].step = step
DrainerTo(d, step) == drainer' = [drainer EXCEPT ![d].step = step]
NotDrainer == <<producer, process, accepted, drains>>

\* due, old and alone are history: what is pending, who is the worker, and
\* whether no other thread holds or will take part of it: no drain and no
\* worker, running or about to be started.
Begin(d, kind) ==
    /\ drainer[d] = IdleD
    /\ drainer' = [c \in AllDrainers |->
           IF c # d THEN [drainer[c] EXCEPT !.alone = FALSE]
           ELSE [IdleD EXCEPT
                    !.step = "drain", !.kind = kind, !.old = thread,
                    !.due = accepted \ settled,
                    !.alone = /\ Alive \subseteq {thread} /\ Unstarted = {}
                              /\ \A b \in AllDrainers : drainer[b] = IdleD]]
    /\ stopping' = TRUE

CallDrain(d, kind) ==
    /\ d \in Drainers
    /\ process = "up"
    /\ drains < MaxDrains
    /\ drains' = drains + 1
    /\ Begin(d, kind)
    /\ UNCHANGED <<queue, started, thread, finalizer, closed, producer, worker,
                   process, accepted, settled>>

\* Interpreter exit, once the host's own threads are done: the finalizer runs.
Exit ==
    /\ process = "up"
    /\ finalizer
    /\ \A p \in Producers : producer[p] = IdleP
    /\ \A d \in Drainers : drainer[d] = IdleD
    /\ process' = "exiting"
    /\ Begin(Exiter, "exit")
    /\ UNCHANGED <<queue, started, thread, finalizer, closed, producer, worker,
                   drains, accepted, settled>>

Kept(item) == IF item = Stop THEN <<>> ELSE <<item>>

Drain(d) ==
    /\ DrainerAt(d, "drain")
    /\ IF queue = <<>> THEN DrainerTo(d, "report") /\ queue' = queue
       ELSE /\ queue' = Tail(queue)
            /\ drainer' = [drainer EXCEPT ![d].remaining =
                               @ \o Kept(Head(queue))]
    /\ UNCHANGED <<NotDrainer, started, stopping, thread, finalizer, closed,
                   worker, settled>>

DrainReport(d) ==
    /\ DrainerAt(d, "report")
    /\ settled' = settled \cup ItemsOf(drainer[d].remaining)
    /\ drainer' = [drainer EXCEPT ![d].step = "pill", ![d].remaining = <<>>]
    /\ UNCHANGED <<NotDrainer, state, worker>>

\* The worker a drain waits for: the one state.thread names, if it is alive.
JoinTargetNone == NoThread
JoinTarget == IF thread \in Alive THEN thread ELSE NoThread

PutPill ==
    queue' = IF Len(queue) < QueueCap THEN Append(queue, Stop) ELSE queue

DrainPill(d) ==
    /\ DrainerAt(d, "pill")
    /\ drainer' = [drainer EXCEPT ![d].target = JoinTarget, ![d].step = "join"]
    /\ IF JoinTarget # NoThread THEN PutPill ELSE queue' = queue
    /\ UNCHANGED <<NotDrainer, started, stopping, thread, finalizer, closed,
                   worker, settled>>

\* join returns, or times out on a worker that keeps running (a start cleared
\* the stop event) or waits in get() (another worker took the pill); then
\* state.started = False.
DrainJoin(d) ==
    /\ DrainerAt(d, "join")
    /\ drainer[d].target \in Alive =>
           ~ stopping \/ worker[drainer[d].target].step = "get"
    /\ started' = FALSE
    /\ drainer' = [drainer EXCEPT ![d].step = "return",
           ![d].target = NoThread,
           ![d].joined = /\ drainer[d].target \notin Alive
                         /\ drainer[d].alone /\ thread = drainer[d].old]
    /\ UNCHANGED <<NotDrainer, queue, stopping, thread, finalizer, closed,
                   worker, settled>>

RetiresFinalizerAlways(kind) == TRUE
RetiresFinalizer(kind) == kind # "flush"

\* flush_sync returns; close_sync and the finalizer close the reporter, and
\* close_sync retires the finalizer.  After the finalizer the process is over.
DrainReturn(d) ==
    /\ DrainerAt(d, "return")
    /\ drainer' = [drainer EXCEPT ![d] = IdleD]
    /\ closed' = (closed \/ drainer[d].kind \in {"close", "exit"})
    /\ finalizer' = (finalizer /\ ~ RetiresFinalizer(drainer[d].kind))
    /\ process' = IF drainer[d].kind = "exit" THEN "over" ELSE process
    /\ UNCHANGED <<producer, accepted, drains, queue, started, stopping, thread,
                   worker, settled>>

WorkerStep(w) ==
    /\ process # "over"
    /\ \/ WorkerLoop(w)
       \/ WorkerGet(w)
       \/ WorkerGetTimeout(w)
       \/ WorkerMore(w)
       \/ WorkerReport(w)

DrainStep(d) ==
    \/ Drain(d)
    \/ DrainReport(d)
    \/ DrainPill(d)
    \/ DrainJoin(d)
    \/ DrainReturn(d)

EnqueueStep(p) ==
    \/ StartCheck(p)
    \/ StartMark(p)
    \/ StartSpawn(p)
    \/ StartRun(p)
    \/ Put(p)

Next ==
    \/ \E p \in Producers : EnqueueStep(p) \/ \E e \in Events : Enqueue(p, e)
    \/ \E w \in Workers : WorkerStep(w)
    \/ \E d \in AllDrainers : DrainStep(d)
    \/ \E d \in Drainers, kind \in DrainKinds : CallDrain(d, kind)
    \/ Exit

\* Threads that have begun a call are scheduled; the interpreter exits.
Fairness ==
    /\ \A p \in Producers : WF_vars(EnqueueStep(p))
    /\ \A w \in Workers : WF_vars(WorkerStep(w))
    /\ \A d \in AllDrainers : WF_vars(DrainStep(d))
    /\ WF_vars(Exit)

Spec == Init /\ [][Next]_vars
FairSpec == Spec /\ Fairness

-----------------------------------------------------------------------------
(* Properties.                                                             *)

TypeOK ==
    /\ queue \in Seq(Events \cup {Stop}) /\ Len(queue) <= QueueCap
    /\ started \in BOOLEAN
    /\ stopping \in BOOLEAN
    /\ thread \in Workers \cup {NoThread}
    /\ finalizer \in BOOLEAN
    /\ closed \in BOOLEAN
    /\ producer \in [Producers -> [step : {"idle", "start", "mark", "spawn", "run", "put"},
                                   event : Events \cup {Stop}]]
    /\ \A w \in Workers :
        /\ worker[w].step \in {"dead", "new", "loop", "get", "more", "report"}
        /\ worker[w].batch \in Seq(Events) /\ Len(worker[w].batch) <= BatchSize
    /\ \A d \in AllDrainers :
        /\ drainer[d].step \in {"idle", "drain", "report", "pill", "join", "return"}
        /\ drainer[d].remaining \in Seq(Events)
    /\ drains \in 0..MaxDrains
    /\ process \in {"up", "exiting", "over"}
    /\ accepted \subseteq Events
    /\ settled \subseteq Events

\* Every accepted event is in exactly one place: the queue, one worker's
\* batch, one drainer's hands, or settled.  None is lost or reported twice,
\* however workers and drains race for the queue.
Places(e) ==
    {<<"queue", i>> : i \in {j \in 1..Len(queue) : queue[j] = e}}
    \cup {<<"batch", w>> : w \in {v \in Workers : e \in ItemsOf(worker[v].batch)}}
    \cup {<<"drain", d>> : d \in {c \in AllDrainers : e \in ItemsOf(drainer[c].remaining)}}
    \cup (IF e \in settled THEN {<<"settled", 0>>} ELSE {})
ExactlyOnce == \A e \in accepted : Cardinality(Places(e)) = 1

\* flush_sync and close_sync "report every pending event": a drain that saw
\* its worker end, with no other drain or worker about (running, or about to be
\* started by an enqueue), returns with every event accepted before it began
\* settled.
DrainReportsAll ==
    \A d \in AllDrainers :
        DrainerAt(d, "return") /\ drainer[d].joined
        => drainer[d].due \subseteq settled

\* Every accepted event is eventually settled, by the worker, a drain, or the
\* finalizer at exit; but the end of the process loses what a worker held that
\* state.thread no longer named.
LostWithStray(e) ==
    /\ process = "over"
    /\ \E w \in Workers \ {thread} : e \in ItemsOf(worker[w].batch)
Settles == \A e \in Events : e \in accepted ~> (e \in settled \/ LostWithStray(e))
=============================================================================
