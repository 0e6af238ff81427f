------------------------------- MODULE RunTree -------------------------------
(***************************************************************************)
(* The run-tree index of xaidr/run_tree.py: which LangChain run, and which *)
(* root run, every telemetry event is stamped with.                        *)
(*                                                                         *)
(* Callbacks (start, end) write the index under one lock and are atomic    *)
(* here.  The stamp is not: it reads the run's entry, then the root's      *)
(* entry, and takes a sequence number under the lock in a third step, so   *)
(* callbacks of other threads interleave with it.  The gate on _active is  *)
(* read before the lock is taken, so a start is two steps as well.         *)
(*                                                                         *)
(* Left out as data: node names and paths, the parent id and the tool call *)
(* id (copied to the event, read by no decision), and the events stamped   *)
(* no_run (no enclosing run, the index is not consulted).                  *)
(***************************************************************************)
EXTENDS Integers, FiniteSets

CONSTANTS
    Ids,            \* run ids (uuid.int)
    Supplied,       \* the ids a caller may pass as config["run_id"], reusable
    Calls,          \* run occurrences on the host; a flow is named by its root
    None,           \* Python's None
    Cap,            \* MAX_LIVE_RUNS
    MemoCap,        \* _MAX_MEMO
    HandlerFaults,  \* may the handler raise before it reaches the index
    MaxEvents,      \* bound: events recorded or being stamped
    MaxUnprotects   \* bound: calls of unprotect()

ASSUME ConstAssumption ==
    /\ IsFiniteSet(Ids)
    /\ Supplied \subseteq Ids
    /\ None \notin Ids \cup Calls
    /\ Cap \in Nat \ {0}
    /\ MemoCap \in Nat \ {0}
    /\ HandlerFaults \in BOOLEAN
    /\ MaxEvents \in Nat
    /\ MaxUnprotects \in Nat

VARIABLES
    active,         \* _active
    clearing,       \* deactivate() is between _active = False and clear()
    unprotects,     \* how often deactivate() ran
    runs,           \* RunTreeIndex._runs
    birth,          \* place of a live id in the insertion order of _runs
    tainted,        \* _tainted, as places in insertion order, 0 when absent
    faulted,        \* _faulted
    ended,          \* _ended
    host,           \* the runs the host has started
    emit,           \* the stamp each call is executing
    events,         \* history: the events stamped so far
    forgot,         \* history: ids with a use the index does not recall
    touched         \* history: ids and roots a reuse was detected on

index == <<runs, birth, tainted, faulted, ended>>
vars == <<active, clearing, unprotects, index, host, emit, events, forgot,
          touched>>

-----------------------------------------------------------------------------
(* The dicts.  A bounded memo keeps insertion order; the model keeps the   *)
(* place of each id in that order, 1 for the oldest.                       *)

In(memo) == {j \in Ids : memo[j] # 0}
Empty == [j \in Ids |-> 0]
Place(aged, j) == Cardinality({i \in Ids : aged[i] # 0 /\ aged[i] <= aged[j]})

\* The last `cap` ids of a dict whose insertion order is that of `aged`.
Youngest(aged, cap) ==
    LET size == Cardinality(In(aged))
        over == IF size > cap THEN size - cap ELSE 0
    IN  [j \in Ids |-> IF aged[j] # 0 /\ Place(aged, j) > over
                       THEN Place(aged, j) - over ELSE 0]

Latest == Cardinality(Ids)
RememberAll(memo, order) ==
    Youngest([j \in Ids |-> IF j \in DOMAIN order THEN Latest + order[j]
                                                  ELSE memo[j]], MemoCap)
Remember(memo, key) == RememberAll(memo, [j \in {key} |-> 1])

\* The orders in which a Python set of ids may be iterated, `first` first.
Orders(first, S) ==
    {f \in [S \cup {first} -> 1..Cardinality(S \cup {first})] :
        /\ f[first] = 1
        /\ \A i, j \in S \cup {first} : f[i] = f[j] => i = j}

NoRun == [root |-> None, members |-> {}, seq |-> 0, collided |-> FALSE]
Run(root) == [NoRun EXCEPT !.root = root]
LiveIn(rs) == {k \in Ids : rs[k].root # None}
Live == LiveIn(runs)
Known == Live \cup In(tainted) \cup In(ended)

Without(rs, gone) == [k \in Ids |-> IF k \in gone THEN NoRun ELSE rs[k]]
Forgetting(order, gone) ==
    Youngest([k \in Ids |-> IF k \in gone THEN 0 ELSE order[k]], Latest)

-----------------------------------------------------------------------------
(* The host.                                                               *)

Unborn == [phase |-> "unborn", id |-> None, parent |-> None, flow |-> None]
Quiet == [step |-> "quiet", root |-> None, late |-> FALSE, after |-> {}]
Statuses == {"stamped", "unknown_run", "collision", "fault"}

Begun == {c \in Calls : host[c].phase \in {"running", "ended"}}
Used == {host[c].id : c \in Begun}
ParentKey(c) == IF host[c].parent = None THEN None
                ELSE host[host[c].parent].id
IdsOf(f) == {host[c].id : c \in {d \in Calls : host[d].flow = f}}

\* History: ids with a use the index never saw or no longer recalls.
RecallBut(unseen) == forgot' = forgot \cup unseen \cup (Used' \ Known')
Recall == RecallBut({})

Init ==
    /\ active = TRUE
    /\ clearing = FALSE
    /\ unprotects = 0
    /\ runs = [k \in Ids |-> NoRun]
    /\ birth = Empty
    /\ tainted = Empty
    /\ faulted = Empty
    /\ ended = Empty
    /\ host = [c \in Calls |-> Unborn]
    /\ emit = [c \in Calls |-> Quiet]
    /\ events = {}
    /\ forgot = {}
    /\ touched = {}

\* A run starts: the handler's callback passes the _active gate, or does not.
\* An id outside Supplied is minted, so no earlier call carries it.
Invoke(c, k, p) ==
    /\ host[c] = Unborn
    /\ p # None => p \in Begun
    /\ k \in Supplied \/ \A d \in Calls : host[d].id # k
    /\ host' = [host EXCEPT ![c] =
                    [phase |-> IF active THEN "starting" ELSE "running",
                     id |-> k, parent |-> p,
                     flow |-> IF p = None THEN c ELSE host[p].flow]]
    /\ UNCHANGED <<active, clearing, unprotects, index, emit, events, touched>>
    /\ RecallBut(IF active THEN {} ELSE {k})

Starting(c) ==
    /\ host[c].phase = "starting"
    /\ host' = [host EXCEPT ![c].phase = "running"]
    /\ UNCHANGED <<active, clearing, unprotects, emit, events>>

-----------------------------------------------------------------------------
(* RunTreeIndex.start, one action per way it returns.                      *)

RootOf(k) == IF k # None /\ k \in Live THEN runs[k].root ELSE None

\* _collide: taint the id, mark and taint the root of each live holder.
HoldersNewcomerOnly(key, pkey) == {pkey}
Holders(key, pkey) == {key, pkey}
TaintRoot(memo, root) == IF root = None THEN memo ELSE Remember(memo, root)
Collide(key, pkey) ==
    LET roots == {RootOf(h) : h \in Holders(key, pkey)}
    IN
    /\ tainted' = TaintRoot(TaintRoot(Remember(tainted, key), RootOf(key)),
                            RootOf(pkey))
    /\ runs' = [k \in Ids |-> IF k \in roots \cap Live
                              THEN [runs[k] EXCEPT !.collided = TRUE]
                              ELSE runs[k]]
    /\ touched' = touched \cup ({key, RootOf(key), RootOf(pkey)} \ {None})

StartReused(c) ==
    /\ Starting(c)
    /\ host[c].id \in Known
    /\ Collide(host[c].id, ParentKey(c))
    /\ UNCHANGED <<birth, faulted, ended>>
    /\ Recall

\* The parent is not indexed: the child inherits its memo and gets no entry.
StartOrphan(c) ==
    LET key == host[c].id
        pkey == ParentKey(c)
    IN  /\ Starting(c)
        /\ key \notin Known
        /\ pkey # None
        /\ pkey \notin Live \/ runs[pkey].root \notin Live
        /\ tainted' = IF pkey \notin Live /\ pkey \in In(tainted)
                      THEN Remember(tainted, key) ELSE tainted
        /\ faulted' = IF pkey \notin Live \cup In(tainted) /\ pkey \in In(faulted)
                      THEN Remember(faulted, key) ELSE faulted
        /\ UNCHANGED <<runs, birth, ended, touched>>
        /\ Recall

\* The new entry, filed under its parent's root, or as a root.
Filed(key, pkey) ==
    IF pkey = None THEN [runs EXCEPT ![key] = Run(key)]
    ELSE [runs EXCEPT ![key] = Run(runs[pkey].root),
                      ![runs[pkey].root].members = @ \cup {key}]
FiledBirth(key) == Youngest([birth EXCEPT ![key] = Latest + 1], Latest)

\* What _evict_root drops: a root and every run still filed under it.
Evicted(rs, root) == {root} \cup (rs[root].members \cap LiveIn(rs))

\* Files the run; past the cap the root of the oldest entry goes.  One
\* eviction is enough: a live run's root is live (IndexConsistent).
StartFiled(c) ==
    LET key == host[c].id
        pkey == ParentKey(c)
        grown == Filed(key, pkey)
        order == FiledBirth(key)
    IN  /\ Starting(c)
        /\ key \notin Known
        /\ pkey # None => pkey \in Live /\ runs[pkey].root \in Live
        /\ IF Cardinality(LiveIn(grown)) <= Cap
           THEN /\ runs' = grown
                /\ birth' = order
                /\ ended' = ended
           ELSE \E oldest \in {k \in Ids : order[k] = 1} :
                LET gone == Evicted(grown, grown[oldest].root)
                IN  /\ runs' = Without(grown, gone)
                    /\ birth' = Forgetting(order, gone)
                    /\ \E o \in Orders(grown[oldest].root, gone) :
                           ended' = RememberAll(ended, o)
        /\ UNCHANGED <<tainted, faulted, touched>>
        /\ Recall

\* The handler raises before it reaches the index: _on_start's except branch.
StartFaulted(c) ==
    /\ HandlerFaults
    /\ Starting(c)
    /\ faulted' = Remember(faulted, host[c].id)
    /\ UNCHANGED <<runs, birth, tainted, ended, touched>>
    /\ RecallBut({host[c].id})

-----------------------------------------------------------------------------
(* RunTreeIndex.end.  A root's end also drops its members, which are not   *)
(* remembered as ended; a member's end takes it out of its root's set.     *)

DroppedRunOnly(key) == {key}
Dropped(key) ==
    IF runs[key].root = key THEN {key} \cup runs[key].members ELSE {key}

Discard(rs, root, key) ==
    [k \in Ids |-> IF k = root /\ k \in LiveIn(rs)
                   THEN [rs[k] EXCEPT !.members = @ \ {key}] ELSE rs[k]]

End(c) ==
    LET key == host[c].id
    IN  /\ host[c].phase = "running"
        /\ host' = [host EXCEPT ![c].phase = "ended"]
        /\ IF active /\ key \in Live
           THEN /\ ended' = Remember(ended, key)
                /\ runs' = Discard(Without(runs, Dropped(key)),
                                   runs[key].root, key)
                /\ birth' = Forgetting(birth, Dropped(key))
           ELSE UNCHANGED <<runs, birth, ended>>
        /\ UNCHANGED <<active, clearing, unprotects, tainted, faulted, emit,
                       events, touched>>
        /\ Recall

-----------------------------------------------------------------------------
(* stamp(): the lock-free resolve, then next_seq.                          *)

Event(c, status, root, seq) ==
    [flow |-> host[c].flow, task |-> host[c].id, status |-> status,
     root |-> root, seq |-> seq, late |-> emit[c].late, after |-> emit[c].after]

Finish(c, event) ==
    /\ events' = events \cup {event}
    /\ emit' = [emit EXCEPT ![c] = Quiet]

InFlight == {c \in Calls : emit[c] # Quiet}
Seqs(root) == {e.seq : e \in {d \in events : d.root = root}}

MissedAsNoRun(key) == IF key \in In(tainted) THEN "collision"
                      ELSE IF key \in In(faulted) THEN "fault" ELSE "no_run"
Missed(key) == IF key \in In(tainted) THEN "collision"
               ELSE IF key \in In(faulted) THEN "fault" ELSE "unknown_run"

\* runs.get(key).  late and after record what was already settled by then.
StampLookup(c) ==
    LET key == host[c].id
    IN  /\ active
        /\ c \in Begun
        /\ emit[c] = Quiet
        /\ Cardinality(events) + Cardinality(InFlight) < MaxEvents
        /\ \/ /\ key \in Live
              /\ emit' = [emit EXCEPT ![c] =
                     [step |-> "found", root |-> runs[key].root,
                      late |-> runs[key].root \in touched,
                      after |-> Seqs(runs[key].root)]]
              /\ events' = events
           \/ /\ key \notin Live
              /\ Finish(c, Event(c, Missed(key), None, 0))
        /\ UNCHANGED <<active, clearing, unprotects, index, host, forgot,
                       touched>>

\* runs.get(run.root), root_run.collided, key in _tainted.
StampResolve(c) ==
    LET root == emit[c].root
    IN  /\ emit[c].step = "found"
        /\ \/ /\ root \notin Live
              /\ Finish(c, Event(c, "unknown_run", None, 0))
           \/ /\ root \in Live
              /\ runs[root].collided \/ host[c].id \in In(tainted)
              /\ Finish(c, Event(c, "collision", None, 0))
           \/ /\ root \in Live
              /\ ~ runs[root].collided /\ host[c].id \notin In(tainted)
              /\ emit' = [emit EXCEPT ![c].step = "resolved"]
              /\ events' = events
        /\ UNCHANGED <<active, clearing, unprotects, index, host, forgot,
                       touched>>

NextSeqLost(root) == runs
NextSeq(root) == [runs EXCEPT ![root].seq = @ + 1]

\* next_seq: 0 when the root has gone since the stamp resolved it.
StampSeq(c) ==
    LET root == emit[c].root
    IN  /\ emit[c].step = "resolved"
        /\ \/ /\ root \in Live
              /\ runs' = NextSeq(root)
              /\ Finish(c, Event(c, "stamped", root, runs[root].seq + 1))
           \/ /\ root \notin Live
              /\ runs' = runs
              /\ Finish(c, Event(c, "stamped", root, 0))
        /\ UNCHANGED <<active, clearing, unprotects, birth, tainted, faulted,
                       ended, host, forgot, touched>>

-----------------------------------------------------------------------------
(* activate() and the two steps of deactivate().                           *)

Deactivate ==
    /\ active
    /\ unprotects < MaxUnprotects
    /\ active' = FALSE
    /\ clearing' = TRUE
    /\ unprotects' = unprotects + 1
    /\ UNCHANGED <<index, host, emit, events, forgot, touched>>

Clear ==
    /\ clearing
    /\ clearing' = FALSE
    /\ runs' = [k \in Ids |-> NoRun]
    /\ birth' = Empty
    /\ tainted' = Empty
    /\ faulted' = Empty
    /\ ended' = Empty
    /\ UNCHANGED <<active, unprotects, host, emit, events, touched>>
    /\ Recall

Activate ==
    /\ ~ active
    /\ ~ clearing
    /\ active' = TRUE
    /\ UNCHANGED <<clearing, unprotects, index, host, emit, events, forgot,
                   touched>>

Next ==
    \/ \E c \in Calls, k \in Ids, p \in Calls \cup {None} : Invoke(c, k, p)
    \/ \E c \in Calls : \/ StartReused(c)
                        \/ StartOrphan(c)
                        \/ StartFiled(c)
                        \/ StartFaulted(c)
                        \/ End(c)
                        \/ StampLookup(c)
                        \/ StampResolve(c)
                        \/ StampSeq(c)
    \/ Deactivate
    \/ Clear
    \/ Activate

Spec == Init /\ [][Next]_vars

-----------------------------------------------------------------------------
(* Properties.                                                             *)

Entries == [root : Ids \cup {None}, members : SUBSET Ids, seq : Nat,
            collided : BOOLEAN]
HostRuns == [phase : {"unborn", "starting", "running", "ended"},
             id : Ids \cup {None}, parent : Calls \cup {None},
             flow : Calls \cup {None}]
Stamps == [step : {"quiet", "found", "resolved"}, root : Ids \cup {None},
           late : BOOLEAN, after : SUBSET Nat]
Events == [flow : Calls, task : Ids, status : Statuses,
           root : Ids \cup {None}, seq : Nat, late : BOOLEAN, after : SUBSET Nat]

TypeOK ==
    /\ active \in BOOLEAN
    /\ clearing \in BOOLEAN
    /\ unprotects \in Nat
    /\ runs \in [Ids -> Entries]
    /\ birth \in [Ids -> Nat]
    /\ tainted \in [Ids -> Nat]
    /\ faulted \in [Ids -> Nat]
    /\ ended \in [Ids -> Nat]
    /\ host \in [Calls -> HostRuns]
    /\ \A c \in Calls : host[c].phase # "unborn" =>
           host[c].id \in Ids /\ host[c].flow \in Calls
    /\ emit \in [Calls -> Stamps]
    /\ \A c \in Calls : emit[c].step # "quiet" =>
           c \in Begun /\ emit[c].root \in Ids
    /\ events \in SUBSET Events
    /\ forgot \in SUBSET Ids
    /\ touched \in SUBSET Ids

\* Every live run's root is live and is its own root, and a root's members are
\* exactly the other runs filed under it.  resolve() and the eviction loop of
\* start() rest on it: an entry whose root has gone would never be evicted,
\* and the loop would spin with the lock held.
RootsLive ==
    \A k \in Live : /\ runs[k].root \in Live
                    /\ runs[runs[k].root].root = runs[k].root
MembersExact ==
    \A r \in Live : runs[r].members = {k \in Live \ {r} : runs[k].root = r}
BirthsLive == In(birth) = Live
IndexConsistent == RootsLive /\ MembersExact /\ BirthsLive

\* The live-run cap holds after every callback.
LiveBounded == Cardinality(Live) <= Cap

\* "So two flows never resolve to one root", and a root two flows touched has
\* "no ids for any flow that touched it, from then on": as long as the index
\* recalls the ids, a root is stamped on the events of one flow, and on none
\* whose stamp began after a reuse touched it.
Clean(f) == IdsOf(f) \cap forgot = {}
FlowsApart ==
    /\ \A d, e \in events :
        /\ d.status = "stamped" /\ e.status = "stamped"
        /\ d.root = e.root
        /\ d.root \notin forgot
        /\ Clean(d.flow)
        => d.flow = e.flow
    /\ \A e \in events : e.status = "stamped" /\ e.late => e.root \in forgot

\* runSeq orders a flow: an event whose stamp began after another was emitted
\* gets a higher number, unless its root ended under it (runSeq 0).
SeqOrder ==
    \A e \in events :
        e.status = "stamped" /\ e.seq # 0 /\ e.root \notin forgot
        => \A n \in e.after : e.seq > n

\* A run tree leaves the index with its root: every entry belongs to a root
\* run the host is still executing, unless the end came while inactive.
NoLeak ==
    unprotects = 0 =>
        \A k \in Live : \E c \in Calls :
            host[c].phase = "running" /\ host[c].id = runs[k].root
=============================================================================
