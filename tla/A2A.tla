--------------------------------- MODULE A2A ---------------------------------
(***************************************************************************)
(* The A2A checks of xaidr (xaidr/scanner/a2a_structural.py) and the way   *)
(* xaidr/sensor.py uses them: every outbound message is walked along the   *)
(* edges the A2A specification names, within bounds, each object found is  *)
(* inspected, and the task and context ids it claims are compared with the *)
(* ids that peers issued in earlier responses.                             *)
(*                                                                         *)
(* A body is a graph of numbered objects, the first being the root, so     *)
(* that an object can be its own descendant.                               *)
(***************************************************************************)
EXTENDS Integers, Sequences, FiniteSets, SequencesExt

CONSTANTS
    Bodies,         \* outbound bodies, by name
    Replies,        \* bodies of the responses of peers, by name
    Ids, None,
    MaxDepth,       \* _MAX_NEST_DEPTH
    MaxNodes,       \* _MAX_NEST_NODES
    MaxItems,       \* _MAX_LIST_ITEMS
    Ttl,            \* ttl_seconds of the tracker
    MaxSize,        \* max_size of each store of the tracker
    FlagAt,         \* the scanner's flag threshold, in hundredths
    Enforce,        \* a2a_structural_enforcement = "block"
    MaxClock        \* bound: ticks of the clock

ASSUME ConstAssumption ==
    /\ {MaxDepth, MaxNodes, MaxItems, FlagAt, MaxClock} \subseteq Nat
    /\ {Ttl, MaxSize} \subseteq Nat \ {0}
    /\ None \notin Ids /\ IsFiniteSet(Ids)
    /\ Enforce \in BOOLEAN

\* A body is a sequence of objects, each with the objects in its fields, the
\* parts and the metadata it holds, and the ids it names.
IsBody(b) ==
    /\ b # <<>> /\ b \in Seq(ToSet(b))
    /\ \A n \in DOMAIN b :
          /\ \A f \in DOMAIN b[n].fields : b[n].fields[f].items \in Seq(DOMAIN b)
          /\ b[n].parts \in Seq(ToSet(b[n].parts))
          /\ {b[n].task, b[n].context, b[n].id} \subseteq Ids \cup {None}
ASSUME BodiesAssumption ==
    /\ \A name \in DOMAIN Bodies : IsBody(Bodies[name])
    /\ \A name \in DOMAIN Replies : IsBody(Replies[name])

VARIABLES
    walk,           \* the validation under way: _walk_a2a_nodes and its result
    known,          \* known_task_ids and known_context_ids, in insertion order
    clock,
    issued          \* history: when each id was last recorded, -1 before

vars == <<walk, known, clock, issued>>

-----------------------------------------------------------------------------
(* Shapes.                                                                 *)

EnvelopeEdges == <<[field |-> "params", kind |-> "container"],
                   [field |-> "result", kind |-> "auto"]>>
ContainerEdges == <<[field |-> "message", kind |-> "message"],
                    [field |-> "status", kind |-> "container"],
                    [field |-> "task", kind |-> "auto"],
                    [field |-> "tasks", kind |-> "auto"],
                    [field |-> "history", kind |-> "message"],
                    [field |-> "artifacts", kind |-> "artifact"],
                    [field |-> "artifact", kind |-> "artifact"]>>
Lists == {"tasks", "history", "artifacts"}
Edges(kind) == CASE kind = "envelope" -> EnvelopeEdges
                 [] kind = "container" -> ContainerEdges
                 [] OTHER -> <<>>

\* The objects in a field: a field that should be a list may hold one object
\* and the other way round; either is then no edge of the specification.
At(b, n, field) ==
    IF field \in DOMAIN b[n].fields /\ b[n].fields[field].list = (field \in Lists)
    THEN b[n].fields[field].items ELSE <<>>
One(b, n, field) == IF At(b, n, field) = <<>> THEN 0 ELSE At(b, n, field)[1]

IsBareMessage(b, n) == n # 0 /\ b[n].shape = "message"
RootKind(b) == CASE b[1].shape = "message" -> "message"
                 [] b[1].shape = "task" -> "container"
                 [] OTHER -> "envelope"
Resolved(b, n, kind) ==
    IF kind # "auto" THEN kind ELSE IF IsBareMessage(b, n) THEN "message" ELSE "container"

-----------------------------------------------------------------------------
(* The checks of one object: sets of [rule, conf].                         *)

Signal(rule, conf) == [rule |-> rule, conf |-> conf]
Fire(test, rule, conf) == IF test THEN {Signal(rule, conf)} ELSE {}

CheckEnvelope(e) ==
    Fire(e.jsonrpc = "wrong", "envelope_jsonrpc_version", 30)
    \cup Fire(e.method = "not_string", "envelope_method_not_string", 30)
    \cup Fire(e.params = "not_object", "envelope_params_not_object", 30)
    \cup Fire(e.method = "message/send" /\ ~e.message, "envelope_missing_required", 30)

\* A part has the set of contents it holds, the kind it names and a role.
CheckPart(p) ==
    Fire(p.has = {}, "part_oneof_no_content", 35)
    \cup Fire(Cardinality(p.has) > 1, "part_oneof_multiple_content", 35)
    \cup Fire(p.has # {} /\ p.kind \in {"text", "data", "file"} \ p.has,
              "part_kind_content_mismatch", 35)
    \cup Fire(p.role = "privileged", "part_role_forgery", 40)
    \cup Fire(p.role = "other", "part_unexpected_role", 30)

Read(items) == SubSeq(items, 1, IF Len(items) < MaxItems THEN Len(items) ELSE MaxItems)

Content == {"message", "artifact"}
CheckParts(node) == UNION {CheckPart(p) : p \in ToSet(Read(node.parts))}
CheckRole(node) == Fire(node.role = "invalid", "role_unexpected_value", 25)
CheckIdContent(node) ==
    Fire("traversal" \in node.ids, "id_field_traversal", 40)
    \cup Fire("injection" \in node.ids, "id_field_malicious_content", 40)
\* metadata, then extensions; the scan stops at the first prose found and at
\* an object too large to read.
CheckMetadata(node) ==
    Fire("prose" \in ToSet(node.meta), "metadata_prose_surface", 20)

Checks(b, found) ==
    LET kind == found.kind  node == b[found.node] IN
    IF kind = "envelope" THEN {}
    ELSE (IF kind \in Content THEN CheckParts(node) \cup CheckMetadata(node) ELSE {})
         \cup (IF kind = "message" THEN CheckRole(node) ELSE {})
         \cup CheckIdContent(node)

\* Metadata is read up to the first object of the body that has prose.
MetadataRead(b, nodes, i) ==
    /\ nodes[i].kind \in Content
    /\ \A j \in 1..(i - 1) :
          nodes[j].kind \in Content => "prose" \notin ToSet(b[nodes[j].node].meta)
HugeFirst(meta) == \E i \in DOMAIN meta :
    meta[i] = "huge" /\ \A j \in 1..(i - 1) : meta[j] # "prose"
Truncated(b, nodes) ==
    \E i \in DOMAIN nodes :
        /\ nodes[i].kind \in Content
        /\ \/ Len(b[nodes[i].node].parts) > MaxItems
           \/ MetadataRead(b, nodes, i) /\ HugeFirst(b[nodes[i].node].meta)

\* The end of validate: every object found is checked, and each bound that
\* was exceeded is a signal of its own.
Findings(b, nodes, bounds) ==
    LET all == bounds \cup (IF Truncated(b, nodes) THEN {"breadth"} ELSE {}) IN
    CheckEnvelope(b[1].envelope)
    \cup (UNION {Checks(b, nodes[i]) : i \in DOMAIN nodes})
    \cup Fire("depth" \in all, "a2a_nested_depth_exceeded", 35)
    \cup Fire("breadth" \in all, "a2a_nested_breadth_exceeded", 35)

Score(signals) == Max({0} \cup {s.conf : s \in signals})

-----------------------------------------------------------------------------
(* The walk.                                                               *)

Entry(n, kind, depth) == [node |-> n, kind |-> kind, depth |-> depth]
Idle == [phase |-> "idle", name |-> "none", stack |-> <<>>, seen |-> {}, nodes |-> <<>>,
         bounds |-> {}, signals |-> {}, action |-> "none"]
Body(w) == Bodies[w.name]
Started(name) ==
    [Idle EXCEPT !.phase = "walk", !.name = name, !.seen = {1},
                 !.stack = <<Entry(1, RootKind(Bodies[name]), 0)>>]

\* A node at the depth limit is reported if something below it is not read,
\* an object where a list should be too.
HasMore(b, n, kind) ==
    \E i \in DOMAIN Edges(kind) :
        LET field == Edges(kind)[i].field IN
        /\ field \in DOMAIN b[n].fields /\ b[n].fields[field].items # <<>>
        /\ b[n].fields[field].list => field \in Lists

\* The elements of a finite set in the order of a total relation, and those of
\* a sequence at some of its positions.
InOrder(S, Prior(_, _)) ==
    [k \in 1..Cardinality(S) |-> CHOOSE x \in S : Cardinality({y \in S : Prior(y, x)}) = k - 1]
Ascending(at) == InOrder(at, <)
Picked(s, at) == [k \in 1..Cardinality(at) |-> s[Ascending(at)[k]]]

\* Where the children of a node of a kind are found: which edge, and which of
\* the objects read in its field. An object that several fields hold is found
\* in the first, with the kind that field gives it.
Child(b, n, kind, p) == At(b, n, Edges(kind)[p[1]].field)[p[2]]
Places(b, n, kind) ==
    UNION {{<<i, j>> : j \in DOMAIN Read(At(b, n, Edges(kind)[i].field))} :
                i \in DOMAIN Edges(kind)}
Before(p, q) == p[1] < q[1] \/ (p[1] = q[1] /\ p[2] < q[2])
InTurn(places) == InOrder(places, Before)
Firsts(b, n, kind) ==
    {p \in Places(b, n, kind) : \A q \in Places(b, n, kind) :
        Child(b, n, kind, q) = Child(b, n, kind, p) => ~Before(q, p)}
Found(b, n, kind, p) ==
    [node |-> Child(b, n, kind, p),
     kind |-> Resolved(b, Child(b, n, kind, p), Edges(kind)[p[1]].kind)]
NodeKinds == {"envelope", "container", "message", "artifact"}
Children == [name \in DOMAIN Bodies |-> [n \in DOMAIN Bodies[name] |-> [kind \in NodeKinds |->
    LET at == InTurn(Firsts(Bodies[name], n, kind))
    IN  [k \in DOMAIN at |-> Found(Bodies[name], n, kind, at[k])]]]]
Unseen(w, e) ==
    LET found == Children[w.name][e.node][e.kind]
        fresh == Picked(found, {k \in DOMAIN found : found[k].node \notin w.seen})
    IN  [k \in DOMAIN fresh |-> Entry(fresh[k].node, fresh[k].kind, e.depth + 1)]
LongList(b, e) ==
    \E i \in DOMAIN Edges(e.kind) : Len(At(b, e.node, Edges(e.kind)[i].field)) > MaxItems

\* One turn of the loop. The variants leave a node at the depth limit on the
\* stack, and drop what is left at the node limit without a word.
Descend(w, e) ==
    LET found == [w EXCEPT !.nodes = Append(@, e), !.stack = Front(@)]
        fresh == Unseen(w, e)
    IN  IF e.depth >= MaxDepth
        THEN [found EXCEPT
                !.bounds = @ \cup (IF HasMore(Body(w), e.node, e.kind) THEN {"depth"} ELSE {})]
        ELSE [found EXCEPT
                !.bounds = @ \cup (IF LongList(Body(w), e) THEN {"breadth"} ELSE {}),
                !.seen = @ \cup {fresh[i].node : i \in DOMAIN fresh},
                !.stack = @ \o fresh]

AdvanceQuietly(w) ==
    IF Len(w.nodes) >= MaxNodes THEN [w EXCEPT !.stack = <<>>] ELSE Descend(w, Last(w.stack))
AdvanceStuck(w) ==
    IF Last(w.stack).depth >= MaxDepth
    THEN [Descend(w, Last(w.stack)) EXCEPT !.nodes = w.nodes, !.stack = w.stack]
    ELSE Descend(w, Last(w.stack))
Advance(w) ==
    IF Len(w.nodes) >= MaxNodes
    THEN [w EXCEPT !.bounds = @ \cup {"breadth"}, !.stack = <<>>]
    ELSE Descend(w, Last(w.stack))

-----------------------------------------------------------------------------
(* The id tracker.                                                         *)

Kinds == {"task", "context"}
Names(v) == {v} \ {None}

\* _collect_issued_ids: the result, its status, task and artifacts, and the
\* parameters of a streamed update. Only a result, a status and a task lend
\* their own id as a task id.
IdsOn(b, n, own, kind) ==
    IF n = 0 THEN {}
    ELSE IF kind = "context" THEN Names(b[n].context)
    ELSE Names(b[n].task) \cup (IF own THEN Names(b[n].id) ELSE {})
Collected(b, kind) ==
    LET result == One(b, 1, "result") IN
    IdsOn(b, One(b, 1, "params"), FALSE, kind)
    \cup (IF result = 0 THEN {}
          ELSE IdsOn(b, result, TRUE, kind)
               \cup IdsOn(b, One(b, result, "status"), TRUE, kind)
               \cup IdsOn(b, One(b, result, "task"), TRUE, kind)
               \cup UNION {IdsOn(b, a, FALSE, kind) : a \in ToSet(At(b, result, "artifacts"))})

\* _a2a_message: the one message whose ids an outbound body claims.
MessageOf(b) ==
    LET params == One(b, 1, "params")  result == One(b, 1, "result")
        inner == IF params = 0 THEN 0 ELSE One(b, params, "message")
    IN  IF inner # 0 THEN inner
        ELSE IF IsBareMessage(b, 1) THEN 1
        ELSE IF IsBareMessage(b, result) THEN result ELSE 0
OwnId(b, n, kind) == IF n = 0 THEN None ELSE IF kind = "task" THEN b[n].task ELSE b[n].context
Claimed(b, kind) ==
    IF OwnId(b, MessageOf(b), kind) # None THEN OwnId(b, MessageOf(b), kind)
    ELSE OwnId(b, One(b, 1, "params"), kind)
FollowUp(b) == b[1].envelope.method \in {"message/send", "other"}

\* A store is a dict: ids in the order of insertion, each with its expiry.
Holds(store, id) == \E i \in DOMAIN store : store[i].id = id
ExpiryOf(store, id) == (CHOOSE e \in ToSet(store) : e.id = id).exp
Purged(store, now) == Picked(store, {i \in DOMAIN store : store[i].exp > now})
Put(id, exp) == [id |-> id, exp |-> exp]
\* An id that is held keeps its place; the others are put in the order given.
PutAll(store, ids, order, exp) ==
    [i \in DOMAIN store |-> IF store[i].id \in ids THEN Put(store[i].id, exp) ELSE store[i]]
    \o [k \in DOMAIN order |-> Put(order[k], exp)]
Unheld(store, ids) == {id \in ids : ~Holds(store, id)}

\* _enforce_cap: the soonest to expire go, the longest held of equals first.
\* The variant drops the entries inserted first.
Sooner(store, i, j) == store[i].exp < store[j].exp \/ (store[i].exp = store[j].exp /\ i < j)
Rank(store, i) == Cardinality({j \in DOMAIN store : Sooner(store, j, i)})
CappedByAge(store) ==
    IF Len(store) <= MaxSize THEN store
    ELSE SubSeq(store, Len(store) - MaxSize + 1, Len(store))
Capped(store) ==
    Picked(store, {i \in DOMAIN store : Rank(store, i) >= Len(store) - MaxSize})

Classify(store, id, now) ==
    IF id = None \/ ~Holds(store, id) THEN "unknown"
    ELSE IF ExpiryOf(store, id) <= now THEN "expired" ELSE "known"

CheckIds(b, stores, now) ==
    LET task == Claimed(b, "task")  context == Claimed(b, "context")
        of(kind) == Classify(stores[kind], Claimed(b, kind), now)
    IN  (IF task = None THEN {}
         ELSE Fire(of("task") = "expired", "expired_task_reference", 20)
              \cup Fire(of("task") = "unknown" /\ FollowUp(b), "task_id_smuggling", 45)
              \cup Fire(of("task") = "unknown" /\ ~FollowUp(b), "unverified_task_reference", 25))
        \cup
        (IF context = None THEN {}
         ELSE Fire(of("context") = "expired", "expired_context_reference", 20)
              \cup Fire(of("context") = "unknown", "context_id_smuggling", 40))

\* _scan_a2a_impl fuses the signals into the verdict of the content.
Fused(content, signals) ==
    IF signals = {} THEN content
    ELSE IF Enforce THEN "blocked"
    ELSE IF content = "allowed" /\ Score(signals) >= FlagAt THEN "flagged" ELSE content

-----------------------------------------------------------------------------
(* Operations. The walk has no state outside its message, so it is run to  *)
(* its end before the tracker, which is behind a lock, changes again.      *)

Receive(name) ==
    /\ walk.phase = "idle"
    /\ walk' = Started(name)
    /\ UNCHANGED <<known, clock, issued>>

Visit ==
    /\ walk.phase = "walk" /\ walk.stack # <<>>
    /\ walk' = Advance(walk)
    /\ UNCHANGED <<known, clock, issued>>

\* The walk is over: the findings, the ids, and the fused verdict. Ids are
\* classified before the expired ones are purged.
Judge(content) ==
    /\ walk.phase = "walk" /\ walk.stack = <<>>
    /\ LET structure == Findings(Body(walk), walk.nodes, walk.bounds)
           signals == structure \cup CheckIds(Body(walk), known, clock)
       IN  walk' = [walk EXCEPT !.phase = "judged", !.signals = signals,
                                !.action = Fused(content, signals)]
    /\ known' = [kind \in Kinds |-> Purged(known[kind], clock)]
    /\ UNCHANGED <<clock, issued>>

Return ==
    /\ walk.phase = "judged"
    /\ walk' = Idle
    /\ UNCHANGED <<known, clock, issued>>

\* The ids of a response; a set of them is put in any order.
Recorded(kind, ids) ==
    LET store == Purged(known[kind], clock) IN
    {Capped(PutAll(store, ids, order, clock + Ttl)) : order \in SetToSeqs(Unheld(store, ids))}
Record(b) ==
    /\ walk.phase = "idle"
    /\ \E kind \in Kinds : Collected(b, kind) # {}
    /\ known' \in {new \in [Kinds -> UNION {Recorded(kind, Collected(b, kind)) : kind \in Kinds}] :
                    \A kind \in Kinds : new[kind] \in Recorded(kind, Collected(b, kind))}
    /\ issued' = [kind \in Kinds |-> [id \in Ids |->
            IF id \in Collected(b, kind) THEN clock ELSE issued[kind][id]]]
    /\ UNCHANGED <<walk, clock>>

Tick ==
    /\ walk.phase = "idle" /\ clock < MaxClock
    /\ clock' = clock + 1
    /\ UNCHANGED <<walk, known, issued>>

Init ==
    /\ walk = Idle
    /\ known = [kind \in Kinds |-> <<>>]
    /\ clock = 0
    /\ issued = [kind \in Kinds |-> [id \in Ids |-> -1]]

Step == Visit \/ (\E content \in {"allowed", "blocked"} : Judge(content)) \/ Return
Next ==
    \/ \E name \in DOMAIN Bodies : Receive(name)
    \/ Step
    \/ \E name \in DOMAIN Replies : Record(Replies[name])
    \/ Tick

\* The loop of the walk runs on the caller's thread and waits for nothing.
Spec == Init /\ [][Next]_vars /\ WF_vars(Visit)

-----------------------------------------------------------------------------
(* Properties.                                                             *)

\* Types: a store holds distinct ids, never more than MaxSize of them, and
\* no expiry beyond the time to live; the walk never holds more than
\* MaxNodes objects, each once, however the body refers to itself.
TypeOK ==
    /\ clock \in 0..MaxClock
    /\ issued \in [Kinds -> [Ids -> -1..MaxClock]]
    /\ DOMAIN known = Kinds
    /\ \A kind \in Kinds :
          /\ known[kind] \in Seq([id : Ids, exp : 0..(MaxClock + Ttl)])
          /\ Len(known[kind]) <= MaxSize
          /\ \A i, j \in DOMAIN known[kind] :
                known[kind][i].id = known[kind][j].id => i = j
    /\ walk.phase \in {"idle", "walk", "judged"}
    /\ Len(walk.nodes) <= MaxNodes
    /\ \A i, j \in DOMAIN walk.nodes : walk.nodes[i].node = walk.nodes[j].node => i = j

\* What a reader of the A2A specification finds in a body: the objects that
\* are reached by the named edges, to any depth and breadth.
Below(b, f) ==
    UNION {{[node |-> n, kind |-> Resolved(b, n, Edges(f.kind)[i].kind)] :
                n \in ToSet(At(b, f.node, Edges(f.kind)[i].field))} : i \in DOMAIN Edges(f.kind)}
Reached(b) ==
    LET within[d \in 0..(4 * Len(b))] ==
            IF d = 0 THEN {[node |-> 1, kind |-> RootKind(b)]}
            ELSE LET up == within[d - 1] IN up \cup UNION {Below(b, f) : f \in up}
    IN  within[4 * Len(b)]
\* What NothingDropped asks of the bodies: an object is read as one kind
\* wherever it is found. What is parsed from JSON is a tree, in which it is
\* found once.
OneKind ==
    \A name \in DOMAIN Bodies :
        LET body == Bodies[name] IN
        \E kindOf \in [DOMAIN body -> NodeKinds] :
            /\ kindOf[1] = RootKind(body)
            /\ \A n \in DOMAIN body : \A f \in Below(body, [node |-> n, kind |-> kindOf[n]]) :
                    f.kind = kindOf[f.node]
Readable == [name \in DOMAIN Bodies |-> Reached(Bodies[name])]
PartFaults(b, f) == UNION {CheckPart(p) : p \in ToSet(b[f.node].parts)}

\* Structure that was not examined is reported: an outbound message without
\* a bound signal was read to the end, so every fault of every message,
\* artifact and container below its root is among the signals (the contract
\* of _walk_a2a_nodes: nothing is dropped quietly).
NothingDropped ==
    (/\ walk.phase = "judged"
     /\ {s.rule : s \in walk.signals}
          \cap {"a2a_nested_depth_exceeded", "a2a_nested_breadth_exceeded"} = {})
    => \A f \in Readable[walk.name] :
            /\ Checks(Body(walk), f) \subseteq walk.signals
            /\ f.kind \in Content => PartFaults(Body(walk), f) \subseteq walk.signals

\* A follow-up to a live task is not called smuggling: an id recorded less
\* than its time to live ago, with fewer than MaxSize ids recorded as
\* recently, is known, whatever was evicted or purged in between; and what
\* is known was issued by a peer within the time to live.
IssuedIsKnown ==
    \A kind \in Kinds, id \in Ids :
        LET at == issued[kind][id]
            rivals == {other \in Ids \ {id} : issued[kind][other] >= at}
        IN  /\ (at # -1 /\ clock < at + Ttl /\ Cardinality(rivals) < MaxSize)
                  => Classify(known[kind], id, clock) = "known"
            /\ Classify(known[kind], id, clock) = "known" => at # -1 /\ clock < at + Ttl

\* Every message is judged: a body that contains itself cannot hold the
\* caller in the walk.
EveryWalkEnds == (walk.phase = "walk") ~> (walk.phase = "walk" /\ walk.stack = <<>>)
==============================================================================
