----------------------------- MODULE ValueOrigin -----------------------------
(***************************************************************************)
(* The value-origin core of xaidr (xaidr/value_origin): a ledger of where  *)
(* the destinations a flow has seen came from, and the verdict on a tool   *)
(* call whose arguments carry destinations.                                *)
(*                                                                         *)
(* A ledger is an object that the contexts of several threads may share;   *)
(* its operations run under its lock, each one at a time.  The threads of  *)
(* a server take request after request.  Nothing in xaidr binds a ledger   *)
(* yet, so the host does what the package says its callers do: a flow is   *)
(* begun with bind_fresh_ledger, a hop is recorded with bind_ledger, and   *)
(* who began a flow clears it with unbind_ledger.                          *)
(***************************************************************************)
EXTENDS Integers, Sequences, FiniteSets, SequencesExt

CONSTANTS
    Threads,
    Auths,          \* destinations, as they are keyed
    Grams,          \* token n-grams of principal text
    Inputs,         \* inputs of a principal: declared or not, split or mis-split
    Reads,          \* tool calls with what the walk of their result reaches
    Args,           \* arguments a call is evaluated on: sequences of leaves
    Designations,   \* the operator's, in order
    None,
    MaxEntries,     \* LEDGER_MAX_ENTRIES
    MaxLeaves,      \* MAX_ARG_LEAVES
    MaxRequests,    \* bound: requests of a behaviour
    MaxForks        \* bound: forks of the process

ASSUME ConstAssumption ==
    /\ {MaxEntries, MaxLeaves, MaxRequests, MaxForks} \subseteq Nat
    /\ IsFiniteSet(Threads)
    /\ None \notin Auths \cup Grams \cup BOOLEAN

\* An entry of a ledger: who vouches for a destination, and by which
\* designation when that was a read.
Labels == {Designations[i].label : i \in DOMAIN Designations}
Entries == [origin: {"principal", "untrusted", "trusted"}, declared: BOOLEAN,
            label: Labels \cup {None}]

\* The spans of an input and the keys of a read name destinations and n-grams,
\* and a read has every key of a designation that fits it, absent ones too.
\* A value has the destinations spelled in it, and a URL has one host.
SpanType == [writer: {"principal", "untrusted"}, dests: SUBSET Auths, grams: SUBSET Grams]
KeyType == [gram: Grams \cup {None}, auth: Auths \cup {None}]
ValueType == [form: {"text", "file", "too_long", "mailto", "mailbox", "url", "implied",
                     "phone", "ip"},
              parts: Seq(Auths \cup {"bad", "raw"}), spaced: BOOLEAN]

\* A designation names a tool, or a tool and the source one argument selects.
SourceMatches(d, read) == d.tool = read.tool /\ d.source \in {None, read.source}

ASSUME DataAssumption ==
    /\ None \notin Entries
    /\ "bad" \notin Auths
    /\ DOMAIN Designations \subseteq Nat
    /\ \A input \in Inputs :
          /\ input.declared \in BOOLEAN /\ input.split \in {"right", "wrong"}
          /\ input.spans \subseteq SpanType
    /\ \A read \in Reads :
          /\ read.result \subseteq Auths
          /\ \A i \in DOMAIN Designations : SourceMatches(Designations[i], read) =>
                \A k \in Designations[i].keys : read.keys[k] \in KeyType
    /\ \A args \in Args :
          /\ args \in Seq(ValueType)
          /\ \A v \in ToSet(args) : v.form \in {"url", "implied"} => Len(v.parts) <= 1

VARIABLES
    heap,           \* the ledgers; an unbound one is reused
    bound,          \* the context variable of each thread: 0 is None
    host,           \* what a thread is doing for its request
    req,            \* the request a thread works on, 0 when idle
    scanned,        \* history: the request scanned an input in this thread
    started,        \* requests so far
    pid

originVars == <<heap, bound, host, req, scanned, started, pid>>

-----------------------------------------------------------------------------
(* Ledgers.                                                                *)

Principal(declared) == [origin |-> "principal", declared |-> declared, label |-> None]
Untrusted(declared) == [origin |-> "untrusted", declared |-> declared, label |-> None]
Trusted(declared, label) == [origin |-> "trusted", declared |-> declared, label |-> label]

\* seen, donors and roots are histories: the destinations emitted, whether
\* they were kept or not; the requests that gave principal authority; and
\* what gave authority that rests on nothing else in the ledger.
Blank == [explicit |-> FALSE, pid |-> 0, saturated |-> FALSE,
          entries |-> [a \in Auths |-> None], ngrams |-> [g \in Grams |-> None],
          seen |-> {}, donors |-> {}, roots |-> {}]
New(explicit) == [Blank EXCEPT !.explicit = explicit, !.pid = pid]

\* The write rule, for one destination and what a unit writes there: the
\* principal raises, nothing else does and nothing lowers.  What a unit writes
\* there that is not the principal's is one entry, so its order is left out.
Merge(old, given) ==
    LET raises == {new \in given : new.origin = "principal"}
        declared == \E new \in raises : new.declared
    IN  IF old # None /\ old.origin = "principal" THEN Principal(old.declared \/ declared)
        ELSE IF raises # {} THEN Principal(declared)
        ELSE IF old # None \/ given = {} THEN old
        ELSE CHOOSE new \in given : TRUE
MergeNgram(old, declared) == IF old = None THEN declared ELSE old \/ declared

Size(lg) ==
    Cardinality({a \in Auths : lg.entries[a] # None})
    + Cardinality({g \in Grams : lg.ngrams[g] # None})

\* One unit of destinations and one of n-grams, each written whole or not at
\* all. What is written is a set of <<destination, entry>>.
Given(writes, a) == {w[2] : w \in {v \in writes : v[1] = a}}
Named(writes) == {w[1] : w \in writes}
Noted(lg, writes) == [lg EXCEPT !.seen = @ \cup Named(writes)]
UnitFits(lg, writes, grams) ==
    Size(lg) + Cardinality({a \in Named(writes) : lg.entries[a] = None})
             + Cardinality({g \in grams : lg.ngrams[g] = None}) <= MaxEntries
UnitWritten(lg, writes, grams, declared) ==
    [lg EXCEPT
        !.entries = [a \in Auths |-> Merge(@[a], Given(writes, a))],
        !.ngrams = [g \in Grams |-> IF g \in grams THEN MergeNgram(@[g], declared) ELSE @[g]]]
\* The variant drops a unit without a mark.
ApplyUnitQuietly(lg, writes, grams, declared) ==
    IF UnitFits(Noted(lg, writes), writes, grams)
    THEN UnitWritten(Noted(lg, writes), writes, grams, declared) ELSE Noted(lg, writes)
ApplyUnit(lg, writes, grams, declared) ==
    IF UnitFits(lg, writes, grams) THEN UnitWritten(Noted(lg, writes), writes, grams, declared)
    ELSE [Noted(lg, writes) EXCEPT !.saturated = TRUE]

\* A principal span of a clean input donates authority and n-grams; any
\* other candidate is untrusted.
Donates(span, clean) == span.writer = "principal" /\ clean
SpanWrites(span, declared, clean) ==
    {<<a, IF Donates(span, clean) THEN Principal(declared) ELSE Untrusted(declared)>> :
        a \in span.dests}
InputWrites(input, clean) ==
    UNION {SpanWrites(span, input.declared, clean) : span \in input.spans}
InputGrams(input, clean) ==
    UNION {span.grams : span \in {s \in input.spans : Donates(s, clean)}}

RecordedInput(lg, input, clean, r) ==
    LET dests == ApplyUnit(lg, InputWrites(input, clean), {}, input.declared)
        both == ApplyUnit(dests, {}, InputGrams(input, clean), input.declared)
        gives == \E span \in input.spans : Donates(span, clean)
    IN  IF input.split = "wrong" THEN lg
        ELSE [both EXCEPT !.donors = @ \cup (IF gives THEN {r} ELSE {}),
                          !.roots = @ \cup (IF ~gives THEN {}
                                            ELSE IF input.declared THEN {"declared"}
                                            ELSE {"undeclared"})]

\* The bases of a key: a principal n-gram, or a destination that is the
\* principal's or a trusted source's. An absent key has none.
\* The variant takes any destination of the ledger.
KeyBasesOfAny(lg, key) ==
    (IF key.gram # None /\ lg.ngrams[key.gram] # None THEN {lg.ngrams[key.gram]} ELSE {})
    \cup (IF key.auth # None /\ lg.entries[key.auth] # None
          THEN {lg.entries[key.auth].declared} ELSE {})
KeyBases(lg, key) ==
    (IF key.gram # None /\ lg.ngrams[key.gram] # None THEN {lg.ngrams[key.gram]} ELSE {})
    \cup (IF key.auth # None /\ lg.entries[key.auth] # None
             /\ lg.entries[key.auth].origin \in {"principal", "trusted"}
          THEN {lg.entries[key.auth].declared} ELSE {})
KeysAuthorized(lg, keys) == \A k \in keys : KeyBases(lg, k) # {}
ReadDeclared(lg, keys) == \A k \in keys : TRUE \in KeyBases(lg, k)

Keyless == {Designations[i].label : i \in {j \in DOMAIN Designations : Designations[j].keys = {}}}

\* _read_trust: the first designation of the read whose keys are authorized.
Keys(d, read) == {read.keys[k] : k \in d.keys}
ReadTrust(lg, read, blocked) ==
    LET fits == {i \in DOMAIN Designations :
                    /\ SourceMatches(Designations[i], read)
                    /\ KeysAuthorized(lg, Keys(Designations[i], read))}
    IN  IF blocked \/ fits = {} THEN Untrusted(TRUE)
        ELSE LET d == Designations[Min(fits)] IN
             Trusted(ReadDeclared(lg, Keys(d, read)), d.label)
RecordedRead(lg, read, blocked) ==
    LET entry == ReadTrust(lg, read, blocked) IN
    [ApplyUnit(lg, {<<a, entry>> : a \in read.result}, {}, FALSE)
        EXCEPT !.roots = @ \cup (IF entry.label \in Keyless THEN {"keyless"} ELSE {})]

-----------------------------------------------------------------------------
(* Destinations in a value. A value has a form and the hosts or mailboxes  *)
(* in it: destinations, "bad" ones that do not parse, or "raw" ones that   *)
(* only an argument may carry, keyed by their spelling.                    *)

NotADestination == [failed |-> FALSE, found |-> {}]
Failure(parsed) == [failed |-> TRUE, found |-> parsed]
MailboxList(parts) ==
    LET good == ToSet(parts) \ {"bad"} IN
    IF good = {} \/ "bad" \in ToSet(parts) THEN Failure(good)
    ELSE [failed |-> FALSE, found |-> good]
Host(name) == IF name = "bad" THEN Failure({}) ELSE [failed |-> FALSE, found |-> {name}]

\* classify_value of an argument.
ClassifyValue(v) ==
    CASE v.form \in {"text", "file", "too_long"} -> NotADestination
      [] v.form = "mailbox" -> MailboxList(v.parts)
      [] v.form = "mailto" ->
            IF v.parts = <<>> THEN NotADestination ELSE MailboxList(v.parts)
      [] v.form \in {"url", "implied"} ->
            IF v.spaced THEN IF v.form = "url" THEN Failure({}) ELSE NotADestination
            ELSE IF v.parts = <<>> THEN NotADestination ELSE Host(v.parts[1])
      [] v.form \in {"phone", "ip"} -> [failed |-> FALSE, found |-> ToSet(v.parts)]

\* extract_destinations: a leaf that is too long, and what is beyond the
\* bound of the walk, is not read, and says so as a finding of its own.
LeavesRead(args) == SubSeq(args, 1, IF Len(args) < MaxLeaves THEN Len(args) ELSE MaxLeaves)
WalkTruncated(args) ==
    Len(args) > MaxLeaves \/ \E v \in ToSet(LeavesRead(args)) : v.form = "too_long"
Extract(args) ==
    LET results == {ClassifyValue(v) : v \in ToSet(LeavesRead(args))} IN
    [found |-> UNION {r.found : r \in results},
     unknown |-> WalkTruncated(args) \/ \E r \in results : r.failed]

-----------------------------------------------------------------------------
(* The verdict on a call.                                                  *)

Current(t) == IF bound[t] # 0 /\ heap[bound[t]].pid = pid THEN bound[t] ELSE 0

FlowActive(t) == host[t] \in {"flow", "helper"}

WireOf(e) ==
    IF e.origin = "untrusted" THEN "untrusted_source"
    ELSE IF ~e.declared THEN "principal_undeclared_span"
    ELSE IF e.origin = "trusted" THEN "trusted_source" ELSE "principal"
Weakness == <<"untrusted_source", "unresolved", "principal_undeclared_span",
              "trusted_source", "principal">>
Weakest(wires) == Weakness[Min({i \in DOMAIN Weakness : Weakness[i] \in wires})]

EntryFor(lg, a) == IF a \in Auths THEN lg.entries[a] ELSE None
Wire(t, args) ==
    LET lg == heap[Current(t)]
        read == Extract(args)
        missed == {a \in read.found : EntryFor(lg, a) = None}
        wires == {WireOf(lg.entries[a]) : a \in read.found \ missed}
                 \cup (IF missed # {} \/ read.unknown THEN {"unresolved"} ELSE {})
    IN  IF Current(t) = 0 THEN IF FlowActive(t) THEN "ledger_absent" ELSE "no_flow"
        ELSE IF wires = {} THEN "no_destination"
        ELSE IF missed # {} /\ lg.saturated /\ "untrusted_source" \notin wires
             THEN "ledger_saturated"
        ELSE Weakest(wires)
WireVerdict(wire) ==
    CASE wire \in {"principal", "principal_undeclared_span", "trusted_source"} -> "authorized"
      [] wire = "untrusted_source" -> "unauthorized"
      [] wire = "unresolved" -> "unresolved"
      [] OTHER -> "not_evaluated"

-----------------------------------------------------------------------------
(* Binding, and the requests of a host.                                    *)

\* A thread that was alone with its ledger leaves it; a ledger without a
\* thread is garbage.
Slot(t) ==
    IF bound[t] # 0 /\ \A u \in Threads \ {t} : bound[u] # bound[t] THEN bound[t]
    ELSE CHOOSE l \in DOMAIN heap : \A u \in Threads : bound[u] # l
Bind(t, lg) ==
    /\ bound' = [bound EXCEPT ![t] = Slot(t)]
    /\ heap' = [heap EXCEPT ![Slot(t)] = lg]
KeptLedgers(contexts) ==
    [l \in DOMAIN heap |-> IF \E u \in Threads : contexts[u] = l THEN heap[l] ELSE Blank]

Open(t, as) ==
    /\ req[t] = 0 /\ started < MaxRequests
    /\ req' = [req EXCEPT ![t] = started + 1]
    /\ started' = started + 1
    /\ host' = [host EXCEPT ![t] = as]
    /\ UNCHANGED <<scanned, pid>>

\* bind_fresh_ledger, of begin_flow and extract_context.
BeginFlow(t) == Open(t, "flow") /\ Bind(t, New(TRUE))
\* A request of a server that begins no flow.
BeginBare(t) == Open(t, "bare") /\ UNCHANGED <<heap, bound>>

\* bind_ledger, of record_hop.
BindLedger(t) ==
    /\ req[t] # 0 /\ FlowActive(t) /\ Current(t) = 0
    /\ Bind(t, New(TRUE))
    /\ UNCHANGED <<host, req, scanned, started, pid>>

\* record_principal_input: an implicit ledger is replaced by a fresh one.
\* The variant keeps it.
KeepsAnyLedger(t) == Current(t) # 0
KeepsLedger(t) == Current(t) # 0 /\ heap[Current(t)].explicit
RecordInput(t, input, clean) ==
    /\ req[t] # 0
    /\ IF KeepsLedger(t)
       THEN /\ heap' = [heap EXCEPT ![Current(t)] = RecordedInput(@, input, clean, req[t])]
            /\ UNCHANGED bound
       ELSE Bind(t, RecordedInput(New(FALSE), input, clean, req[t]))
    /\ scanned' = [scanned EXCEPT ![t] = TRUE]
    /\ UNCHANGED <<host, req, started, pid>>

RecordRead(t, read, blocked) ==
    /\ req[t] # 0 /\ Current(t) # 0
    /\ heap' = [heap EXCEPT ![Current(t)] = RecordedRead(@, read, blocked)]
    /\ UNCHANGED <<bound, host, req, scanned, started, pid>>

\* Work handed to an idle worker runs in a copy of the context, which goes
\* when it is done.
Spawn(t, u) ==
    /\ req[t] # 0 /\ req[u] = 0 /\ bound[u] = 0
    /\ bound' = [bound EXCEPT ![u] = bound[t]]
    /\ req' = [req EXCEPT ![u] = req[t]]
    /\ host' = [host EXCEPT ![u] = IF FlowActive(t) THEN "helper" ELSE "bare_helper"]
    /\ scanned' = [scanned EXCEPT ![u] = scanned[t]]
    /\ UNCHANGED <<heap, started, pid>>

\* The end of a request: clear_flow where there was a flow, so that the
\* context of a bare request stays with its thread.
Finish(t) ==
    /\ req[t] # 0
    /\ req' = [req EXCEPT ![t] = 0]
    /\ host' = [host EXCEPT ![t] = "idle"]
    /\ scanned' = [scanned EXCEPT ![t] = FALSE]
    /\ bound' = [bound EXCEPT ![t] = IF host[t] = "bare" THEN @ ELSE 0]
    /\ heap' = KeptLedgers(bound')
    /\ UNCHANGED <<started, pid>>

\* A child process: only the thread that forked goes on, in a copy of its
\* context.
Alone(t, f, idle) == [u \in Threads |-> IF u = t THEN f[u] ELSE idle]
Fork(t) ==
    /\ req[t] # 0 /\ pid < MaxForks
    /\ pid' = pid + 1
    /\ bound' = Alone(t, bound, 0)
    /\ req' = Alone(t, req, 0)
    /\ host' = Alone(t, host, "idle")
    /\ scanned' = [u \in Threads |-> FALSE]
    /\ heap' = KeptLedgers(bound')
    /\ UNCHANGED started

OriginInit ==
    /\ pid = 0 /\ started = 0
    /\ heap = [l \in 1..Cardinality(Threads) |-> Blank]
    /\ bound = [t \in Threads |-> 0]
    /\ req = [t \in Threads |-> 0]
    /\ host = [t \in Threads |-> "idle"]
    /\ scanned = [t \in Threads |-> FALSE]

OriginNext ==
    \E t \in Threads :
        \/ BeginFlow(t) \/ BeginBare(t) \/ BindLedger(t) \/ Finish(t) \/ Fork(t)
        \/ \E input \in Inputs, clean \in BOOLEAN : RecordInput(t, input, clean)
        \/ \E read \in Reads, blocked \in BOOLEAN : RecordRead(t, read, blocked)
        \/ \E u \in Threads \ {t} : Spawn(t, u)

OriginSpec == OriginInit /\ [][OriginNext]_originVars

-----------------------------------------------------------------------------
(* Properties.                                                             *)

\* Types: a ledger never holds more than its maximum, counting destinations
\* and n-grams together.
TypeOK ==
    /\ pid \in 0..MaxForks /\ started \in 0..MaxRequests
    /\ bound \in [Threads -> {0} \cup DOMAIN heap]
    /\ req \in [Threads -> 0..MaxRequests]
    /\ host \in [Threads -> {"idle", "flow", "bare", "helper", "bare_helper"}]
    /\ scanned \in [Threads -> BOOLEAN]
    /\ \A l \in DOMAIN heap :
          /\ Size(heap[l]) <= MaxEntries
          /\ heap[l].entries \in [Auths -> Entries \cup {None}]
          /\ heap[l].ngrams \in [Grams -> BOOLEAN \cup {None}]

\* Authority is per request: once a request has scanned an input, what its
\* ledger holds of a principal came from that request, although threads are
\* reused, contexts are copied to workers that outlive the request, and a
\* server without flows leaves its last ledger bound.
PerRequest ==
    \A t \in Threads : scanned[t] /\ Current(t) # 0 =>
        heap[Current(t)].donors \subseteq {req[t]}

\* Trust has a root: through any chain of reads whose keys came from earlier
\* reads, a keyed read is trusted only in a ledger where a clean input or a
\* source the operator trusts without keys gave the first authority; it is
\* declared only if that root was.
TrustHasARoot ==
    \A l \in DOMAIN heap, a \in Auths :
        LET e == heap[l].entries[a]  roots == heap[l].roots IN
        e # None =>
            /\ e.origin = "principal" => heap[l].donors # {}
            /\ e = Principal(TRUE) => "declared" \in roots
            /\ (e.origin = "trusted" /\ e.label \notin Keyless) =>
                  IF e.declared THEN roots \cap {"declared", "keyless"} # {} ELSE roots # {}

\* The verdict is earned: a call is authorized only if every destination in
\* its arguments, those beyond the bounds of the walk included, is the
\* principal's or a trusted source's; and a destination that was emitted in
\* the flow is never called novel, even when the ledger was full.  Of a result
\* that is what its walk reaches: what lies past the bound goes unrecorded, and
\* without a mark (result_leaves).
Carried(args) ==
    UNION {ToSet(v.parts) \cap Auths :
              v \in {w \in ToSet(args) : w.form = "too_long" \/ ClassifyValue(w) # NotADestination}}
VerdictsAreEarned ==
    \A t \in Threads, args \in Args :
        LET verdict == WireVerdict(Wire(t, args))  lg == heap[Current(t)] IN
        Current(t) # 0 =>
            /\ verdict = "authorized" =>
                  \A a \in Carried(args) :
                      lg.entries[a] # None /\ lg.entries[a].origin \in {"principal", "trusted"}
            /\ (verdict = "unresolved" /\ ~Extract(args).unknown) =>
                  \E a \in Extract(args).found : a \notin lg.seen
==============================================================================
