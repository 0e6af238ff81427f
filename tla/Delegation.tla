------------------------------ MODULE Delegation ------------------------------
(***************************************************************************)
(* The delegation chain and the privilege ceiling of xaidr:                *)
(* xaidr/provenance_chain.py (the flow context of a thread and the headers *)
(* that carry it), xaidr/privilege_tiers.py (the lattice of tiers) and the *)
(* tool boundary of xaidr/sensor.py, which gates on the ceiling.           *)
(*                                                                         *)
(* A thread serves one request after another.  A request starts with a     *)
(* flow of its own, with the headers of a call, or with nothing; agents    *)
(* scan in it, call others through headers and hand work to other threads. *)
(* Headers may be lost on the way.  The host clears the flow when a        *)
(* request is done.                                                        *)
(***************************************************************************)
EXTENDS Integers, Sequences, FiniteSetsExt

CONSTANTS
    Threads,
    Agents,
    Hosts,          \* the agents whose sensors scan in a thread
    Declared,       \* the privilege tier each agent is configured with
    Principals,     \* the names a flow can be started for
    MaxHops         \* bound: hops of a chain

\* 1 is the highest privilege, 4 the lowest.
Tiers == 1..4
LowestPrivilege == 4
Unknown == 0

ASSUME ChainAssumption ==
    /\ Hosts \in [Threads -> SUBSET Agents]
    /\ Declared \in [Agents -> Tiers \cup {Unknown}]
    /\ Principals \cap Agents = {}
    /\ MaxHops \in Nat

VARIABLES
    ctx,            \* the context variables of each thread
    phase,          \* "idle", "arrived" (headers just read) or "open"
    intact          \* history: the headers of the call as they were sent

chainVars == <<ctx, phase, intact>>

\* A chain is a sequence of hops; tiers is the list parallel to it. A flow
\* is active once the chain or the correlation id is set. lineage and lost
\* are histories: the agents that recorded a hop upstream or here, and those
\* whose hop a lost header took away.
Hop(name, role) == [agent |-> name, role |-> role]
NoFlow == [set |-> FALSE, chain |-> <<>>, tiers |-> <<>>, corr |-> FALSE,
           inbound |-> FALSE, lineage |-> {}, lost |-> {}]

-----------------------------------------------------------------------------
(* The tier lattice (privilege_tiers.py).                                  *)

\* validate_tier: an unconfigured tier is the lowest privilege.
Resolve(t) == IF t \in Tiers THEN t ELSE LowestPrivilege

\* least_privileged_tier: a numeric maximum that includes one's own tier.
BestPrivileged(own, hops) == Min({Resolve(own)} \cup {Resolve(t) : t \in hops})
LeastPrivileged(own, hops) == Max({Resolve(own)} \cup {Resolve(t) : t \in hops})

\* _aligned_tiers: forced to the length of the chain with unknowns.
Aligned(c) ==
    [n \in DOMAIN c.chain |-> IF n \in DOMAIN c.tiers THEN c.tiers[n] ELSE Unknown]

\* is_delegated: it arrived from elsewhere, or someone else is in the chain.
Upstream(c, a) == {n \in DOMAIN c.chain : c.chain[n].agent # a}
IsDelegated(c, a) == c.inbound \/ Upstream(c, a) # {}

\* delegating_hop_tiers: a leading principal without a tier is a person.
Untiered(c, n) ==
    n = 1 /\ c.chain[n].role = "principal" /\ Aligned(c)[n] = Unknown
HopTiers(c, a) == {Aligned(c)[n] : n \in {m \in Upstream(c, a) : ~Untiered(c, m)}}

\* DelphiSensor._least_privileged_tier: work that was delegated by nobody
\* the chain names has an unknown upstream.
Ceiling(c, a) ==
    LeastPrivileged(Declared[a],
        IF ~IsDelegated(c, a) THEN {}
        ELSE IF Upstream(c, a) = {} THEN {Unknown}
        ELSE HopTiers(c, a))

-----------------------------------------------------------------------------
(* The context of a thread.                                                *)

\* begin_flow: a local flow, for a principal or for nobody.
Begun(chain) ==
    [NoFlow EXCEPT !.set = TRUE, !.corr = TRUE, !.chain = chain,
                   !.tiers = [n \in DOMAIN chain |-> Unknown]]

IsFlowActive(c) == c.set \/ c.corr

\* record_hop: idempotent on the tail, whose tier is refreshed.
HopWithoutTier(c, a) ==
    [c EXCEPT !.set = TRUE, !.corr = TRUE, !.lineage = @ \cup {a},
              !.chain = IF @ = <<>> \/ @[Len(@)].agent # a
                        THEN Append(@, Hop(a, "agent")) ELSE @]
RecordHop(c, a) ==
    LET tail == c.chain # <<>> /\ c.chain[Len(c.chain)].agent = a
        tier == Declared[a]
        aligned == Aligned(c)
    IN  [c EXCEPT
            !.set = TRUE, !.corr = TRUE, !.lineage = @ \cup {a},
            !.chain = IF tail THEN @ ELSE Append(@, Hop(a, "agent")),
            !.tiers = IF ~tail THEN Append(aligned, tier)
                      ELSE IF tier # Unknown THEN [aligned EXCEPT ![Len(aligned)] = tier]
                      ELSE aligned]

\* _resolve_provenance: a hop is recorded only where a flow was established.
\* An origin set by the application only labels the event.
Provenanced(c, a) == IF IsFlowActive(c) THEN RecordHop(c, a) ELSE c

\* inject_context: the current chain; a correlation id is always sent.
Headers(c) == [chain |-> c.chain, tiers |-> Aligned(c),
               lineage |-> c.lineage, lost |-> c.lost]
HeaderNames == {"correlation", "chain", "tiers"}

\* extract_context, in a context the last request left: the inbound mark
\* comes first. Without a correlation id nothing else is read; claimed tiers
\* of another length than the chain's belong to no hop.
ReadTiers(h, lost, chain) ==
    IF "tiers" \in lost \/ Len(h.tiers) # Len(chain)
    THEN [n \in DOMAIN chain |-> Unknown] ELSE h.tiers
ReadHeaders(h, lost) ==
    LET chain == IF "chain" \in lost THEN <<>> ELSE h.chain
    IN  [set |-> TRUE, corr |-> TRUE, inbound |-> TRUE, chain |-> chain,
         tiers |-> ReadTiers(h, lost, chain),
         lineage |-> IF "chain" \in lost THEN {} ELSE h.lineage,
         lost |-> IF "chain" \in lost THEN h.lost \cup h.lineage ELSE h.lost]
Unread(c, h) == [c EXCEPT !.lost = h.lost \cup h.lineage]
MarkLast(c, h, lost) ==
    IF "correlation" \in lost THEN Unread(c, h) ELSE ReadHeaders(h, lost)
Extracted(c, h, lost) ==
    IF "correlation" \in lost THEN [Unread(c, h) EXCEPT !.inbound = TRUE]
    ELSE ReadHeaders(h, lost)

-----------------------------------------------------------------------------
NoHeaders == [chain |-> <<>>, tiers |-> <<>>, lineage |-> {}, lost |-> {}]

ChainInit ==
    /\ ctx = [t \in Threads |-> NoFlow]
    /\ phase = [t \in Threads |-> "idle"]
    /\ intact = [t \in Threads |-> NoHeaders]

\* The context variables change and the request goes on.
Set(t, c) ==
    /\ ctx' = [ctx EXCEPT ![t] = c]
    /\ phase' = [phase EXCEPT ![t] = "open"]
    /\ intact' = [intact EXCEPT ![t] = NoHeaders]

BeginFlow(t) ==
    /\ phase[t] = "idle"
    /\ \E chain \in {<<>>} \cup {<<Hop(p, "principal")>> : p \in Principals} :
          Set(t, Begun(chain))

\* A request that nothing marks: the agent's own work.
BeginBare(t) ==
    /\ phase[t] = "idle"
    /\ Set(t, ctx[t])

\* A call from one thread to another: a proxy may drop any of the headers.
\* They are a snapshot, so a late delivery or a second one is another call.
ReceiveCall(t, u) ==
    /\ phase[t] # "idle" /\ phase[u] = "idle"
    /\ \E lost \in SUBSET HeaderNames :
          ctx' = [ctx EXCEPT ![u] = Extracted(@, Headers(ctx[t]), lost)]
    /\ phase' = [phase EXCEPT ![u] = "arrived"]
    /\ intact' = [intact EXCEPT ![u] = Headers(ctx[t])]

\* scan_a2a of a received message marks the flow as it stands.
MarkInbound(t) ==
    /\ phase[t] = "open"
    /\ Set(t, [ctx[t] EXCEPT !.inbound = TRUE])

\* Any scan; a tool call reads its ceiling before it records the hop.
Scan(t, a) ==
    /\ phase[t] # "idle" /\ a \in Hosts[t]
    /\ Len(ctx[t].chain) < MaxHops
    /\ Set(t, Provenanced(ctx[t], a))

\* propagate_context hands the flow to a worker thread; work submitted
\* without it starts bare.
Spawn(t, u) ==
    /\ phase[t] # "idle" /\ phase[u] = "idle"
    /\ Set(u, ctx[t])

Finish(t) ==
    /\ phase[t] # "idle"
    /\ ctx' = [ctx EXCEPT ![t] = NoFlow]
    /\ phase' = [phase EXCEPT ![t] = "idle"]
    /\ intact' = [intact EXCEPT ![t] = NoHeaders]

ChainNext ==
    \E t \in Threads :
        \/ BeginFlow(t) \/ BeginBare(t) \/ MarkInbound(t) \/ Finish(t)
        \/ \E a \in Agents : Scan(t, a)
        \/ \E u \in Threads \ {t} : ReceiveCall(t, u) \/ Spawn(t, u)

ChainSpec == ChainInit /\ [][ChainNext]_chainVars

-----------------------------------------------------------------------------
Hops == [agent: Agents \cup Principals, role: {"agent", "principal"}]

\* Types: hops, tiers in range or unknown, histories of agents only.
ChainTypeOK ==
    /\ \A t \in Threads :
          /\ ctx[t].chain \in Seq(Hops) /\ Len(ctx[t].chain) <= MaxHops
          /\ ctx[t].tiers \in Seq(Tiers \cup {Unknown})
          /\ {ctx[t].set, ctx[t].corr, ctx[t].inbound} \subseteq BOOLEAN
          /\ ctx[t].lineage \cup ctx[t].lost \subseteq Agents
    /\ phase \in [Threads -> {"idle", "arrived", "open"}]

\* No hop carries the tier of another: the list parallel to the chain is as
\* long as it, and each entry is unknown or the tier its agent declared,
\* through every record, refresh, header and loss of headers.
TiersAreTruthful ==
    \A t \in Threads :
        /\ Len(ctx[t].tiers) = Len(ctx[t].chain)
        /\ \A n \in DOMAIN ctx[t].chain :
              ctx[t].tiers[n] \in {Unknown} \cup
                  (IF ctx[t].chain[n].agent \in Agents
                   THEN {Declared[ctx[t].chain[n].agent]} ELSE {})

\* A middle hop of high privilege cannot launder an origin of low privilege:
\* whichever agent acts, its ceiling is no better than the tier of any agent
\* that recorded a hop on the way here, where the chain header arrived.
OriginNotLaundered ==
    \A t \in Threads : \A a \in Hosts[t], b \in ctx[t].lineage :
        Ceiling(ctx[t], a) >= Resolve(Declared[b])

\* Whatever whole headers a call loses, the ceiling of the agents that read
\* it is at least the one they would have had with all of them.
StrippedNeverLoosens ==
    \A t \in Threads : phase[t] = "arrived" =>
        \A a \in Hosts[t] :
            Ceiling(ctx[t], a) >= Ceiling(Extracted(NoFlow, intact[t], {}), a)

\* THREAT_MODEL.md: "every tampering that removes information tightens the
\* verdict. Strip the chain [...] lands on tier 4": an agent whose hop was
\* lost with a header bounds every later ceiling of the flow like the others.
RemovalTightens ==
    \A t \in Threads : \A a \in Hosts[t], b \in ctx[t].lost :
        Ceiling(ctx[t], a) >= Resolve(Declared[b])
===============================================================================
