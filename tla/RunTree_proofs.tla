---------------------------- MODULE RunTree_proofs ----------------------------
(***************************************************************************)
(* Proofs about RunTree for every set of ids, cap and number of runs: type *)
(* correctness, the consistency of the index that the lock-free read of    *)
(* stamp() and the eviction loop of start() rely on, the cap, the absence  *)
(* of leaks, and what the stamps promise: runSeq orders a flow, and no two *)
(* flows share a root.                                                     *)
(***************************************************************************)
EXTENDS RunTree, FiniteSetTheorems, TLAPS

-----------------------------------------------------------------------------
(* The bounded dicts.                                                      *)

\* A subset of the ids is finite, so its cardinality is a number.
LEMMA IdsFinite ==
    ASSUME NEW S, S \subseteq Ids
    PROVE  IsFiniteSet(S) /\ Cardinality(S) \in Nat /\ Cardinality(S) <= Latest
  BY ConstAssumption, FS_Subset, FS_CardinalityType DEF Latest

\* The place of an id in an insertion order is a number, at least 1 when the
\* id is in the dict.
LEMMA PlaceType ==
    ASSUME NEW aged \in [Ids -> Nat], NEW j \in Ids
    PROVE  /\ Place(aged, j) \in Nat
           /\ aged[j] # 0 => Place(aged, j) >= 1
<1> DEFINE upto == {i \in Ids : aged[i] # 0 /\ aged[i] <= aged[j]}
<1>1. IsFiniteSet(upto) /\ Cardinality(upto) \in Nat
  BY IdsFinite
<1>2. ASSUME aged[j] # 0
      PROVE  Cardinality(upto) # 0
  <2>1. j \in upto
    BY <1>2
  <2>2. QED BY <2>1, <1>1, FS_EmptySet
<1>3. QED BY <1>1, <1>2 DEF Place

\* Truncating a dict to its youngest entries yields a dict.
LEMMA YoungestType ==
    ASSUME NEW aged \in [Ids -> Nat], NEW cap \in Nat
    PROVE  Youngest(aged, cap) \in [Ids -> Nat]
<1> DEFINE size == Cardinality(In(aged))
           over == IF size > cap THEN size - cap ELSE 0
<1>1. size \in Nat
  BY IdsFinite DEF In
<1>2. over \in Nat
  BY <1>1
<1>3. \A j \in Ids : Place(aged, j) \in Nat
  BY PlaceType
<1> HIDE DEF over
<1>4. [j \in Ids |-> IF aged[j] # 0 /\ Place(aged, j) > over
                     THEN Place(aged, j) - over ELSE 0] \in [Ids -> Nat]
  BY <1>2, <1>3
<1>5. QED BY <1>4 DEF Youngest, over

\* Renumbering the places without a cap drops no entry.
LEMMA YoungestKeepsAll ==
    ASSUME NEW aged \in [Ids -> Nat]
    PROVE  In(Youngest(aged, Latest)) = In(aged)
<1>1. Cardinality(In(aged)) <= Latest /\ Cardinality(In(aged)) \in Nat
  BY IdsFinite DEF In
<1>2. Latest \in Nat
  BY IdsFinite DEF Latest
<1>3. Youngest(aged, Latest) =
        [j \in Ids |-> IF aged[j] # 0 /\ Place(aged, j) > 0
                       THEN Place(aged, j) - 0 ELSE 0]
  BY <1>1, <1>2 DEF Youngest
<1>4. \A j \in Ids : /\ Place(aged, j) \in Nat
                     /\ aged[j] # 0 => Place(aged, j) >= 1
  BY PlaceType
<1>5. \A j \in Ids : Youngest(aged, Latest)[j] # 0 <=> aged[j] # 0
  BY <1>3, <1>4
<1>6. QED BY <1>5 DEF In

\* Remembering ids, one or many, yields a dict.
LEMMA RememberAllType ==
    ASSUME NEW memo \in [Ids -> Nat], NEW S \in SUBSET Ids,
           NEW order \in [S -> Nat]
    PROVE  RememberAll(memo, order) \in [Ids -> Nat]
<1>1. Latest \in Nat /\ MemoCap \in Nat
  BY IdsFinite, ConstAssumption DEF Latest
<1>2. [j \in Ids |-> IF j \in DOMAIN order THEN Latest + order[j]
                     ELSE memo[j]] \in [Ids -> Nat]
  BY <1>1
<1>3. QED BY <1>1, <1>2, YoungestType DEF RememberAll

LEMMA RememberType ==
    ASSUME NEW memo \in [Ids -> Nat], NEW key \in Ids
    PROVE  Remember(memo, key) \in [Ids -> Nat]
<1>1. [j \in {key} |-> 1] \in [{key} -> Nat]
  OBVIOUS
<1>2. QED BY <1>1, RememberAllType DEF Remember

-----------------------------------------------------------------------------
(* The index, as a predicate on a pair of dicts, so that the intermediate  *)
(* tables of start() and end() can be spoken of.                           *)

Sound(rs, order) ==
    /\ rs \in [Ids -> Entries]
    /\ order \in [Ids -> Nat]
    /\ \A k \in LiveIn(rs) : /\ rs[k].root \in LiveIn(rs)
                             /\ rs[rs[k].root].root = rs[k].root
    /\ \A r \in LiveIn(rs) :
           rs[r].members = {k \in LiveIn(rs) \ {r} : rs[k].root = r}
    /\ In(order) = LiveIn(rs)

\* The fresh entry of a run and the absent entry are entries.
LEMMA EntryType ==
    /\ NoRun \in Entries /\ NoRun.root = None
    /\ \A r \in Ids : /\ Run(r) \in Entries /\ Run(r).root = r
                      /\ Run(r).members = {} /\ r # None
  BY ConstAssumption DEF NoRun, Run, Entries

\* A table that differs in counters and collision marks alone stays sound.
LEMMA SoundSameShape ==
    ASSUME NEW rs, NEW order, Sound(rs, order),
           NEW ts \in [Ids -> Entries],
           \A k \in Ids : ts[k].root = rs[k].root /\ ts[k].members = rs[k].members
    PROVE  Sound(ts, order) /\ LiveIn(ts) = LiveIn(rs)
<1>1. LiveIn(ts) = LiveIn(rs)
  BY DEF LiveIn
<1>2. \A k \in LiveIn(rs) : k \in Ids /\ rs[k].root \in Ids
  BY DEF Sound, LiveIn
<1>3. \A k \in LiveIn(ts) : /\ ts[k].root \in LiveIn(ts)
                            /\ ts[ts[k].root].root = ts[k].root
  BY <1>1, <1>2 DEF Sound
<1>4. \A r \in LiveIn(ts) :
          ts[r].members = {k \in LiveIn(ts) \ {r} : ts[k].root = r}
  <2>1. TAKE r \in LiveIn(ts)
  <2>2. {k \in LiveIn(ts) \ {r} : ts[k].root = r}
          = {k \in LiveIn(rs) \ {r} : rs[k].root = r}
    BY <1>1, <1>2
  <2>3. QED BY <2>2, <1>1, <1>2 DEF Sound
<1>5. QED BY <1>1, <1>3, <1>4 DEF Sound

\* start() files a new run: as its own root, or in its parent's tree.
LEMMA SoundFiled ==
    ASSUME Sound(runs, birth), NEW key \in Ids, key \notin Live, NEW pkey,
           pkey # None => pkey \in Live
    PROVE  /\ Sound(Filed(key, pkey), FiledBirth(key))
           /\ LiveIn(Filed(key, pkey)) = Live \cup {key}
<1> DEFINE rs == Filed(key, pkey)
           order == FiledBirth(key)
<1>1. In(order) = Live \cup {key} /\ order \in [Ids -> Nat]
  <2>1. Latest \in Nat
    BY IdsFinite DEF Latest
  <2>2. [birth EXCEPT ![key] = Latest + 1] \in [Ids -> Nat]
    BY <2>1 DEF Sound
  <2>3. In([birth EXCEPT ![key] = Latest + 1]) = In(birth) \cup {key}
    BY <2>1 DEF Sound, In
  <2>4. QED BY <2>1, <2>2, <2>3, YoungestType, YoungestKeepsAll
            DEF FiledBirth, Sound, Live
<1> HIDE DEF order
<1>2. \A k \in Live : k \in Ids /\ runs[k].root \in Live /\ k # None
                       /\ runs[runs[k].root].root = runs[k].root
  BY ConstAssumption DEF Sound, Live, LiveIn
<1>3. CASE pkey = None
  <2>1. rs = [runs EXCEPT ![key] = Run(key)]
    BY <1>3 DEF Filed
  <2>2. rs \in [Ids -> Entries]
    BY <2>1, EntryType DEF Sound
  <2>3. /\ rs[key] = Run(key)
        /\ \A k \in Ids \ {key} : rs[k] = runs[k]
    BY <2>1 DEF Sound
  <2> HIDE DEF rs
  <2>4. LiveIn(rs) = Live \cup {key}
    BY <2>3, EntryType DEF LiveIn, Live
  <2>5. \A k \in LiveIn(rs) : /\ rs[k].root \in LiveIn(rs)
                              /\ rs[rs[k].root].root = rs[k].root
    BY <2>3, <2>4, <1>2, EntryType
  <2>6. ASSUME NEW r \in LiveIn(rs)
        PROVE  rs[r].members = {k \in LiveIn(rs) \ {r} : rs[k].root = r}
    <3>1. CASE r = key
      <4>1. \A k \in LiveIn(rs) \ {key} : rs[k].root # key
        BY <2>3, <2>4, <1>2
      <4>2. QED BY <4>1, <3>1, <2>3, EntryType
    <3>2. CASE r # key
      <4>1. {k \in LiveIn(rs) \ {r} : rs[k].root = r}
              = {k \in Live \ {r} : runs[k].root = r}
        BY <2>3, <2>4, <1>2, <3>2, EntryType
      <4>2. QED BY <4>1, <2>3, <2>4, <3>2, <1>2 DEF Sound, Live
    <3>3. QED BY <3>1, <3>2
  <2>7. QED BY <2>2, <2>4, <2>5, <2>6, <1>1 DEF Sound, rs, order
<1>4. CASE pkey # None
  <2> DEFINE top == runs[pkey].root
  <2>1. top \in Live /\ runs[top].root = top /\ top \in Ids /\ top # key
    BY <1>2, <1>4
  <2>2. rs = [runs EXCEPT ![key] = Run(top),
                          ![top].members = @ \cup {key}]
    BY <1>4 DEF Filed
  <2> HIDE DEF top
  <2>3. /\ rs[key] = Run(top)
        /\ rs[top] = [runs[top] EXCEPT !.members = @ \cup {key}]
        /\ \A k \in Ids \ {key, top} : rs[k] = runs[k]
        /\ DOMAIN rs = Ids /\ rs = [k \in Ids |-> rs[k]]
    BY <2>1, <2>2 DEF Sound
  <2> HIDE DEF rs
  <2>4. /\ runs[top] \in Entries
        /\ rs[top] \in Entries
        /\ rs[top].root = top
        /\ rs[top].members = runs[top].members \cup {key}
    BY <2>1, <2>3 DEF Sound, Entries
  <2>5. rs \in [Ids -> Entries]
    <3>1. rs[key] \in Entries
      BY <2>1, <2>3, EntryType
    <3>2. \A k \in Ids \ {key, top} : rs[k] \in Entries
      BY <2>3 DEF Sound
    <3>3. \A k \in Ids : rs[k] \in Entries
      BY <3>1, <3>2, <2>4
    <3>4. QED BY <3>3, <2>3
  <2>6. LiveIn(rs) = Live \cup {key}
    <3>1. rs[key].root # None /\ rs[top].root # None
      BY <2>1, <2>3, <2>4, EntryType
    <3>2. \A k \in Ids \ {key, top} : rs[k].root = runs[k].root
      BY <2>3
    <3>3. top \in Live
      BY <2>1
    <3>4. QED BY <3>1, <3>2, <3>3, <2>1 DEF LiveIn, Live
  <2>7. \A k \in Live : rs[k].root = runs[k].root
    BY <2>1, <2>3, <2>4, <1>2
  <2>8. \A k \in LiveIn(rs) : /\ rs[k].root \in LiveIn(rs)
                              /\ rs[rs[k].root].root = rs[k].root
    BY <2>1, <2>3, <2>6, <2>7, <1>2, EntryType
  <2>9. ASSUME NEW r \in LiveIn(rs)
        PROVE  rs[r].members = {k \in LiveIn(rs) \ {r} : rs[k].root = r}
    <3>1. CASE r = key
      <4>1. \A k \in LiveIn(rs) \ {key} : rs[k].root # key
        BY <2>6, <2>7, <1>2
      <4>2. QED BY <4>1, <3>1, <2>3, <2>1, EntryType
    <3>2. CASE r = top
      <4>1. runs[top].members = {k \in Live \ {top} : runs[k].root = top}
        BY <2>1 DEF Sound, Live
      <4>2. {k \in LiveIn(rs) \ {top} : rs[k].root = top}
              = {k \in Live \ {top} : runs[k].root = top} \cup {key}
        BY <2>1, <2>3, <2>6, <2>7, EntryType
      <4>3. QED BY <4>1, <4>2, <3>2, <2>4
    <3>3. CASE r \notin {key, top}
      <4>1. r \in Live /\ r \in Ids /\ rs[r] = runs[r]
        BY <3>3, <2>6, <2>3, <1>2
      <4>2. {k \in LiveIn(rs) \ {r} : rs[k].root = r}
              = {k \in Live \ {r} : runs[k].root = r}
        BY <2>3, <2>6, <2>7, <3>3, <2>1, EntryType
      <4>3. QED BY <4>1, <4>2 DEF Sound, Live
    <3>4. QED BY <3>1, <3>2, <3>3
  <2>10. QED BY <2>5, <2>6, <2>8, <2>9, <1>1 DEF Sound, rs, order
<1>5. QED BY <1>3, <1>4

\* Dropping entries from the insertion order drops exactly those.
LEMMA ForgettingIn ==
    ASSUME NEW order \in [Ids -> Nat], NEW gone
    PROVE  /\ Forgetting(order, gone) \in [Ids -> Nat]
           /\ In(Forgetting(order, gone)) = In(order) \ gone
<1> DEFINE kept == [k \in Ids |-> IF k \in gone THEN 0 ELSE order[k]]
<1>1. kept \in [Ids -> Nat] /\ In(kept) = In(order) \ gone
  BY DEF In
<1>2. Latest \in Nat
  BY IdsFinite DEF Latest
<1> HIDE DEF kept
<1>3. QED BY <1>1, <1>2, YoungestType, YoungestKeepsAll DEF Forgetting, kept

\* Dropping a root together with the runs filed under it leaves a sound index:
\* what _evict_root and the end of a root run do.
LEMMA SoundWithoutTree ==
    ASSUME NEW rs, NEW order, Sound(rs, order),
           NEW root \in LiveIn(rs), rs[root].root = root,
           NEW gone, gone = {root} \cup {k \in LiveIn(rs) : rs[k].root = root}
    PROVE  /\ Sound(Without(rs, gone), Forgetting(order, gone))
           /\ LiveIn(Without(rs, gone)) = LiveIn(rs) \ gone
<1> DEFINE ts == Without(rs, gone)
<1>1. /\ ts \in [Ids -> Entries]
      /\ \A k \in Ids \ gone : ts[k] = rs[k]
      /\ \A k \in Ids \cap gone : ts[k] = NoRun
  BY EntryType DEF Without, Sound
<1> HIDE DEF ts
<1>2. LiveIn(ts) = LiveIn(rs) \ gone
  BY <1>1, EntryType DEF LiveIn
<1>3. \A k \in LiveIn(ts) : ts[k] = rs[k] /\ k \in LiveIn(rs) /\ k \notin gone
  BY <1>1, <1>2 DEF LiveIn
<1>4. ASSUME NEW k \in LiveIn(ts)
      PROVE  /\ ts[k].root \in LiveIn(ts)
             /\ ts[ts[k].root].root = ts[k].root
  <2>1. rs[k].root \in LiveIn(rs) /\ rs[rs[k].root].root = rs[k].root
    BY <1>3 DEF Sound
  <2>2. rs[k].root \notin gone
    BY <2>1, <1>3
  <2>3. QED BY <2>1, <2>2, <1>2, <1>3
<1>5. ASSUME NEW r \in LiveIn(ts)
      PROVE  ts[r].members = {k \in LiveIn(ts) \ {r} : ts[k].root = r}
  <2>1. ts[r].members = {k \in LiveIn(rs) \ {r} : rs[k].root = r}
    BY <1>3 DEF Sound
  <2>2. \A k \in LiveIn(rs) : rs[k].root = r => k \notin gone
    BY <1>3
  <2>3. QED BY <2>1, <2>2, <1>2, <1>3
<1>6. QED BY <1>1, <1>2, <1>4, <1>5, ForgettingIn DEF Sound, ts

\* What _evict_root drops is the root's whole tree.
LEMMA EvictedTree ==
    ASSUME NEW rs, NEW order, Sound(rs, order), NEW root \in LiveIn(rs),
           rs[root].root = root
    PROVE  Evicted(rs, root) = {root} \cup {k \in LiveIn(rs) : rs[k].root = root}
  BY DEF Evicted, Sound

\* The end of a run leaves a sound index: a root takes its tree with it, a
\* member only leaves its root's set.
LEMMA SoundEnded ==
    ASSUME Sound(runs, birth), NEW key \in Live
    PROVE  Sound(Discard(Without(runs, Dropped(key)), runs[key].root, key),
                 Forgetting(birth, Dropped(key)))
<1> DEFINE top == runs[key].root
           gone == Dropped(key)
           ws == Without(runs, gone)
           ts == Discard(ws, top, key)
<1>1. /\ key \in Ids /\ top \in Live /\ runs[top].root = top
      /\ Live = LiveIn(runs) /\ Live \subseteq Ids
  BY DEF Sound, Live, LiveIn
<1>2. CASE top = key
  <2>1. gone = {key} \cup {k \in LiveIn(runs) : runs[k].root = key}
    BY <1>1, <1>2 DEF Dropped, Sound
  <2>2. Sound(ws, Forgetting(birth, gone)) /\ LiveIn(ws) = LiveIn(runs) \ gone
    BY <1>1, <1>2, <2>1, SoundWithoutTree
  <2>3. key \notin LiveIn(ws)
    BY <2>1, <2>2
  <2>4. ts = [k \in Ids |-> ws[k]]
    BY <1>2, <2>3 DEF Discard
  <2>5. ws = [k \in Ids |-> ws[k]]
    BY DEF Without
  <2>6. QED BY <2>2, <2>4, <2>5
<1>3. CASE top # key
  <2>1. gone = {key}
    BY <1>3 DEF Dropped
  <2>2. /\ \A k \in Ids \ {key} : ws[k] = runs[k]
        /\ ws[key] = NoRun
        /\ ws \in [Ids -> Entries]
    BY <2>1, <1>1, EntryType DEF Without, Sound
  <2> HIDE DEF ws
  <2>3. LiveIn(ws) = Live \ {key}
    BY <2>2, EntryType DEF LiveIn, Live
  <2>4. /\ \A k \in Ids \ {key, top} : ts[k] = runs[k]
        /\ ts[key] = NoRun
        /\ ts[top] = [runs[top] EXCEPT !.members = @ \ {key}]
        /\ ts = [k \in Ids |-> ts[k]]
    BY <2>2, <2>3, <1>1, <1>3 DEF Discard
  <2> HIDE DEF ts
  <2>5. /\ ts[top] \in Entries
        /\ ts[top].root = top
        /\ ts[top].members = runs[top].members \ {key}
    BY <2>4, <1>1 DEF Sound, Entries
  <2>6. ts \in [Ids -> Entries]
    <3>1. \A k \in Ids \ {key, top} : ts[k] \in Entries
      BY <2>4 DEF Sound
    <3>2. \A k \in Ids : ts[k] \in Entries
      BY <3>1, <2>4, <2>5, EntryType
    <3>3. QED BY <3>2, <2>4
  <2>7. \A k \in Ids \ {key} : ts[k].root = runs[k].root
    BY <2>4, <2>5, <1>1
  <2>8. LiveIn(ts) = Live \ {key}
    BY <2>7, <2>4, EntryType DEF LiveIn, Live
  <2>9. \A k \in Live : runs[k].root # key
    BY <1>3, <1>1 DEF Sound, Live
  <2>10. \A k \in LiveIn(ts) : /\ ts[k].root \in LiveIn(ts)
                               /\ ts[ts[k].root].root = ts[k].root
    BY <2>7, <2>8, <2>9, <1>1 DEF Sound
  <2>11. ASSUME NEW r \in LiveIn(ts)
         PROVE  ts[r].members = {k \in LiveIn(ts) \ {r} : ts[k].root = r}
    <3>1. {k \in LiveIn(ts) \ {r} : ts[k].root = r}
            = {k \in Live \ {r} : runs[k].root = r} \ {key}
      BY <2>7, <2>8, <1>1
    <3>2. runs[r].members = {k \in Live \ {r} : runs[k].root = r}
      BY <2>8, <1>1 DEF Sound
    <3>3. CASE r = top
      BY <3>1, <3>2, <3>3, <2>5
    <3>4. CASE r # top
      <4>1. ts[r] = runs[r]
        BY <3>4, <2>8, <2>4, <1>1
      <4>2. key \notin {k \in Live \ {r} : runs[k].root = r}
        BY <3>4
      <4>3. QED BY <3>1, <3>2, <4>1, <4>2
    <3>5. QED BY <3>3, <3>4
  <2>12. /\ Forgetting(birth, gone) \in [Ids -> Nat]
         /\ In(Forgetting(birth, gone)) = In(birth) \ gone
    BY ForgettingIn DEF Sound
  <2>13. In(birth) = Live
    BY DEF Sound, Live
  <2>14. Sound(ts, Forgetting(birth, gone))
    BY <2>6, <2>8, <2>10, <2>11, <2>12, <2>13, <2>1 DEF Sound
  <2>15. QED BY <2>14 DEF ts, ws
<1>4. QED BY <1>2, <1>3

-----------------------------------------------------------------------------
(* The inductive invariant: the types and the consistency of the index.    *)
(* Types alone are not inductive: the entry a stamp or a child resolves to *)
(* has the type of an entry only while the root of a live run is live.     *)

IInv == TypeOK /\ IndexConsistent

\* Sound is IndexConsistent with the types of the two dicts.
LEMMA SoundIsConsistent ==
    runs \in [Ids -> Entries] /\ birth \in [Ids -> Nat] =>
        (Sound(runs, birth) <=> IndexConsistent)
  BY DEF Sound, IndexConsistent, RootsLive, MembersExact, BirthsLive, Live

LEMMA SoundIsConsistentNext ==
    Sound(runs', birth') => IndexConsistent'
  BY DEF Sound, IndexConsistent, RootsLive, MembersExact, BirthsLive, Live

\* What the host's runs and the stamps in flight look like.
Hosts(h) == /\ h \in [Calls -> HostRuns]
            /\ \A c \in Calls : h[c].phase # "unborn" =>
                   h[c].id \in Ids /\ h[c].flow \in Calls
InFlightOf(h, m) ==
    /\ m \in [Calls -> Stamps]
    /\ \A c \in Calls : m[c].step # "quiet" =>
           /\ h[c].phase \in {"running", "ended"}
           /\ m[c].root \in Ids

\* The ids the host has used are ids.
LEMMA UsedNext ==
    ASSUME Hosts(host'), forgot \subseteq Ids
    PROVE  /\ Recall => forgot' \subseteq Ids
           /\ \A S \in SUBSET Ids : RecallBut(S) => forgot' \subseteq Ids
  BY DEF Hosts, RecallBut, Recall, Used, Begun

\* The type invariant as a conjunction over the parts the actions write.
LEMMA TypeParts ==
    TypeOK <=> /\ active \in BOOLEAN /\ clearing \in BOOLEAN /\ unprotects \in Nat
               /\ runs \in [Ids -> Entries] /\ birth \in [Ids -> Nat]
               /\ tainted \in [Ids -> Nat] /\ faulted \in [Ids -> Nat]
               /\ ended \in [Ids -> Nat]
               /\ Hosts(host) /\ InFlightOf(host, emit)
               /\ events \subseteq Events
               /\ forgot \subseteq Ids /\ touched \subseteq Ids
  BY DEF TypeOK, Hosts, InFlightOf, Begun

LEMMA TypePartsNext ==
    /\ active' \in BOOLEAN /\ clearing' \in BOOLEAN /\ unprotects' \in Nat
    /\ Sound(runs', birth')
    /\ tainted' \in [Ids -> Nat] /\ faulted' \in [Ids -> Nat]
    /\ ended' \in [Ids -> Nat]
    /\ Hosts(host') /\ InFlightOf(host', emit')
    /\ events' \subseteq Events
    /\ forgot' \subseteq Ids /\ touched' \subseteq Ids
    => IInv'
  BY SoundIsConsistentNext DEF IInv, TypeOK, Hosts, InFlightOf, Begun, Sound

\* Moving one run of the host on, past its start, keeps the host's types.
LEMMA PhaseStep ==
    ASSUME Hosts(host), InFlightOf(host, emit), NEW c \in Calls,
           host[c].phase # "unborn",
           NEW phase \in {"running", "ended"},
           host' = [host EXCEPT ![c].phase = phase]
    PROVE  Hosts(host') /\ InFlightOf(host', emit)
<1>1. host[c] \in HostRuns
  BY DEF Hosts
<1>2. [host[c] EXCEPT !.phase = phase] \in HostRuns
  BY <1>1 DEF HostRuns
<1>3. /\ host'[c] = [host[c] EXCEPT !.phase = phase]
      /\ \A d \in Calls \ {c} : host'[d] = host[d]
  BY DEF Hosts
<1>4. /\ host'[c].phase = phase
      /\ host'[c].id = host[c].id /\ host'[c].flow = host[c].flow
  BY <1>1, <1>3 DEF HostRuns
<1>5. host' \in [Calls -> HostRuns]
  BY <1>2 DEF Hosts
<1>6. QED BY <1>3, <1>4, <1>5 DEF Hosts, InFlightOf

-----------------------------------------------------------------------------
(* One lemma per action that writes the index.                             *)

\* A reuse only marks collisions and taints ids.
LEMMA StepReused ==
    ASSUME IInv, NEW c \in Calls, StartReused(c)
    PROVE  IInv'
<1> DEFINE key == host[c].id
           pkey == ParentKey(c)
<1>1. /\ Sound(runs, birth) /\ Hosts(host) /\ InFlightOf(host, emit)
      /\ runs \in [Ids -> Entries] /\ tainted \in [Ids -> Nat]
      /\ touched \subseteq Ids /\ forgot \subseteq Ids
  BY SoundIsConsistent, TypeParts DEF IInv, TypeOK
<1>2. Hosts(host') /\ InFlightOf(host', emit') /\ key \in Ids
  <2>1. host[c].phase = "starting" /\ host' = [host EXCEPT ![c].phase = "running"]
        /\ emit' = emit
    BY DEF StartReused, Starting
  <2>2. Hosts(host') /\ InFlightOf(host, emit)
    BY <2>1, <1>1, PhaseStep
  <2>3. Hosts(host') /\ InFlightOf(host', emit)
    BY <2>1, <1>1, PhaseStep
  <2>4. QED BY <2>1, <2>3, <1>1 DEF Hosts
<1>3. \A k : RootOf(k) \in Ids \cup {None}
  BY <1>1 DEF RootOf, Live, LiveIn, Entries
<1>4. \A memo \in [Ids -> Nat], k \in Ids \cup {None} :
          TaintRoot(memo, k) \in [Ids -> Nat]
  BY RememberType DEF TaintRoot
<1>5. tainted' \in [Ids -> Nat]
  <2>1. Remember(tainted, key) \in [Ids -> Nat]
    BY <1>1, <1>2, RememberType
  <2>2. TaintRoot(Remember(tainted, key), RootOf(key)) \in [Ids -> Nat]
    BY <2>1, <1>3, <1>4
  <2>3. TaintRoot(TaintRoot(Remember(tainted, key), RootOf(key)), RootOf(pkey))
            \in [Ids -> Nat]
    BY <2>2, <1>3, <1>4
  <2>4. QED BY <2>3 DEF StartReused, Collide
<1>6. touched' \subseteq Ids
  BY <1>1, <1>2, <1>3 DEF StartReused, Collide
<1>7. Sound(runs', birth')
  <2> DEFINE roots == {RootOf(h) : h \in Holders(key, pkey)}
  <2>1. runs' = [k \in Ids |-> IF k \in roots \cap Live
                               THEN [runs[k] EXCEPT !.collided = TRUE]
                               ELSE runs[k]]
    BY DEF StartReused, Collide
  <2> HIDE DEF roots
  <2>2. \A k \in Ids : /\ runs'[k] \in Entries
                       /\ runs'[k].root = runs[k].root
                       /\ runs'[k].members = runs[k].members
    <3>1. TAKE k \in Ids
    <3>2. runs[k] \in Entries
      BY <1>1
    <3>3. [runs[k] EXCEPT !.collided = TRUE] \in Entries
      BY <3>2 DEF Entries
    <3>4. runs'[k] = runs[k] \/ runs'[k] = [runs[k] EXCEPT !.collided = TRUE]
      BY <2>1
    <3>5. QED BY <3>2, <3>3, <3>4 DEF Entries
  <2>3. runs' \in [Ids -> Entries]
    BY <2>1, <2>2
  <2>4. birth' = birth
    BY DEF StartReused
  <2>5. QED BY <2>2, <2>3, <2>4, <1>1, SoundSameShape
<1>8. forgot' \subseteq Ids
  BY <1>1, <1>2, UsedNext DEF StartReused
<1>9. /\ active' = active /\ clearing' = clearing /\ unprotects' = unprotects
      /\ faulted' = faulted /\ ended' = ended /\ events' = events
  BY DEF StartReused, Starting
<1>10. QED BY <1>2, <1>5, <1>6, <1>7, <1>8, <1>9, TypePartsNext DEF IInv, TypeOK

\* An orphan gets no entry; it may inherit a memo.
LEMMA StepOrphan ==
    ASSUME IInv, NEW c \in Calls, StartOrphan(c)
    PROVE  IInv'
<1>1. /\ Sound(runs, birth) /\ Hosts(host) /\ InFlightOf(host, emit)
      /\ tainted \in [Ids -> Nat] /\ faulted \in [Ids -> Nat]
      /\ forgot \subseteq Ids
  BY SoundIsConsistent, TypeParts DEF IInv, TypeOK
<1>2. /\ host[c].phase = "starting" /\ emit' = emit
      /\ host' = [host EXCEPT ![c].phase = "running"]
      /\ active' = active /\ clearing' = clearing /\ unprotects' = unprotects
      /\ runs' = runs /\ birth' = birth /\ ended' = ended
      /\ events' = events /\ touched' = touched
  BY DEF StartOrphan, Starting
<1>3. Hosts(host') /\ InFlightOf(host', emit') /\ host[c].id \in Ids
  <2>1. Hosts(host') /\ InFlightOf(host', emit)
    BY <1>1, <1>2, PhaseStep
  <2>2. QED BY <2>1, <1>1, <1>2 DEF Hosts
<1>4. tainted' \in [Ids -> Nat] /\ faulted' \in [Ids -> Nat]
  BY <1>1, <1>3, RememberType DEF StartOrphan
<1>5. forgot' \subseteq Ids
  BY <1>1, <1>3, UsedNext DEF StartOrphan
<1>6. QED BY <1>1, <1>2, <1>3, <1>4, <1>5, TypePartsNext DEF IInv, TypeOK

\* A new entry, and past the cap the eviction of the oldest entry's root.
LEMMA StepFiled ==
    ASSUME IInv, NEW c \in Calls, StartFiled(c)
    PROVE  IInv'
<1> DEFINE key == host[c].id
           pkey == ParentKey(c)
           grown == Filed(key, pkey)
           order == FiledBirth(key)
<1>1. /\ Sound(runs, birth) /\ Hosts(host) /\ InFlightOf(host, emit)
      /\ ended \in [Ids -> Nat] /\ forgot \subseteq Ids
  BY SoundIsConsistent, TypeParts DEF IInv, TypeOK
<1>2. /\ host[c].phase = "starting" /\ emit' = emit
      /\ host' = [host EXCEPT ![c].phase = "running"]
      /\ active' = active /\ clearing' = clearing /\ unprotects' = unprotects
      /\ tainted' = tainted /\ faulted' = faulted
      /\ events' = events /\ touched' = touched
  BY DEF StartFiled, Starting
<1>3. Hosts(host') /\ InFlightOf(host', emit') /\ key \in Ids
  <2>1. Hosts(host') /\ InFlightOf(host', emit)
    BY <1>1, <1>2, PhaseStep
  <2>2. QED BY <2>1, <1>1, <1>2 DEF Hosts
<1>4. key \notin Live /\ (pkey # None => pkey \in Live)
  BY DEF StartFiled, Known
<1>5. Sound(grown, order)
  BY <1>1, <1>3, <1>4, SoundFiled
<1>6. Sound(runs', birth') /\ ended' \in [Ids -> Nat]
  <2>1. CASE Cardinality(LiveIn(grown)) <= Cap
    BY <2>1, <1>1, <1>5 DEF StartFiled
  <2>2. CASE ~ (Cardinality(LiveIn(grown)) <= Cap)
    <3>1. PICK oldest \in {k \in Ids : order[k] = 1} :
            LET gone == Evicted(grown, grown[oldest].root)
            IN  /\ runs' = Without(grown, gone)
                /\ birth' = Forgetting(order, gone)
                /\ \E o \in Orders(grown[oldest].root, gone) :
                       ended' = RememberAll(ended, o)
      BY <2>2 DEF StartFiled
    <3> DEFINE root == grown[oldest].root
               gone == Evicted(grown, root)
    <3>2. root \in LiveIn(grown) /\ grown[root].root = root /\ root \in Ids
      <4>1. oldest \in In(order)
        BY <3>1 DEF In
      <4>2. QED BY <4>1, <1>5 DEF Sound, LiveIn
    <3>3. gone = {root} \cup {k \in LiveIn(grown) : grown[k].root = root}
      BY <3>2, <1>5, EvictedTree
    <3>4. Sound(Without(grown, gone), Forgetting(order, gone))
      BY <3>2, <3>3, <1>5, SoundWithoutTree
    <3>5. gone \cup {root} \in SUBSET Ids
      BY <3>2, <3>3 DEF LiveIn
    <3>6. \A o \in Orders(root, gone) : o \in [gone \cup {root} -> Nat]
      <4>1. PICK n \in Nat : n = Cardinality(gone \cup {root})
        BY <3>5, IdsFinite
      <4>2. ASSUME NEW o \in Orders(root, gone) PROVE o \in [gone \cup {root} -> Nat]
        <5>1. o \in [gone \cup {root} -> 1..n]
          BY <4>1 DEF Orders
        <5>2. QED BY <5>1
      <4>3. QED BY <4>2
    <3>7. ended' \in [Ids -> Nat]
      BY <3>1, <3>5, <3>6, <1>1, RememberAllType
    <3>8. QED BY <3>1, <3>4, <3>7
  <2>3. QED BY <2>1, <2>2
<1>7. forgot' \subseteq Ids
  BY <1>1, <1>3, UsedNext DEF StartFiled
<1>8. QED BY <1>2, <1>3, <1>6, <1>7, TypePartsNext DEF IInv, TypeOK

\* The end of a run.
LEMMA StepEnd ==
    ASSUME IInv, NEW c \in Calls, End(c)
    PROVE  IInv'
<1> DEFINE key == host[c].id
<1>1. /\ Sound(runs, birth) /\ Hosts(host) /\ InFlightOf(host, emit)
      /\ ended \in [Ids -> Nat] /\ forgot \subseteq Ids
  BY SoundIsConsistent, TypeParts DEF IInv, TypeOK
<1>2. /\ host[c].phase = "running" /\ emit' = emit
      /\ host' = [host EXCEPT ![c].phase = "ended"]
      /\ active' = active /\ clearing' = clearing /\ unprotects' = unprotects
      /\ tainted' = tainted /\ faulted' = faulted
      /\ events' = events /\ touched' = touched
  BY DEF End
<1>3. Hosts(host') /\ InFlightOf(host', emit') /\ key \in Ids
  <2>1. Hosts(host') /\ InFlightOf(host', emit)
    BY <1>1, <1>2, PhaseStep
  <2>2. QED BY <2>1, <1>1, <1>2 DEF Hosts
<1>4. Sound(runs', birth') /\ ended' \in [Ids -> Nat]
  <2>1. CASE active /\ key \in Live
    <3>1. /\ ended' = Remember(ended, key)
          /\ runs' = Discard(Without(runs, Dropped(key)), runs[key].root, key)
          /\ birth' = Forgetting(birth, Dropped(key))
      BY <2>1 DEF End
    <3>2. QED BY <3>1, <2>1, <1>1, <1>3, SoundEnded, RememberType
  <2>2. CASE ~ (active /\ key \in Live)
    BY <2>2, <1>1 DEF End
  <2>3. QED BY <2>1, <2>2
<1>5. forgot' \subseteq Ids
  BY <1>1, <1>3, UsedNext DEF End
<1>6. QED BY <1>2, <1>3, <1>4, <1>5, TypePartsNext DEF IInv, TypeOK

\* The handler's fault only marks the id.
LEMMA StepFaulted ==
    ASSUME IInv, NEW c \in Calls, StartFaulted(c)
    PROVE  IInv'
<1>1. /\ Sound(runs, birth) /\ Hosts(host) /\ InFlightOf(host, emit)
      /\ faulted \in [Ids -> Nat] /\ forgot \subseteq Ids
  BY SoundIsConsistent, TypeParts DEF IInv, TypeOK
<1>2. /\ host[c].phase = "starting" /\ emit' = emit
      /\ host' = [host EXCEPT ![c].phase = "running"]
      /\ active' = active /\ clearing' = clearing /\ unprotects' = unprotects
      /\ runs' = runs /\ birth' = birth /\ tainted' = tainted /\ ended' = ended
      /\ events' = events /\ touched' = touched
  BY DEF StartFaulted, Starting
<1>3. Hosts(host') /\ InFlightOf(host', emit') /\ host[c].id \in Ids
  <2>1. Hosts(host') /\ InFlightOf(host', emit')
    BY <1>1, <1>2, PhaseStep
  <2>2. QED BY <2>1, <1>1, <1>2 DEF Hosts
<1>4. faulted' \in [Ids -> Nat]
  BY <1>1, <1>3, RememberType DEF StartFaulted
<1>5. forgot' \subseteq Ids
  BY <1>1, <1>3, UsedNext DEF StartFaulted
<1>6. QED BY <1>1, <1>2, <1>3, <1>4, <1>5, TypePartsNext DEF IInv, TypeOK

\* A run is invoked: its id is one of Ids, its flow one of Calls.
LEMMA StepInvoke ==
    ASSUME IInv, NEW c \in Calls, NEW k \in Ids, NEW p \in Calls \cup {None},
           Invoke(c, k, p)
    PROVE  IInv'
<1>1. /\ Sound(runs, birth) /\ Hosts(host) /\ InFlightOf(host, emit)
      /\ forgot \subseteq Ids
  BY SoundIsConsistent, TypeParts DEF IInv, TypeOK
<1> DEFINE new == [phase |-> IF active THEN "starting" ELSE "running",
                   id |-> k, parent |-> p,
                   flow |-> IF p = None THEN c ELSE host[p].flow]
<1>2. /\ host[c].phase = "unborn" /\ emit' = emit
      /\ host' = [host EXCEPT ![c] = new]
      /\ active' = active /\ clearing' = clearing /\ unprotects' = unprotects
      /\ runs' = runs /\ birth' = birth /\ tainted' = tainted
      /\ faulted' = faulted /\ ended' = ended
      /\ events' = events /\ touched' = touched
  BY DEF Invoke, index, Unborn
<1>3. new.flow \in Calls
  <2>1. CASE p = None
    BY <2>1
  <2>2. CASE p # None
    <3>1. p \in Calls /\ host[p].phase \in {"running", "ended"}
      BY <2>2 DEF Invoke, Begun
    <3>2. QED BY <3>1, <2>2, <1>1 DEF Hosts
  <2>3. QED BY <2>1, <2>2
<1>4. new \in HostRuns /\ new.phase \in {"starting", "running"} /\ new.id \in Ids
  BY <1>3 DEF HostRuns
<1> HIDE DEF new
<1>5. Hosts(host')
  BY <1>1, <1>2, <1>3, <1>4 DEF Hosts
<1>6. InFlightOf(host', emit')
  BY <1>1, <1>2 DEF Hosts, InFlightOf
<1>7. forgot' \subseteq Ids
  BY <1>1, <1>5, UsedNext DEF Invoke
<1>8. QED BY <1>1, <1>2, <1>5, <1>6, <1>7, TypePartsNext DEF IInv, TypeOK

\* The stamp that finishes records a typed event and is quiet again.
LEMMA FinishType ==
    ASSUME Hosts(host), InFlightOf(host, emit), events \subseteq Events,
           NEW c \in Calls, host[c].phase # "unborn",
           NEW status \in Statuses, NEW root \in Ids \cup {None}, NEW seq \in Nat,
           Finish(c, Event(c, status, root, seq))
    PROVE  events' \subseteq Events /\ InFlightOf(host, emit')
<1>1. host[c].id \in Ids /\ host[c].flow \in Calls /\ emit[c] \in Stamps
  BY DEF Hosts, InFlightOf
<1>2. Event(c, status, root, seq) \in Events
  BY <1>1 DEF Event, Events, Stamps
<1>3. Quiet \in Stamps /\ Quiet.step = "quiet"
  BY DEF Quiet, Stamps
<1>4. emit' = [emit EXCEPT ![c] = Quiet]
  BY DEF Finish
<1>5. InFlightOf(host, emit')
  BY <1>3, <1>4 DEF InFlightOf
<1>6. QED BY <1>2, <1>5 DEF Finish

\* A stamp in flight that moves on keeps the types.
LEMMA EmitType ==
    ASSUME InFlightOf(host, emit), NEW c \in Calls,
           host[c].phase \in {"running", "ended"},
           NEW new \in Stamps, new.root \in Ids,
           emit' = [emit EXCEPT ![c] = new]
    PROVE  InFlightOf(host, emit')
  BY DEF InFlightOf

\* stamp()'s lookup of the run's entry.
LEMMA StepLookup ==
    ASSUME IInv, NEW c \in Calls, StampLookup(c)
    PROVE  IInv'
<1> DEFINE key == host[c].id
<1>1. /\ Sound(runs, birth) /\ Hosts(host) /\ InFlightOf(host, emit)
      /\ events \subseteq Events /\ runs \in [Ids -> Entries]
  BY SoundIsConsistent, TypeParts DEF IInv, TypeOK
<1>2. /\ host[c].phase \in {"running", "ended"} /\ host' = host
      /\ runs' = runs /\ birth' = birth
      /\ active' = active /\ clearing' = clearing /\ unprotects' = unprotects
      /\ tainted' = tainted /\ faulted' = faulted /\ ended' = ended
      /\ forgot' = forgot /\ touched' = touched
  BY DEF StampLookup, index, Begun
<1>3. InFlightOf(host, emit') /\ events' \subseteq Events
  <2>1. CASE key \in Live
    <3> DEFINE new == [step |-> "found", root |-> runs[key].root,
                       late |-> runs[key].root \in touched,
                       after |-> Seqs(runs[key].root)]
    <3>1. emit' = [emit EXCEPT ![c] = new] /\ events' = events
      BY <2>1 DEF StampLookup
    <3>2. runs[key].root \in Ids
      BY <2>1, <1>1 DEF Sound, Live, LiveIn
    <3>3. Seqs(runs[key].root) \in SUBSET Nat
      BY <1>1 DEF Seqs, Events
    <3>4. new \in Stamps /\ new.root \in Ids
      BY <3>2, <3>3 DEF Stamps
    <3> HIDE DEF new
    <3>5. QED BY <3>1, <3>4, <1>1, <1>2, EmitType
  <2>2. CASE key \notin Live
    <3>1. Finish(c, Event(c, Missed(key), None, 0))
      BY <2>2 DEF StampLookup
    <3>2. Missed(key) \in Statuses
      BY DEF Missed, Statuses
    <3>3. QED BY <3>1, <3>2, <1>1, <1>2, FinishType
  <2>3. QED BY <2>1, <2>2
<1>4. QED BY <1>1, <1>2, <1>3, TypePartsNext DEF IInv, TypeOK

\* stamp()'s reading of the root's entry.
LEMMA StepResolve ==
    ASSUME IInv, NEW c \in Calls, StampResolve(c)
    PROVE  IInv'
<1> DEFINE root == emit[c].root
<1>1. /\ Sound(runs, birth) /\ Hosts(host) /\ InFlightOf(host, emit)
      /\ events \subseteq Events
  BY SoundIsConsistent, TypeParts DEF IInv, TypeOK
<1>2. /\ emit[c].step = "found" /\ host' = host
      /\ runs' = runs /\ birth' = birth
      /\ active' = active /\ clearing' = clearing /\ unprotects' = unprotects
      /\ tainted' = tainted /\ faulted' = faulted /\ ended' = ended
      /\ forgot' = forgot /\ touched' = touched
  BY DEF StampResolve, index
<1>3. /\ host[c].phase \in {"running", "ended"} /\ root \in Ids
      /\ emit[c] \in Stamps
  BY <1>1, <1>2 DEF InFlightOf
<1>4. InFlightOf(host, emit') /\ events' \subseteq Events
  <2>1. CASE Finish(c, Event(c, "unknown_run", None, 0))
    BY <2>1, <1>1, <1>3, FinishType DEF Statuses
  <2>2. CASE Finish(c, Event(c, "collision", None, 0))
    BY <2>2, <1>1, <1>3, FinishType DEF Statuses
  <2>3. CASE emit' = [emit EXCEPT ![c].step = "resolved"] /\ events' = events
    <3>1. emit' = [emit EXCEPT ![c] = [emit[c] EXCEPT !.step = "resolved"]]
      BY <2>3
    <3>2. [emit[c] EXCEPT !.step = "resolved"] \in Stamps
      BY <1>3 DEF Stamps
    <3>3. [emit[c] EXCEPT !.step = "resolved"].root \in Ids
      BY <1>3 DEF Stamps
    <3>4. QED BY <3>1, <3>2, <3>3, <2>3, <1>1, <1>3, EmitType
  <2>4. QED BY <2>1, <2>2, <2>3 DEF StampResolve
<1>5. QED BY <1>1, <1>2, <1>4, TypePartsNext DEF IInv, TypeOK

\* stamp()'s sequence number.
LEMMA StepSeq ==
    ASSUME IInv, NEW c \in Calls, StampSeq(c)
    PROVE  IInv'
<1> DEFINE root == emit[c].root
<1>1. /\ Sound(runs, birth) /\ Hosts(host) /\ InFlightOf(host, emit)
      /\ events \subseteq Events /\ runs \in [Ids -> Entries]
  BY SoundIsConsistent, TypeParts DEF IInv, TypeOK
<1>2. /\ emit[c].step = "resolved" /\ host' = host /\ birth' = birth
      /\ active' = active /\ clearing' = clearing /\ unprotects' = unprotects
      /\ tainted' = tainted /\ faulted' = faulted /\ ended' = ended
      /\ forgot' = forgot /\ touched' = touched
  BY DEF StampSeq
<1>3. host[c].phase \in {"running", "ended"} /\ root \in Ids
  BY <1>1, <1>2 DEF InFlightOf
<1>4. CASE root \in Live
  <2>1. /\ runs' = [runs EXCEPT ![root].seq = @ + 1]
        /\ Finish(c, Event(c, "stamped", root, runs[root].seq + 1))
    BY <1>4 DEF StampSeq, NextSeq
  <2>2. runs[root] \in Entries /\ runs[root].seq + 1 \in Nat
    BY <1>1, <1>3 DEF Entries
  <2>3. [runs[root] EXCEPT !.seq = @ + 1] \in Entries
    BY <2>2 DEF Entries
  <2>4. /\ runs' \in [Ids -> Entries]
        /\ \A k \in Ids : /\ runs'[k].root = runs[k].root
                          /\ runs'[k].members = runs[k].members
    BY <2>1, <2>2, <2>3, <1>1 DEF Entries
  <2>5. Sound(runs', birth')
    BY <2>4, <1>1, <1>2, SoundSameShape
  <2>6. InFlightOf(host, emit') /\ events' \subseteq Events
    BY <2>1, <2>2, <1>1, <1>3, FinishType DEF Statuses
  <2>7. QED BY <2>5, <2>6, <1>1, <1>2, TypePartsNext DEF IInv, TypeOK
<1>5. CASE root \notin Live
  <2>1. runs' = runs /\ Finish(c, Event(c, "stamped", root, 0))
    BY <1>5 DEF StampSeq
  <2>2. InFlightOf(host, emit') /\ events' \subseteq Events
    BY <2>1, <1>1, <1>3, FinishType DEF Statuses
  <2>3. QED BY <2>1, <2>2, <1>1, <1>2, TypePartsNext DEF IInv, TypeOK
<1>6. QED BY <1>4, <1>5

\* The empty index is sound.
LEMMA SoundEmpty ==
    /\ Sound([k \in Ids |-> NoRun], Empty)
    /\ Empty \in [Ids -> Nat]
    /\ LiveIn([k \in Ids |-> NoRun]) = {}
<1>1. LiveIn([k \in Ids |-> NoRun]) = {}
  BY EntryType DEF LiveIn
<1>2. Empty \in [Ids -> Nat] /\ In(Empty) = {}
  BY DEF Empty, In
<1>3. QED BY <1>1, <1>2, EntryType DEF Sound

\* The two steps of deactivate(), and activate().
LEMMA StepSwitch ==
    ASSUME IInv, Deactivate \/ Clear \/ Activate
    PROVE  IInv'
<1>1. /\ Sound(runs, birth) /\ Hosts(host) /\ InFlightOf(host, emit)
      /\ events \subseteq Events /\ forgot \subseteq Ids
  BY SoundIsConsistent, TypeParts DEF IInv, TypeOK
<1>2. CASE Deactivate
  <2>1. /\ runs' = runs /\ birth' = birth /\ tainted' = tainted
        /\ faulted' = faulted /\ ended' = ended /\ host' = host /\ emit' = emit
        /\ events' = events /\ forgot' = forgot /\ touched' = touched
    BY <1>2 DEF Deactivate, index
  <2>2. active' \in BOOLEAN /\ clearing' \in BOOLEAN
    BY <1>2, Zenon DEF Deactivate
  <2>3. unprotects' \in Nat
    BY <1>2 DEF Deactivate, IInv, TypeOK
  <2>4. QED BY <2>1, <2>2, <2>3, <1>1, TypePartsNext DEF IInv, TypeOK
<1>3. CASE Activate
  BY <1>1, <1>3, TypePartsNext DEF Activate, index, IInv, TypeOK
<1>4. CASE Clear
  <2>1. host' = host /\ emit' = emit /\ Recall /\ Hosts(host')
    BY <1>1, <1>4 DEF Clear
  <2>2. forgot' \subseteq Ids
    BY <2>1, <1>1, UsedNext
  <2>3. /\ Sound(runs', birth') /\ tainted' \in [Ids -> Nat]
        /\ faulted' \in [Ids -> Nat] /\ ended' \in [Ids -> Nat]
    BY <1>4, SoundEmpty DEF Clear
  <2>4. /\ active' \in BOOLEAN /\ clearing' \in BOOLEAN /\ unprotects' \in Nat
        /\ events' \subseteq Events /\ touched' \subseteq Ids
    BY <1>4 DEF Clear, IInv, TypeOK
  <2>5. QED BY <2>1, <2>2, <2>3, <2>4, <1>1, TypePartsNext
<1>5. QED BY <1>2, <1>3, <1>4

\* The invariant holds at the start.
LEMMA InitIInv == Init => IInv
<1> SUFFICES ASSUME Init PROVE IInv
  OBVIOUS
<1>1. Sound(runs, birth) /\ runs \in [Ids -> Entries] /\ birth \in [Ids -> Nat]
  BY SoundEmpty DEF Init, Sound
<1>2. Hosts(host) /\ InFlightOf(host, emit)
  <2>1. Unborn \in HostRuns /\ Unborn.phase = "unborn"
    BY DEF Unborn, HostRuns
  <2>2. Quiet \in Stamps /\ Quiet.step = "quiet"
    BY DEF Quiet, Stamps
  <2>3. QED BY <2>1, <2>2 DEF Init, Hosts, InFlightOf
<1>3. TypeOK
  BY <1>1, <1>2, SoundEmpty, TypeParts DEF Init
<1>4. QED BY <1>1, <1>3, SoundIsConsistent DEF IInv

\* Every step preserves it.
LEMMA NextIInv == IInv /\ [Next]_vars => IInv'
<1> SUFFICES ASSUME IInv, [Next]_vars PROVE IInv'
  OBVIOUS
<1>1. ASSUME NEW c \in Calls, NEW k \in Ids, NEW p \in Calls \cup {None},
             Invoke(c, k, p)
      PROVE  IInv'
  BY <1>1, StepInvoke
<1>2. ASSUME NEW c \in Calls, StartReused(c) PROVE IInv'
  BY <1>2, StepReused
<1>3. ASSUME NEW c \in Calls, StartOrphan(c) PROVE IInv'
  BY <1>3, StepOrphan
<1>4. ASSUME NEW c \in Calls, StartFiled(c) PROVE IInv'
  BY <1>4, StepFiled
<1>5. ASSUME NEW c \in Calls, StartFaulted(c) PROVE IInv'
  BY <1>5, StepFaulted
<1>6. ASSUME NEW c \in Calls, End(c) PROVE IInv'
  BY <1>6, StepEnd
<1>7. ASSUME NEW c \in Calls, StampLookup(c) PROVE IInv'
  BY <1>7, StepLookup
<1>8. ASSUME NEW c \in Calls, StampResolve(c) PROVE IInv'
  BY <1>8, StepResolve
<1>9. ASSUME NEW c \in Calls, StampSeq(c) PROVE IInv'
  BY <1>9, StepSeq
<1>10. CASE Deactivate \/ Clear \/ Activate
  BY <1>10, StepSwitch
<1>11. CASE UNCHANGED vars
  BY <1>11 DEF vars, index, IInv, TypeOK, Begun, IndexConsistent, RootsLive,
               MembersExact, BirthsLive, Live, LiveIn, In
<1>12. QED BY <1>1, <1>2, <1>3, <1>4, <1>5, <1>6, <1>7, <1>8, <1>9, <1>10, <1>11
           DEF Next

\* Type correctness: in particular every stamp carries the id of a run and a
\* status stamp() can return, whatever interleaves with it.
THEOREM TypeCorrect == Spec => []TypeOK
<1>1. IInv => TypeOK
  BY DEF IInv
<1>2. QED BY <1>1, InitIInv, NextIInv, PTL DEF Spec

\* The index is consistent in every reachable state: a live run's root is live
\* and is a root, a root lists exactly the runs filed under it, and the
\* insertion order names exactly the live runs.
THEOREM IndexAlwaysConsistent == Spec => []IndexConsistent
<1>1. IInv => IndexConsistent
  BY DEF IInv
<1>2. QED BY <1>1, InitIInv, NextIInv, PTL DEF Spec

-----------------------------------------------------------------------------
(* The cap on live runs.  One eviction per start is enough because, by the *)
(* consistency of the index, the root of the oldest entry is live and goes.*)

\* No step but a start adds a live run.
LEMMA OnlyStartGrows ==
    ASSUME IInv, Next, ~ \E c \in Calls : StartFiled(c)
    PROVE  Live' \subseteq Live
<1>1. Sound(runs, birth) /\ Live = LiveIn(runs) /\ Live' = LiveIn(runs')
  BY SoundIsConsistent DEF IInv, TypeOK, Live
<1>2. ASSUME NEW c \in Calls, StartReused(c)
      PROVE  Live' \subseteq Live
  <2>1. \A k \in Ids : runs'[k].root # None => runs[k].root # None
    <3>1. TAKE k \in Ids
    <3>2. runs[k] \in Entries
      BY <1>1 DEF Sound
    <3>3. runs'[k] = runs[k] \/ runs'[k] = [runs[k] EXCEPT !.collided = TRUE]
      BY <1>2 DEF StartReused, Collide
    <3>4. QED BY <3>2, <3>3 DEF Entries
  <2>2. QED BY <2>1, <1>1 DEF LiveIn
<1>3. ASSUME NEW c \in Calls, End(c)
      PROVE  Live' \subseteq Live
  <2> DEFINE key == host[c].id
             gone == Dropped(key)
             ws == Without(runs, gone)
             ts == Discard(ws, runs[key].root, key)
  <2>1. CASE active /\ key \in Live
    <3>1. runs' = ts
      BY <2>1, <1>3 DEF End
    <3>2. \A k \in Ids : ws[k] = NoRun \/ ws[k] = runs[k]
      BY DEF Without
    <3>3. \A k \in Ids : ws[k] \in Entries /\ (ws[k].root # None => runs[k].root # None)
      BY <3>2, <1>1, EntryType DEF Sound
    <3> HIDE DEF ws
    <3>4. \A k \in Ids : ts[k] = ws[k] \/ ts[k] = [ws[k] EXCEPT !.members = @ \ {key}]
      BY DEF Discard
    <3>5. \A k \in Ids : ts[k].root = ws[k].root
      BY <3>3, <3>4 DEF Entries
    <3>6. QED BY <3>1, <3>3, <3>5, <1>1 DEF LiveIn
  <2>2. CASE ~ (active /\ key \in Live)
    BY <2>2, <1>3 DEF End, Live, LiveIn
  <2>3. QED BY <2>1, <2>2
<1>4. ASSUME NEW c \in Calls, StampSeq(c)
      PROVE  Live' \subseteq Live
  <2>1. runs' = runs \/ runs' = [runs EXCEPT ![emit[c].root].seq = @ + 1]
    BY <1>4 DEF StampSeq, NextSeq
  <2>2. \A k \in Ids : runs[k] \in Entries
    BY <1>1 DEF Sound
  <2>3. \A k \in Ids : runs'[k].root = runs[k].root
    BY <2>1, <2>2, <1>1 DEF Sound, Entries
  <2>4. QED BY <2>3, <1>1 DEF LiveIn
<1>5. CASE Clear
  BY <1>5, <1>1, SoundEmpty DEF Clear
<1>6. CASE runs' = runs
  BY <1>6 DEF Live, LiveIn
<1>7. QED BY <1>2, <1>3, <1>4, <1>5, <1>6
          DEF Next, Invoke, StartOrphan, StartFaulted, StampLookup, StampResolve,
              Deactivate, Activate, index

\* A start that files a run stays within the cap.
LEMMA FiledBounded ==
    ASSUME IInv, LiveBounded, NEW c \in Calls, StartFiled(c)
    PROVE  LiveBounded'
<1> DEFINE key == host[c].id
           pkey == ParentKey(c)
           grown == Filed(key, pkey)
           order == FiledBirth(key)
<1>1. Sound(runs, birth) /\ key \in Ids
  BY SoundIsConsistent DEF IInv, TypeOK, StartFiled, Starting
<1>2. key \notin Live /\ (pkey # None => pkey \in Live)
  BY DEF StartFiled, Known
<1>3. Sound(grown, order) /\ LiveIn(grown) = Live \cup {key}
  BY <1>1, <1>2, SoundFiled
<1>4. CASE Cardinality(LiveIn(grown)) <= Cap
  BY <1>4 DEF StartFiled, LiveBounded, Live
<1>5. CASE ~ (Cardinality(LiveIn(grown)) <= Cap)
  <2>1. PICK oldest \in {k \in Ids : order[k] = 1} :
          LET gone == Evicted(grown, grown[oldest].root)
          IN  /\ runs' = Without(grown, gone)
              /\ birth' = Forgetting(order, gone)
    BY <1>5 DEF StartFiled
  <2> DEFINE root == grown[oldest].root
             gone == Evicted(grown, root)
  <2>2. root \in LiveIn(grown) /\ grown[root].root = root
    <3>1. oldest \in In(order)
      BY <2>1 DEF In
    <3>2. QED BY <3>1, <1>3 DEF Sound
  <2>3. gone = {root} \cup {k \in LiveIn(grown) : grown[k].root = root}
    BY <2>2, <1>3, EvictedTree
  <2>4. Live' = LiveIn(grown) \ gone
    <3>1. runs' = Without(grown, gone)
      BY <2>1
    <3> HIDE DEF grown, order, gone
    <3>2. LiveIn(Without(grown, gone)) = LiveIn(grown) \ gone
      BY <2>2, <2>3, <1>3, SoundWithoutTree
    <3>3. QED BY <3>1, <3>2 DEF Live
  <2>5. Live' \subseteq LiveIn(grown) \ {root}
    BY <2>3, <2>4
  <2> HIDE DEF root, gone, grown, order
  <2>6. Live \subseteq Ids /\ LiveIn(grown) \subseteq Ids
    BY DEF Live, LiveIn
  <2>7. /\ IsFiniteSet(Live) /\ Cardinality(Live) \in Nat
        /\ IsFiniteSet(LiveIn(grown)) /\ Cardinality(LiveIn(grown)) \in Nat
    BY <2>6, IdsFinite
  <2>8. Cardinality(LiveIn(grown)) = Cardinality(Live) + 1
    BY <1>2, <1>3, <2>7, FS_AddElement
  <2>9. /\ IsFiniteSet(LiveIn(grown) \ {root})
        /\ Cardinality(LiveIn(grown) \ {root}) = Cardinality(LiveIn(grown)) - 1
    BY <2>2, <2>7, FS_RemoveElement
  <2>10. Cardinality(Live') <= Cardinality(LiveIn(grown) \ {root})
    BY <2>5, <2>9, FS_Subset
  <2>11. Cardinality(Live') \in Nat
    BY <2>5, <2>9, FS_Subset, FS_CardinalityType
  <2>12. Cap \in Nat /\ Cardinality(Live) <= Cap
    BY ConstAssumption DEF LiveBounded
  <2>13. QED BY <2>7, <2>8, <2>9, <2>10, <2>11, <2>12 DEF LiveBounded
<1>6. QED BY <1>4, <1>5

\* The index never holds more than MAX_LIVE_RUNS runs between callbacks, with
\* any number of runs in flight and ids reused at will.
THEOREM LiveRunsBounded == Spec => []LiveBounded
<1>1. Init => LiveBounded
  <2>1. Init => Live = {}
    BY SoundEmpty DEF Init, Live
  <2>2. Cardinality({}) = 0 /\ Cap \in Nat
    BY FS_EmptySet, ConstAssumption
  <2>3. QED BY <2>1, <2>2 DEF LiveBounded
<1>2. IInv /\ LiveBounded /\ [Next]_vars => LiveBounded'
  <2> SUFFICES ASSUME IInv, LiveBounded, [Next]_vars PROVE LiveBounded'
    OBVIOUS
  <2>1. CASE \E c \in Calls : StartFiled(c)
    BY <2>1, FiledBounded
  <2>2. CASE Next /\ ~ \E c \in Calls : StartFiled(c)
    <3>1. Live' \subseteq Live /\ Live \subseteq Ids
      BY <2>2, OnlyStartGrows DEF Live, LiveIn
    <3>2. IsFiniteSet(Live) /\ Cardinality(Live) \in Nat /\ Cap \in Nat
      BY <3>1, IdsFinite, ConstAssumption
    <3>3. Cardinality(Live') <= Cardinality(Live) /\ Cardinality(Live') \in Nat
      BY <3>1, <3>2, FS_Subset, FS_CardinalityType
    <3>4. QED BY <3>2, <3>3 DEF LiveBounded
  <2>3. CASE UNCHANGED vars
    BY <2>3 DEF vars, index, LiveBounded, Live, LiveIn
  <2>4. QED BY <2>1, <2>2, <2>3
<1>3. QED BY <1>1, <1>2, InitIInv, NextIInv, PTL DEF Spec

-----------------------------------------------------------------------------
(* What each step does to the entries of the index.                        *)

\* An entry that was there before the step, under the same root, its counter
\* not set back and its collision mark not taken off.
Kept(k) == /\ k \in Live
           /\ runs'[k].root = runs[k].root
           /\ runs'[k].seq >= runs[k].seq
           /\ runs[k].collided => runs'[k].collided

\* No step but the filing of a new run adds an entry, re-roots one, sets its
\* counter back or takes its mark off.
LEMMA OthersKeep ==
    ASSUME IInv, [Next]_vars, ~ \E c \in Calls : StartFiled(c)
    PROVE  \A k \in Live' : Kept(k)
<1>1. /\ \A k \in Ids : runs[k] \in Entries /\ runs[k].seq >= runs[k].seq
      /\ runs \in [Ids -> Entries]
      /\ Live = LiveIn(runs) /\ Live' = LiveIn(runs') /\ Live \subseteq Ids
  BY DEF IInv, TypeOK, Live, LiveIn, Entries
<1>2. ASSUME NEW c \in Calls, StartReused(c)
      PROVE  \A k \in Live' : Kept(k)
  <2>1. TAKE k \in Live'
  <2>2. k \in Ids
    BY <1>1 DEF LiveIn
  <2>3. runs'[k] = runs[k] \/ runs'[k] = [runs[k] EXCEPT !.collided = TRUE]
    BY <1>2, <2>2 DEF StartReused, Collide
  <2>4. /\ runs'[k].root = runs[k].root /\ runs'[k].seq = runs[k].seq
        /\ runs[k].collided => runs'[k].collided
    BY <1>1, <2>2, <2>3 DEF Entries
  <2>5. k \in Live
    BY <1>1, <2>2, <2>4 DEF LiveIn
  <2>6. QED BY <1>1, <2>2, <2>4, <2>5 DEF Kept
<1>3. ASSUME NEW c \in Calls, End(c)
      PROVE  \A k \in Live' : Kept(k)
  <2> DEFINE key == host[c].id
             ws == Without(runs, Dropped(key))
             ts == Discard(ws, runs[key].root, key)
  <2>1. CASE active /\ key \in Live
    <3>1. runs' = ts
      BY <2>1, <1>3 DEF End
    <3>2. TAKE k \in Live'
    <3>3. k \in Ids /\ ts[k].root # None
      BY <1>1, <3>1, <3>2 DEF LiveIn
    <3>4. ws[k] \in Entries /\ (ws[k] = NoRun \/ ws[k] = runs[k])
      BY <1>1, <3>3, EntryType DEF Without
    <3> HIDE DEF ws
    <3>5. ts[k] = ws[k] \/ ts[k] = [ws[k] EXCEPT !.members = @ \ {key}]
      BY <3>3 DEF Discard
    <3>6. /\ ts[k].root = ws[k].root /\ ts[k].seq = ws[k].seq
          /\ ts[k].collided = ws[k].collided
      BY <3>4, <3>5 DEF Entries
    <3>7. ws[k] = runs[k]
      BY <3>3, <3>4, <3>6, EntryType
    <3>8. k \in Live
      BY <1>1, <3>3, <3>6, <3>7 DEF LiveIn
    <3> HIDE DEF ts
    <3>9. QED BY <1>1, <3>1, <3>3, <3>6, <3>7, <3>8 DEF Kept
  <2>2. CASE ~ (active /\ key \in Live)
    <3>1. runs' = runs
      BY <2>2, <1>3 DEF End
    <3>2. QED BY <3>1, <1>1 DEF Kept
  <2>3. QED BY <2>1, <2>2
<1>4. ASSUME NEW c \in Calls, StampSeq(c)
      PROVE  \A k \in Live' : Kept(k)
  <2>1. TAKE k \in Live'
  <2>2. k \in Ids
    BY <1>1 DEF LiveIn
  <2>3. runs' = runs \/ runs' = [runs EXCEPT ![emit[c].root].seq = @ + 1]
    BY <1>4 DEF StampSeq, NextSeq
  <2>4. runs'[k] = runs[k] \/ runs'[k] = [runs[k] EXCEPT !.seq = @ + 1]
    BY <1>1, <2>2, <2>3
  <2>5. /\ runs'[k].root = runs[k].root /\ runs'[k].seq >= runs[k].seq
        /\ runs'[k].collided = runs[k].collided
    BY <1>1, <2>2, <2>4 DEF Entries
  <2>6. k \in Live
    BY <1>1, <2>2, <2>5 DEF LiveIn
  <2>7. QED BY <2>5, <2>6 DEF Kept
<1>5. CASE Clear
  BY <1>5, <1>1, SoundEmpty DEF Clear
<1>6. CASE runs' = runs
  BY <1>6, <1>1 DEF Kept
<1>7. QED BY <1>2, <1>3, <1>4, <1>5, <1>6
          DEF Next, Invoke, StartOrphan, StartFaulted, StampLookup, StampResolve,
              Deactivate, Activate, index, vars

\* The filing of a run leaves the other entries that stay as they were, and
\* the new one counts from zero under its parent's root, or its own.
LEMMA FiledKeeps ==
    ASSUME IInv, NEW c \in Calls, StartFiled(c),
           NEW key, key = host[c].id, NEW pkey, pkey = ParentKey(c)
    PROVE  /\ key \in Ids /\ key \notin Known
           /\ pkey # None => pkey \in Live
           /\ \A k \in Live' \ {key} : Kept(k)
           /\ key \in Live' =>
                  /\ runs'[key].root = IF pkey = None THEN key ELSE runs[pkey].root
                  /\ runs'[key].seq = 0
                  /\ ~ runs'[key].collided
<1> DEFINE grown == Filed(key, pkey)
<1>1. /\ \A k \in Ids : runs[k] \in Entries /\ runs[k].seq >= runs[k].seq
      /\ runs \in [Ids -> Entries]
      /\ Live = LiveIn(runs) /\ Live' = LiveIn(runs') /\ Live \subseteq Ids
      /\ Sound(runs, birth)
  BY SoundIsConsistent DEF IInv, TypeOK, Live, LiveIn, Entries
<1>2. /\ key \in Ids /\ key \notin Known /\ key \notin Live
      /\ pkey # None => pkey \in Live
  BY DEF IInv, TypeOK, StartFiled, Starting, Known
<1>3. /\ Run(key).seq = 0 /\ ~ Run(key).collided /\ Run(key).root = key
      /\ \A top \in Ids : /\ Run(top).seq = 0 /\ ~ Run(top).collided
                            /\ Run(top).root = top
  BY <1>2 DEF Run, NoRun
<1>4. /\ \A k \in Ids \ {key} : /\ grown[k].root = runs[k].root
                                  /\ grown[k].seq = runs[k].seq
                                  /\ grown[k].collided = runs[k].collided
      /\ grown[key].root = IF pkey = None THEN key ELSE runs[pkey].root
      /\ grown[key].seq = 0
      /\ ~ grown[key].collided
  <2>1. CASE pkey = None
    <3>1. grown = [runs EXCEPT ![key] = Run(key)]
      BY <2>1 DEF Filed
    <3>2. grown[key] = Run(key) /\ \A k \in Ids \ {key} : grown[k] = runs[k]
      BY <3>1, <1>1, <1>2
    <3>3. QED BY <3>2, <1>3, <2>1
  <2>2. CASE pkey # None
    <3> DEFINE top == runs[pkey].root
    <3>1. top \in Ids /\ top # key
      BY <2>2, <1>1, <1>2 DEF Sound, LiveIn
    <3>2. grown = [runs EXCEPT ![key] = Run(top), ![top].members = @ \cup {key}]
      BY <2>2 DEF Filed
    <3> HIDE DEF top, grown
    <3>3. /\ grown[key] = Run(top)
          /\ grown[top] = [runs[top] EXCEPT !.members = @ \cup {key}]
          /\ \A k \in Ids \ {key, top} : grown[k] = runs[k]
      BY <3>1, <3>2, <1>1, <1>2
    <3>4. runs[top] \in Entries
      BY <3>1, <1>1
    <3>5. /\ grown[top].root = runs[top].root
          /\ grown[top].seq = runs[top].seq
          /\ grown[top].collided = runs[top].collided
      BY <3>3, <3>4 DEF Entries
    <3>6. \A k \in Ids \ {key} : /\ grown[k].root = runs[k].root
                                  /\ grown[k].seq = runs[k].seq
                                  /\ grown[k].collided = runs[k].collided
      BY <3>3, <3>5
    <3>7. QED BY <3>3, <3>6, <3>1, <1>3, <2>2 DEF top
  <2>3. QED BY <2>1, <2>2
<1>5. \A k \in Live' : k \in Ids /\ runs'[k] = grown[k]
  <2>1. runs' = grown \/ \E gone : runs' = Without(grown, gone)
    BY DEF StartFiled
  <2> HIDE DEF grown
  <2>2. CASE runs' = grown
    BY <2>2, <1>1 DEF LiveIn
  <2>3. ASSUME NEW gone, runs' = Without(grown, gone)
        PROVE  \A k \in Live' : k \in Ids /\ runs'[k] = grown[k]
    BY <2>3, <1>1, EntryType DEF LiveIn, Without
  <2>4. QED BY <2>1, <2>2, <2>3
<1> HIDE DEF grown
<1>6. \A k \in Live' \ {key} : Kept(k)
  <2>1. TAKE k \in Live' \ {key}
  <2>2. k \in Ids /\ runs'[k] = grown[k] /\ runs'[k].root # None
    BY <1>5, <1>1 DEF LiveIn
  <2>3. k \in Live
    BY <2>2, <1>4, <1>1 DEF LiveIn
  <2>4. QED BY <2>2, <2>3, <1>4, <1>1 DEF Kept
<1>7. QED BY <1>2, <1>4, <1>5, <1>6

-----------------------------------------------------------------------------
(* No leak.  NoLeak alone is not inductive: a host that runs on while the  *)
(* package is inactive would take runs out of the host and leave entries,  *)
(* so the invariant says too that the package never was.                   *)

NoLeakHeld ==
    unprotects = 0 =>
        /\ active
        /\ \A k \in Live : \E c \in Calls :
               host[c].phase = "running" /\ host[c].id = runs[k].root

\* The end of a root takes its whole tree along.
LEMMA EndTakesTree ==
    ASSUME IInv, NEW c \in Calls, End(c), active, NEW k \in Live'
    PROVE  runs[k].root # host[c].id
<1> DEFINE key == host[c].id
           ws == Without(runs, Dropped(key))
           ts == Discard(ws, runs[key].root, key)
<1>1. SUFFICES ASSUME runs[k].root = key PROVE FALSE
  OBVIOUS
<1>2. Sound(runs, birth) /\ k \in Live /\ Live = LiveIn(runs)
  <2>1. ~ \E d \in Calls : StartFiled(d)
    <3>1. SUFFICES ASSUME NEW d \in Calls, Starting(d) PROVE FALSE
      BY DEF StartFiled
    <3>2. /\ host \in [Calls -> HostRuns] /\ host[c] \in HostRuns
          /\ host[c].phase = "running" /\ host[d].phase = "starting"
          /\ host' = [host EXCEPT ![c].phase = "ended"]
          /\ host' = [host EXCEPT ![d].phase = "running"]
      BY <3>1 DEF End, Starting, IInv, TypeOK
    <3>3. host'[c].phase = "ended"
      BY <3>2 DEF HostRuns
    <3>4. c # d /\ host'[c] = host[c]
      BY <3>2
    <3>5. QED BY <3>2, <3>3, <3>4
  <2>2. Kept(k)
    BY <2>1, OthersKeep DEF Next
  <2>3. QED BY <2>2, SoundIsConsistent DEF Kept, IInv, TypeOK, Live
<1>3. key \in Live /\ runs[key].root = key /\ k \in Ids
  BY <1>1, <1>2 DEF Sound, LiveIn
<1>4. k \in Dropped(key)
  BY <1>1, <1>2, <1>3 DEF Dropped, Sound
<1>5. ws[k] = NoRun
  BY <1>3, <1>4 DEF Without
<1>6. ts[k].root = None
  BY <1>3, <1>5, EntryType DEF Discard, LiveIn
<1>7. runs' = ts
  BY <1>3 DEF End
<1>8. QED BY <1>6, <1>7 DEF Live, LiveIn

\* The host is executing a run with this id.
Executing(h, r) == \E c \in Calls : h[c].phase = "running" /\ h[c].id = r

\* Every step keeps a root's run running as long as anything is filed under it.
LEMMA NextNoLeak == IInv /\ NoLeakHeld /\ [Next]_vars => NoLeakHeld'
<1> SUFFICES ASSUME IInv, NoLeakHeld, [Next]_vars PROVE NoLeakHeld'
  OBVIOUS
<1>1. SUFFICES ASSUME unprotects' = 0
                 PROVE  active' /\ \A k \in Live' : Executing(host', runs'[k].root)
  BY DEF NoLeakHeld, Executing
<1>2. Sound(runs, birth) /\ Live = LiveIn(runs) /\ unprotects \in Nat
  BY SoundIsConsistent DEF IInv, TypeOK, Live
<1>3. ~ Deactivate
  BY <1>1, <1>2 DEF Deactivate
<1>4. unprotects = 0
  BY <1>1, <1>3 DEF Next, Invoke, StartReused, StartOrphan, StartFiled,
        StartFaulted, Starting, End, StampLookup, StampResolve, StampSeq, Clear,
        Activate, vars
<1>5. active /\ \A k \in Live : Executing(host, runs[k].root)
  BY <1>4 DEF NoLeakHeld, Executing
<1>6. active'
  BY <1>3, <1>5 DEF Next, Invoke, StartReused, StartOrphan, StartFiled,
        StartFaulted, Starting, End, StampLookup, StampResolve, StampSeq, Clear,
        Activate, vars
<1>7. ASSUME NEW c \in Calls, StartFiled(c)
      PROVE  \A k \in Live' : Executing(host', runs'[k].root)
  <2> DEFINE key == host[c].id
             pkey == ParentKey(c)
  <2>1. TAKE k \in Live'
  <2>2. /\ host[c].phase = "starting" /\ host \in [Calls -> HostRuns]
        /\ host' = [host EXCEPT ![c].phase = "running"]
    BY <1>7 DEF StartFiled, Starting, IInv, TypeOK
  <2>3. \A r : Executing(host, r) => Executing(host', r)
    BY <2>2 DEF Executing
  <2>4. host'[c].phase = "running" /\ host'[c].id = key
    BY <2>2 DEF HostRuns
  <2>5. CASE k # key
    <3>1. Kept(k)
      BY <2>5, <1>7, FiledKeeps
    <3>2. QED BY <3>1, <2>3, <1>5 DEF Kept
  <2>6. CASE k = key
    <3>1. /\ pkey # None => pkey \in Live
          /\ runs'[k].root = IF pkey = None THEN key ELSE runs[pkey].root
      BY <2>6, <1>7, FiledKeeps
    <3>2. QED BY <3>1, <2>3, <2>4, <1>5 DEF Executing
  <2>7. QED BY <2>5, <2>6
<1>8. ASSUME ~ \E c \in Calls : StartFiled(c)
      PROVE  \A k \in Live' : Executing(host', runs'[k].root)
  <2>1. TAKE k \in Live'
  <2>2. Kept(k)
    BY <1>8, OthersKeep
  <2>3. PICK d \in Calls : host[d].phase = "running" /\ host[d].id = runs[k].root
    BY <2>2, <1>5 DEF Kept, Executing
  <2>4. CASE host'[d] = host[d]
    BY <2>2, <2>3, <2>4 DEF Kept, Executing
  <2>5. CASE End(d)
    <3>1. runs[k].root # host[d].id
      BY <2>5, <1>5, EndTakesTree
    <3>2. QED BY <3>1, <2>3
  <2>6. host'[d] = host[d] \/ End(d)
    <3>1. host \in [Calls -> HostRuns]
      BY DEF IInv, TypeOK
    <3>2. ASSUME NEW c \in Calls, NEW j \in Ids, NEW p \in Calls \cup {None},
                 Invoke(c, j, p)
          PROVE  host'[d] = host[d]
      BY <3>1, <3>2, <2>3 DEF Invoke, Unborn
    <3>3. ASSUME NEW c \in Calls, Starting(c)
          PROVE  host'[d] = host[d]
      BY <3>1, <3>3, <2>3 DEF Starting
    <3>4. ASSUME NEW c \in Calls, End(c)
          PROVE  host'[d] = host[d] \/ End(d)
      <4>1. CASE c = d
        BY <4>1, <3>4
      <4>2. CASE c # d
        BY <4>2, <3>1, <3>4 DEF End
      <4>3. QED BY <4>1, <4>2
    <3>5. CASE UNCHANGED host
      BY <3>5
    <3>6. QED BY <3>2, <3>3, <3>4, <3>5
              DEF Next, StartReused, StartOrphan, StartFiled, StartFaulted,
                  StampLookup, StampResolve, StampSeq, Deactivate, Clear,
                  Activate, vars
  <2>7. QED BY <2>4, <2>5, <2>6
<1>9. QED BY <1>6, <1>7, <1>8

\* No entry outlives the root it is filed under, while protect() stays on.
THEOREM NothingLeaks == Spec => []NoLeak
<1>1. Init => NoLeakHeld
  BY SoundEmpty DEF Init, NoLeakHeld, Live
<1>2. NoLeakHeld => NoLeak
  BY DEF NoLeakHeld, NoLeak
<1>3. QED BY <1>1, <1>2, NextNoLeak, InitIInv, NextIInv, PTL DEF Spec

-----------------------------------------------------------------------------
(* What each step does to the host, to the stamps and to the histories.    *)

\* A run keeps its id, its parent and its flow, and a run that began has begun.
LEMMA HostKeeps ==
    ASSUME IInv, [Next]_vars, NEW d \in Calls, host[d].phase # "unborn"
    PROVE  /\ host'[d].phase # "unborn"
           /\ host'[d].id = host[d].id /\ host'[d].parent = host[d].parent
           /\ host'[d].flow = host[d].flow
           /\ d \in Begun => d \in Begun'
<1>1. host \in [Calls -> HostRuns] /\ host[d] \in HostRuns
  BY DEF IInv, TypeOK
<1>2. ASSUME NEW c \in Calls, NEW j \in Ids, NEW p \in Calls \cup {None},
             Invoke(c, j, p)
      PROVE  host'[d] = host[d]
  BY <1>1, <1>2 DEF Invoke, Unborn
<1>3. ASSUME NEW c \in Calls, Starting(c) \/ End(c)
      PROVE  \/ host'[d] = host[d]
             \/ \E phase \in {"running", "ended"} :
                    host'[d] = [host[d] EXCEPT !.phase = phase]
  BY <1>1, <1>3 DEF Starting, End
<1>4. \/ host'[d] = host[d]
      \/ \E phase \in {"running", "ended"} :
             host'[d] = [host[d] EXCEPT !.phase = phase]
  BY <1>2, <1>3 DEF Next, StartReused, StartOrphan, StartFiled, StartFaulted,
        StampLookup, StampResolve, StampSeq, Deactivate, Clear, Activate, vars
<1>5. CASE host'[d] = host[d]
  BY <1>5 DEF Begun
<1>6. ASSUME NEW phase \in {"running", "ended"},
             host'[d] = [host[d] EXCEPT !.phase = phase]
      PROVE  /\ host'[d].phase = phase
             /\ host'[d].id = host[d].id /\ host'[d].parent = host[d].parent
             /\ host'[d].flow = host[d].flow
  BY <1>1, <1>6 DEF HostRuns
<1>7. QED BY <1>4, <1>5, <1>6 DEF Begun

\* An id that was used stays used, and what was forgotten stays forgotten.
LEMMA UsedKeeps ==
    ASSUME IInv, [Next]_vars
    PROVE  Used \subseteq Used' /\ forgot \subseteq forgot'
<1>1. Used \subseteq Used'
  <2>1. ASSUME NEW d \in Begun
        PROVE  d \in Begun' /\ host'[d].id = host[d].id
    BY HostKeeps DEF Begun
  <2>2. QED BY <2>1 DEF Used
<1>2. forgot \subseteq forgot'
  BY DEF Next, Invoke, StartReused, StartOrphan, StartFiled, StartFaulted, End,
         StampLookup, StampResolve, StampSeq, Deactivate, Clear, Activate, vars,
         Recall, RecallBut
<1>3. QED BY <1>1, <1>2

\* Only the three steps of a stamp write the stamps and the events.
Stamping(c) == StampLookup(c) \/ StampResolve(c) \/ StampSeq(c)

LEMMA StampsKeep ==
    ASSUME [Next]_vars, ~ \E c \in Calls : Stamping(c)
    PROVE  emit' = emit /\ events' = events
  BY DEF Next, Invoke, StartReused, StartOrphan, StartFiled, StartFaulted,
         Starting, End, Stamping, Deactivate, Clear, Activate, vars

\* A stamp that misses: no root is stamped.
Misses(c) ==
    /\ emit' = [emit EXCEPT ![c] = Quiet]
    /\ \E e \in Events : /\ e.root = None /\ e.status # "stamped"
                         /\ events' = events \cup {e}

LEMMA FinishMisses ==
    ASSUME IInv, NEW c \in Calls, c \in Begun,
           NEW status \in Statuses \ {"stamped"},
           Finish(c, Event(c, status, None, 0))
    PROVE  Misses(c)
<1>1. Event(c, status, None, 0) \in Events
  BY DEF IInv, TypeOK, Event, Events, Stamps, Begun
<1>2. /\ Event(c, status, None, 0).root = None
      /\ Event(c, status, None, 0).status = status
  BY DEF Event
<1>3. QED BY <1>1, <1>2 DEF Finish, Misses

LEMMA LookupEffect ==
    ASSUME IInv, NEW c \in Calls, StampLookup(c)
    PROVE  /\ c \in Begun /\ host' = host /\ runs' = runs /\ tainted' = tainted
           /\ ended' = ended /\ forgot' = forgot /\ touched' = touched
           /\ \/ Misses(c)
              \/ \E root \in Ids :
                    /\ host[c].id \in Live /\ root = runs[host[c].id].root
                    /\ events' = events
                    /\ emit' = [emit EXCEPT ![c] =
                           [step |-> "found", root |-> root,
                            late |-> root \in touched, after |-> Seqs(root)]]
<1>1. /\ c \in Begun /\ host' = host /\ runs' = runs /\ tainted' = tainted
      /\ ended' = ended /\ forgot' = forgot /\ touched' = touched
  BY DEF StampLookup, index
<1>2. CASE host[c].id \in Live
  <2>1. runs[host[c].id].root \in Ids
    BY <1>2 DEF IInv, TypeOK, Entries, Live, LiveIn
  <2>2. QED BY <1>1, <1>2, <2>1 DEF StampLookup
<1>3. CASE host[c].id \notin Live
  <2>1. /\ Finish(c, Event(c, Missed(host[c].id), None, 0))
        /\ Missed(host[c].id) \in Statuses \ {"stamped"}
    BY <1>3 DEF StampLookup, Missed, Statuses
  <2>2. QED BY <2>1, <1>1, FinishMisses
<1>4. QED BY <1>2, <1>3

LEMMA ResolveEffect ==
    ASSUME IInv, NEW c \in Calls, StampResolve(c)
    PROVE  /\ emit[c].step = "found" /\ c \in Begun /\ emit[c].root \in Ids
           /\ host' = host /\ runs' = runs /\ tainted' = tainted
           /\ ended' = ended /\ forgot' = forgot /\ touched' = touched
           /\ \/ Misses(c)
              \/ /\ emit[c].root \in Live /\ ~ runs[emit[c].root].collided
                 /\ events' = events
                 /\ emit' = [emit EXCEPT ![c].step = "resolved"]
<1>1. /\ emit[c].step = "found" /\ c \in Begun /\ emit[c].root \in Ids
  BY DEF StampResolve, IInv, TypeOK
<1>2. /\ host' = host /\ runs' = runs /\ tainted' = tainted
      /\ ended' = ended /\ forgot' = forgot /\ touched' = touched
  BY DEF StampResolve, index
<1>3. {"unknown_run", "collision"} \subseteq Statuses \ {"stamped"}
  BY DEF Statuses
<1>4. QED BY <1>1, <1>2, <1>3, FinishMisses DEF StampResolve

LEMMA SeqEffect ==
    ASSUME IInv, NEW c \in Calls, StampSeq(c), NEW root, root = emit[c].root
    PROVE  /\ emit[c].step = "resolved" /\ c \in Begun /\ root \in Ids
           /\ host' = host /\ tainted' = tainted /\ Live' = Live
           /\ ended' = ended /\ forgot' = forgot /\ touched' = touched
           /\ emit' = [emit EXCEPT ![c] = Quiet]
           /\ \A k \in Live : Kept(k) /\ runs'[k].collided = runs[k].collided
           /\ \E e \in Events :
                 /\ events' = events \cup {e}
                 /\ e.flow = host[c].flow /\ e.root = root
                 /\ e.late = emit[c].late /\ e.after = emit[c].after
                 /\ \/ /\ root \in Live /\ e.seq = runs[root].seq + 1
                       /\ runs'[root].seq = runs[root].seq + 1
                    \/ root \notin Live /\ e.seq = 0
<1>1. /\ emit[c].step = "resolved" /\ c \in Begun /\ root \in Ids
      /\ emit[c] \in Stamps /\ host[c].flow \in Calls /\ host[c].id \in Ids
  BY DEF StampSeq, IInv, TypeOK, Begun
<1>2. /\ host' = host /\ tainted' = tainted /\ emit' = [emit EXCEPT ![c] = Quiet]
      /\ ended' = ended /\ forgot' = forgot /\ touched' = touched
  BY DEF StampSeq, Finish
<1>3. \A n \in Nat :
          /\ Event(c, "stamped", root, n) \in Events
          /\ Event(c, "stamped", root, n).flow = host[c].flow
          /\ Event(c, "stamped", root, n).root = root
          /\ Event(c, "stamped", root, n).seq = n
          /\ Event(c, "stamped", root, n).late = emit[c].late
          /\ Event(c, "stamped", root, n).after = emit[c].after
  BY <1>1 DEF Event, Events, Statuses, Stamps
<1>4. runs \in [Ids -> Entries] /\ \A k \in Ids : runs[k] \in Entries
  BY DEF IInv, TypeOK
<1>5. runs' = runs \/ runs' = [runs EXCEPT ![root].seq = @ + 1]
  BY DEF StampSeq, NextSeq
<1>6. ASSUME NEW k \in Ids
      PROVE  /\ runs'[k].root = runs[k].root /\ runs'[k].seq >= runs[k].seq
             /\ runs'[k].collided = runs[k].collided
  <2>1. runs'[k] = runs[k] \/ runs'[k] = [runs[k] EXCEPT !.seq = @ + 1]
    BY <1>4, <1>5
  <2>2. QED BY <2>1, <1>4 DEF Entries
<1>7. Live' = Live /\ \A k \in Live : Kept(k) /\ runs'[k].collided = runs[k].collided
  BY <1>6 DEF Live, LiveIn, Kept
<1>8. CASE root \in Live
  <2>1. /\ runs' = [runs EXCEPT ![root].seq = @ + 1]
        /\ events' = events \cup {Event(c, "stamped", root, runs[root].seq + 1)}
    BY <1>8 DEF StampSeq, NextSeq, Finish
  <2>2. runs[root] \in Entries /\ runs[root].seq + 1 \in Nat
    BY <1>1, <1>4 DEF Entries
  <2>3. runs'[root] = [runs[root] EXCEPT !.seq = @ + 1]
    BY <2>1, <1>1, <1>4
  <2>4. runs'[root].seq = runs[root].seq + 1
    BY <2>2, <2>3 DEF Entries
  <2>5. QED BY <1>1, <1>2, <1>3, <1>7, <1>8, <2>1, <2>2, <2>4
<1>9. CASE root \notin Live
  <2>1. events' = events \cup {Event(c, "stamped", root, 0)}
    BY <1>9 DEF StampSeq, Finish
  <2>2. QED BY <1>1, <1>2, <1>3, <1>7, <1>9, <2>1
<1>10. QED BY <1>8, <1>9

-----------------------------------------------------------------------------
(* The invariant behind the stamps.  A stamp is three steps, and between   *)
(* them the root it read may end, be evicted, be reused or come back under *)
(* another tree; what makes its answer right is what the index recalls.    *)

\* The call is between the steps of a stamp.
Asking(c) == emit[c].step # "quiet"

\* A child's flow is its parent's, and its parent began before it.
Ancestry ==
    \A c \in Calls :
        host[c].phase # "unborn" /\ host[c].parent # None =>
            /\ host[c].parent \in Begun
            /\ host[c].flow = host[host[c].parent].flow

\* An id in use is recalled or counted as forgotten, and no table, stamp or
\* event names an id that was never used: a start the index files under an id
\* it recalls nothing of is that id's first use, or the id is forgotten.
Recalled ==
    /\ Used \subseteq Known \cup forgot
    /\ Live \subseteq Used
    /\ touched \subseteq Used
    /\ \A c \in Calls : Asking(c) => emit[c].root \in Used
    /\ \A e \in events : e.root \in Used \cup {None}

\* The counter of a live root is ahead of every number stamped with it, and of
\* those a stamp under way saw.
Ahead(r) ==
    /\ \A e \in events : e.root = r => e.seq <= runs[r].seq
    /\ \A c \in Calls : Asking(c) /\ emit[c].root = r =>
           \A n \in emit[c].after : n <= runs[r].seq
Counting == \A r \in Live \ forgot : Ahead(r)

\* A live root that a reuse touched carries the collision mark, a stamp that
\* began after the reuse gets past it only when the id is forgotten, and the
\* root a stamp read is still a root when it is live.
Marked ==
    /\ \A c \in Calls : Asking(c) /\ emit[c].late => emit[c].root \in touched
    /\ \A c \in Calls : emit[c].step = "resolved" /\ emit[c].late =>
           emit[c].root \in forgot
    /\ \A r \in Live \ forgot :
           /\ r \in touched /\ runs[r].root = r => runs[r].collided
           /\ \A c \in Calls : Asking(c) /\ emit[c].root = r => runs[r].root = r
    /\ \A e \in events : e.status = "stamped" =>
           e.root # None /\ (e.late => e.root \in forgot)

\* Two flows are one, or each has an id the index does not recall.
Agree(f, g) == f = g \/ (~ Clean(f) /\ ~ Clean(g))

\* All that root r is or can still be stamped on agrees with flow f: the events
\* that have it, the stamps that resolved it, and, while no mark stops them,
\* those that read it and the calls of every run filed under it.
OfOneFlow(r, f) ==
    /\ \A e \in events :
           e.status = "stamped" /\ e.root = r => Agree(e.flow, f)
    /\ \A c \in Calls :
           emit[c].step = "resolved" /\ emit[c].root = r => Agree(host[c].flow, f)
    /\ r \in Live /\ ~ runs[r].collided =>
           /\ \A c \in Calls :
                  emit[c].step = "found" /\ emit[c].root = r
                  => Agree(host[c].flow, f)
           /\ \A k \in Live, c \in Begun :
                  runs[k].root = r /\ host[c].id = k => Agree(host[c].flow, f)
Apart == \A r \in Ids \ forgot : \E f \in Calls \cup {None} : OfOneFlow(r, f)

History == Ancestry /\ Recalled /\ Counting /\ SeqOrder /\ Marked /\ Apart

\* A child is of its parent's flow.
LEMMA NextAncestry == IInv /\ Ancestry /\ [Next]_vars => Ancestry'
<1> SUFFICES ASSUME IInv, Ancestry, [Next]_vars,
                    NEW d \in Calls, host'[d].phase # "unborn",
                    host'[d].parent # None
             PROVE  /\ host'[d].parent \in Begun'
                    /\ host'[d].flow = host'[host'[d].parent].flow
  BY DEF Ancestry
<1>1. \A p \in Begun : p \in Begun' /\ host'[p].flow = host[p].flow
  BY HostKeeps DEF Begun
<1>2. CASE host[d].phase # "unborn"
  <2>1. host'[d].parent = host[d].parent /\ host'[d].flow = host[d].flow
    BY <1>2, HostKeeps
  <2>2. QED BY <1>1, <1>2, <2>1 DEF Ancestry
<1>3. CASE host[d].phase = "unborn"
  <2>1. host \in [Calls -> HostRuns]
    BY DEF IInv, TypeOK
  <2>2. PICK j \in Ids, p \in Calls \cup {None} : Invoke(d, j, p)
    <3>1. ASSUME NEW c \in Calls, c # d, NEW j \in Ids,
                 NEW p \in Calls \cup {None}, Invoke(c, j, p)
          PROVE  host'[d] = host[d]
      BY <2>1, <3>1 DEF Invoke
    <3>2. ASSUME NEW c \in Calls, Starting(c) \/ End(c)
          PROVE  host'[d] = host[d]
      BY <2>1, <1>3, <3>2 DEF Starting, End
    <3>3. host'[d] # host[d]
      BY <1>3
    <3>4. QED BY <3>1, <3>2, <3>3 DEF Next, StartReused, StartOrphan,
              StartFiled, StartFaulted, StampLookup, StampResolve, StampSeq,
              Deactivate, Clear, Activate, vars
  <2>3. /\ host'[d].parent = p
        /\ host'[d].flow = IF p = None THEN d ELSE host[p].flow
        /\ p # None => p \in Begun
    BY <2>1, <2>2 DEF Invoke
  <2>4. QED BY <1>1, <2>3
<1>4. QED BY <1>2, <1>3

\* The id of a run whose start is filed and recalled was never used before.
LEMMA FreshUnlessForgotten ==
    ASSUME IInv, Recalled, NEW c \in Calls, StartFiled(c),
           host[c].id \notin forgot
    PROVE  host[c].id \notin Used
  BY FiledKeeps DEF Recalled

\* Every use of an id is recalled, or counted as forgotten.
LEMMA NextRecalled == IInv /\ Recalled /\ [Next]_vars => Recalled'
<1> SUFFICES ASSUME IInv, Recalled, [Next]_vars PROVE Recalled'
  OBVIOUS
<1>1. Used \subseteq Used' /\ forgot \subseteq forgot'
  BY UsedKeeps
<1>2. Used' \subseteq Known' \cup forgot'
  <2>1. CASE Used' \ Known' \subseteq forgot'
    BY <2>1
  <2>2. CASE Used' = Used /\ Known' = Known
    BY <1>1, <2>2 DEF Recalled
  <2>3. ASSUME NEW c \in Calls, StampSeq(c)
        PROVE  Used' = Used /\ Known' = Known
    BY <2>3, SeqEffect DEF Used, Begun, Known, In
  <2>4. ASSUME NEW c \in Calls,
               StartReused(c) \/ StartOrphan(c) \/ StartFiled(c) \/ StartFaulted(c)
        PROVE  Used' \ Known' \subseteq forgot'
    <3>1. Recall \/ RecallBut({host[c].id})
      BY <2>4 DEF StartReused, StartOrphan, StartFiled, StartFaulted
    <3>2. QED BY <3>1 DEF Recall, RecallBut
  <2>5. ASSUME NEW c \in Calls, End(c)
        PROVE  Used' \ Known' \subseteq forgot'
    BY <2>5 DEF End, Recall, RecallBut
  <2>6. ASSUME NEW c \in Calls, NEW k \in Ids, NEW p \in Calls \cup {None}, Invoke(c, k, p)
        PROVE  Used' \ Known' \subseteq forgot'
    BY <2>6 DEF Invoke, RecallBut
  <2>7. ASSUME UNCHANGED <<host, runs, tainted, ended>>
        PROVE  Used' = Used /\ Known' = Known
    BY <2>7 DEF Used, Begun, Known, Live, LiveIn, In
  <2>8. ASSUME NEW c \in Calls, StampLookup(c) \/ StampResolve(c)
        PROVE  UNCHANGED <<host, runs, tainted, ended>>
    BY <2>8 DEF StampLookup, StampResolve, index
  <2>9. CASE Deactivate \/ Activate \/ UNCHANGED vars
    <3>1. UNCHANGED <<host, runs, tainted, ended>>
      BY <2>9 DEF Deactivate, Activate, index, vars
    <3>2. QED BY <2>2, <2>7, <3>1
  <2>10. CASE Clear
    BY <2>1, <2>10 DEF Clear, Recall, RecallBut
  <2>11. QED BY <2>1, <2>2, <2>3, <2>4, <2>5, <2>6, <2>7, <2>8, <2>9, <2>10 DEF Next
<1>3. Live' \subseteq Used'
  <2>1. ASSUME NEW c \in Calls, StartFiled(c)
        PROVE  Live' \subseteq Used'
    <3>1. \A k \in Live' \ {host[c].id} : k \in Live
      BY <2>1, FiledKeeps DEF Kept
    <3>2. host[c].phase = "starting" /\ host' = [host EXCEPT ![c].phase = "running"]
          /\ host \in [Calls -> HostRuns]
      BY <2>1 DEF StartFiled, Starting, IInv, TypeOK
    <3>3. c \in Begun' /\ host'[c].id = host[c].id
      BY <3>2 DEF Begun, HostRuns
    <3>4. host[c].id \in Used'
      BY <3>3 DEF Used
    <3>5. QED BY <3>1, <3>4, <1>1 DEF Recalled
  <2>2. ASSUME ~ \E c \in Calls : StartFiled(c)
        PROVE  Live' \subseteq Used'
    BY <2>2, <1>1, OthersKeep DEF Kept, Recalled
  <2>3. QED BY <2>1, <2>2
<1>4. touched' \subseteq Used'
  <2>1. ASSUME NEW c \in Calls, StartReused(c)
        PROVE  touched' \subseteq Used'
    <3>1. touched' = touched \cup ({host[c].id, RootOf(host[c].id),
                                    RootOf(ParentKey(c))} \ {None})
      BY <2>1 DEF StartReused, Collide
    <3>2. \A k : RootOf(k) \in Live \cup {None}
      BY DEF RootOf, IInv, IndexConsistent, RootsLive
    <3>3. host[c].phase = "starting" /\ host' = [host EXCEPT ![c].phase = "running"]
          /\ host \in [Calls -> HostRuns]
      BY <2>1 DEF StartReused, Starting, IInv, TypeOK
    <3>4. c \in Begun' /\ host'[c].id = host[c].id
      BY <3>3 DEF Begun, HostRuns
    <3>5. host[c].id \in Used'
      BY <3>4 DEF Used
    <3>6. QED BY <3>1, <3>2, <3>5, <1>1 DEF Recalled
  <2>2. CASE touched' = touched
    BY <2>2, <1>1 DEF Recalled
  <2>3. QED BY <2>1, <2>2 DEF Next, Invoke, StartOrphan, StartFiled,
            StartFaulted, End, StampLookup, StampResolve, StampSeq, Deactivate,
            Clear, Activate, vars
<1>5. /\ \A c \in Calls : Asking(c)' => emit'[c].root \in Used'
      /\ \A e \in events' : e.root \in Used' \cup {None}
  <2>1. emit \in [Calls -> Stamps] /\ Quiet.step = "quiet"
    BY DEF IInv, TypeOK, Quiet
  <2>2. ASSUME NEW c \in Calls, Misses(c)
        PROVE  /\ \A d \in Calls : Asking(d)' => emit'[d].root \in Used'
               /\ \A e \in events' : e.root \in Used' \cup {None}
    BY <2>1, <2>2, <1>1 DEF Misses, Asking, Recalled
  <2>3. ASSUME NEW c \in Calls, StampLookup(c)
        PROVE  /\ \A d \in Calls : Asking(d)' => emit'[d].root \in Used'
               /\ \A e \in events' : e.root \in Used' \cup {None}
    <3>1. CASE Misses(c)
      BY <3>1, <2>2
    <3>2. CASE ~ Misses(c)
      <4>1. PICK root \in Ids :
               /\ host[c].id \in Live /\ root = runs[host[c].id].root
               /\ events' = events
               /\ emit' = [emit EXCEPT ![c] =
                      [step |-> "found", root |-> root,
                       late |-> root \in touched, after |-> Seqs(root)]]
        BY <2>3, <3>2, LookupEffect
      <4>2. root \in Live
        BY <4>1 DEF IInv, IndexConsistent, RootsLive
      <4>3. QED BY <4>1, <4>2, <2>1, <1>1 DEF Asking, Recalled
    <3>3. QED BY <3>1, <3>2
  <2>4. ASSUME NEW c \in Calls, StampResolve(c)
        PROVE  /\ \A d \in Calls : Asking(d)' => emit'[d].root \in Used'
               /\ \A e \in events' : e.root \in Used' \cup {None}
    <3>1. CASE Misses(c)
      BY <3>1, <2>2
    <3>2. CASE ~ Misses(c)
      <4>1. /\ events' = events /\ emit[c].step = "found"
            /\ emit' = [emit EXCEPT ![c].step = "resolved"]
        BY <2>4, <3>2, ResolveEffect
      <4>2. emit[c] \in Stamps
        BY <2>1
      <4>3. emit'[c].root = emit[c].root
        BY <4>1, <4>2, <2>1 DEF Stamps
      <4>4. QED BY <4>1, <4>3, <2>1, <1>1 DEF Asking, Recalled
    <3>3. QED BY <3>1, <3>2
  <2>5. ASSUME NEW c \in Calls, StampSeq(c)
        PROVE  /\ \A d \in Calls : Asking(d)' => emit'[d].root \in Used'
               /\ \A e \in events' : e.root \in Used' \cup {None}
    <3>1. /\ emit[c].step = "resolved" /\ emit' = [emit EXCEPT ![c] = Quiet]
          /\ \E e \in Events : events' = events \cup {e} /\ e.root = emit[c].root
      BY <2>5, SeqEffect
    <3>2. QED BY <3>1, <2>1, <1>1 DEF Asking, Recalled
  <2>6. CASE ~ \E c \in Calls : Stamping(c)
    BY <2>6, <1>1, StampsKeep DEF Asking, Recalled
  <2>7. QED BY <2>3, <2>4, <2>5, <2>6 DEF Stamping
<1>6. QED BY <1>2, <1>3, <1>4, <1>5 DEF Recalled


-----------------------------------------------------------------------------
(* The sequence numbers.                                                   *)

\* A step that leaves the stamps alone leaves every counter ahead.
LEMMA CountingIndex ==
    ASSUME IInv, Recalled, Counting, [Next]_vars,
           ~ \E c \in Calls : Stamping(c)
    PROVE  Counting'
<1> SUFFICES ASSUME NEW r \in Live', r \notin forgot'
             PROVE  Ahead(r)'
  BY DEF Counting
<1>1. /\ emit' = emit /\ events' = events /\ r \notin forgot
      /\ r \in Ids /\ r # None
  BY StampsKeep, UsedKeeps, ConstAssumption DEF Live, LiveIn
<1>2. /\ \A e \in events : e.seq \in Nat
      /\ \A c \in Calls : emit[c].after \subseteq Nat
      /\ \A k \in Ids : runs[k].seq \in Nat
  BY DEF IInv, TypeOK, Events, Stamps, Entries
<1>3. CASE Kept(r)
  <2>1. Ahead(r) /\ runs'[r].seq >= runs[r].seq /\ runs[r].seq \in Nat
    BY <1>1, <1>2, <1>3 DEF Kept, Counting
  <2>2. runs'[r].seq \in Nat
    <3>1. IInv'
      BY NextIInv
    <3>2. QED BY <3>1, <1>1 DEF IInv, TypeOK, Entries
  <2>3. \A e \in events : e.root = r => e.seq <= runs'[r].seq
    BY <1>2, <2>1, <2>2 DEF Ahead
  <2>4. \A c \in Calls : Asking(c) /\ emit[c].root = r =>
            \A n \in emit[c].after : n <= runs'[r].seq
    BY <1>2, <2>1, <2>2 DEF Ahead
  <2>5. QED BY <2>3, <2>4, <1>1 DEF Ahead, Asking
<1>4. CASE ~ Kept(r)
  <2>1. PICK c \in Calls : StartFiled(c)
    BY <1>4, OthersKeep
  <2>2. r = host[c].id
    BY <1>4, <2>1, FiledKeeps
  <2>3. r \notin Used
    BY <1>1, <2>1, <2>2, FreshUnlessForgotten
  <2>4. QED BY <1>1, <2>3 DEF Ahead, Asking, Recalled
<1>5. QED BY <1>3, <1>4

\* A stamp that misses says nothing of a root.
LEMMA CountingMisses ==
    ASSUME IInv, Counting, SeqOrder, NEW c \in Calls, Misses(c),
           runs' = runs, forgot' = forgot
    PROVE  Counting' /\ SeqOrder'
<1>1. emit \in [Calls -> Stamps] /\ Quiet.step = "quiet"
  BY DEF IInv, TypeOK, Quiet
<1>2. PICK e \in Events : /\ e.root = None /\ e.status # "stamped"
                          /\ events' = events \cup {e}
  BY DEF Misses
<1>3. SeqOrder'
  BY <1>2 DEF SeqOrder
<1>4. ASSUME NEW r \in Live, r \notin forgot
      PROVE  Ahead(r)'
  <2>1. Ahead(r) /\ r # None
    BY <1>4, ConstAssumption DEF Counting, Live, LiveIn
  <2>2. QED BY <2>1, <1>1, <1>2 DEF Ahead, Asking, Misses
<1>5. Live' = Live
  BY DEF Live, LiveIn
<1>6. QED BY <1>3, <1>4, <1>5 DEF Counting

\* Every step keeps the counters ahead and the numbers in order.
LEMMA NextCounting ==
    IInv /\ Recalled /\ Counting /\ SeqOrder /\ [Next]_vars
    => Counting' /\ SeqOrder'
<1> SUFFICES ASSUME IInv, Recalled, Counting, SeqOrder, [Next]_vars
             PROVE  Counting' /\ SeqOrder'
  OBVIOUS
<1>1. /\ emit \in [Calls -> Stamps] /\ Quiet.step = "quiet"
      /\ \A k \in Ids : runs[k].seq \in Nat
      /\ \A d \in events : d.seq \in Nat
      /\ \A c \in Calls : emit[c].after \subseteq Nat
  BY DEF IInv, TypeOK, Quiet, Stamps, Entries, Events
<1>2. ASSUME NEW c \in Calls, StampLookup(c)
      PROVE  Counting' /\ SeqOrder'
  <2>1. runs' = runs /\ forgot' = forgot /\ Live' = Live
    BY <1>2, LookupEffect DEF Live, LiveIn
  <2>2. CASE Misses(c)
    BY <2>1, <2>2, CountingMisses
  <2>3. CASE ~ Misses(c)
    <3>1. PICK root \in Ids :
             /\ events' = events
             /\ emit' = [emit EXCEPT ![c] =
                    [step |-> "found", root |-> root,
                     late |-> root \in touched, after |-> Seqs(root)]]
      BY <1>2, <2>3, LookupEffect
    <3>2. ASSUME NEW r \in Live, r \notin forgot
          PROVE  Ahead(r)'
      <4>1. Ahead(r)
        BY <3>2 DEF Counting
      <4>2. \A n \in Seqs(r) : n <= runs[r].seq
        BY <4>1 DEF Ahead, Seqs
      <4>3. /\ emit'[c].root = root /\ emit'[c].after = Seqs(root)
            /\ \A d \in Calls \ {c} : emit'[d] = emit[d]
        BY <3>1, <1>1
      <4>4. \A d \in Calls : Asking(d)' /\ emit'[d].root = r =>
                \A n \in emit'[d].after : n <= runs[r].seq
        BY <4>1, <4>2, <4>3 DEF Ahead, Asking
      <4>5. QED BY <4>1, <4>4, <3>1, <2>1 DEF Ahead
    <3>3. SeqOrder'
      BY <3>1, <2>1 DEF SeqOrder
    <3>4. QED BY <3>2, <3>3, <2>1 DEF Counting
  <2>4. QED BY <2>2, <2>3
<1>3. ASSUME NEW c \in Calls, StampResolve(c)
      PROVE  Counting' /\ SeqOrder'
  <2>1. /\ runs' = runs /\ forgot' = forgot /\ Live' = Live
        /\ emit[c].step = "found"
    BY <1>3, ResolveEffect DEF Live, LiveIn
  <2>2. CASE Misses(c)
    BY <2>1, <2>2, CountingMisses
  <2>3. CASE ~ Misses(c)
    <3>1. events' = events /\ emit' = [emit EXCEPT ![c].step = "resolved"]
      BY <1>3, <2>3, ResolveEffect
    <3>2. \A d \in Calls : /\ emit'[d].root = emit[d].root
                           /\ emit'[d].after = emit[d].after
                           /\ Asking(d)' => Asking(d)
      BY <3>1, <1>1, <2>1 DEF Stamps, Asking
    <3>3. ASSUME NEW r \in Live, r \notin forgot
          PROVE  Ahead(r)'
      BY <3>1, <3>2, <3>3, <2>1 DEF Ahead, Counting
    <3>4. SeqOrder'
      BY <3>1, <2>1 DEF SeqOrder
    <3>5. QED BY <3>3, <3>4, <2>1 DEF Counting
  <2>4. QED BY <2>2, <2>3
<1>4. ASSUME NEW c \in Calls, StampSeq(c)
      PROVE  Counting' /\ SeqOrder'
  <2> DEFINE root == emit[c].root
  <2>1. /\ emit[c].step = "resolved" /\ Live' = Live /\ forgot' = forgot
        /\ emit' = [emit EXCEPT ![c] = Quiet]
        /\ \A k \in Live : k \in Ids /\ runs'[k].seq >= runs[k].seq
    BY <1>4, SeqEffect DEF Kept, Live, LiveIn
  <2>2. PICK e \in Events :
           /\ events' = events \cup {e}
           /\ e.root = root /\ e.after = emit[c].after
           /\ \/ /\ root \in Live /\ e.seq = runs[root].seq + 1
                 /\ runs'[root].seq = runs[root].seq + 1
              \/ root \notin Live /\ e.seq = 0
    BY <1>4, SeqEffect
  <2>3. \A k \in Live : runs'[k].seq \in Nat
    <3>1. IInv'
      BY NextIInv
    <3>2. QED BY <3>1, <2>1 DEF IInv, TypeOK, Entries
  <2>4. ASSUME NEW r \in Live, r \notin forgot
        PROVE  Ahead(r)'
    <3>1. Ahead(r) /\ runs'[r].seq >= runs[r].seq /\ runs'[r].seq \in Nat
          /\ runs[r].seq \in Nat
      BY <2>4, <2>1, <2>3, <1>1 DEF Counting
    <3>2. e.root = r => e.seq <= runs'[r].seq
      BY <2>2, <2>4, <3>1
    <3>3. \A d \in events' : d.root = r => d.seq <= runs'[r].seq
      BY <3>1, <3>2, <2>2, <1>1 DEF Ahead
    <3>4. \A d \in Calls : Asking(d)' =>
              d # c /\ emit'[d] = emit[d] /\ Asking(d)
      BY <2>1, <1>1 DEF Asking
    <3>5. \A d \in Calls : Asking(d)' /\ emit'[d].root = r =>
              \A n \in emit'[d].after : n <= runs'[r].seq
      BY <3>1, <3>4, <1>1 DEF Ahead
    <3>6. QED BY <3>3, <3>5 DEF Ahead
  <2>5. ASSUME e.seq # 0, e.root \notin forgot
        PROVE  \A n \in e.after : e.seq > n
    <3>1. root \in Live /\ e.seq = runs[root].seq + 1 /\ root \notin forgot
      BY <2>2, <2>5
    <3>2. \A n \in emit[c].after : n <= runs[root].seq
      BY <3>1, <2>1 DEF Counting, Ahead, Asking
    <3>3. runs[root].seq \in Nat /\ emit[c].after \subseteq Nat
      BY <3>1, <2>1, <1>1
    <3>4. QED BY <3>1, <3>2, <3>3, <2>2
  <2>6. SeqOrder'
    BY <2>1, <2>2, <2>5 DEF SeqOrder
  <2>7. QED BY <2>1, <2>4, <2>6 DEF Counting
<1>5. CASE ~ \E c \in Calls : Stamping(c)
  <2>1. events' = events /\ forgot \subseteq forgot'
    BY <1>5, StampsKeep, UsedKeeps
  <2>2. SeqOrder'
    BY <2>1 DEF SeqOrder
  <2>3. QED BY <2>2, <1>5, CountingIndex
<1>6. QED BY <1>2, <1>3, <1>4, <1>5 DEF Stamping


-----------------------------------------------------------------------------
(* A reuse marks the roots it touches.                                     *)

\* The roots of the two ids of a reuse carry the mark.
LEMMA ReusedMarks ==
    ASSUME IInv, NEW c \in Calls, StartReused(c),
           NEW h \in {host[c].id, ParentKey(c)}, h # None, h \in Live
    PROVE  runs'[runs[h].root].collided
<1> DEFINE top == runs[h].root
<1>1. /\ top \in Live /\ top \in Ids /\ runs[top] \in Entries
      /\ RootOf(h) = top
  BY DEF IInv, TypeOK, IndexConsistent, RootsLive, Live, LiveIn, RootOf
<1>2. runs'[top] = [runs[top] EXCEPT !.collided = TRUE]
  BY <1>1 DEF StartReused, Collide, Holders
<1>3. QED BY <1>1, <1>2 DEF Entries

\* What a reuse touches, when it is a live root, is marked.
LEMMA TouchedMarked ==
    ASSUME IInv, [Next]_vars, NEW r \in Live, runs[r].root = r,
           r \in touched' \ touched
    PROVE  runs'[r].collided
<1>1. PICK c \in Calls : StartReused(c)
  BY DEF Next, Invoke, StartOrphan, StartFiled, StartFaulted, End, StampLookup,
         StampResolve, StampSeq, Deactivate, Clear, Activate, vars
<1>2. r \in {host[c].id, RootOf(host[c].id), RootOf(ParentKey(c))} \ {None}
  BY <1>1 DEF StartReused, Collide
<1>3. \A h : RootOf(h) # None => h # None /\ h \in Live /\ RootOf(h) = runs[h].root
  BY DEF RootOf
<1>4. r # None
  BY <1>2
<1>5. CASE r = host[c].id
  BY <1>1, <1>4, <1>5, ReusedMarks
<1>6. CASE r = RootOf(host[c].id)
  BY <1>1, <1>3, <1>4, <1>6, ReusedMarks
<1>7. CASE r = RootOf(ParentKey(c))
  BY <1>1, <1>3, <1>4, <1>7, ReusedMarks
<1>8. QED BY <1>2, <1>5, <1>6, <1>7

\* A stamp that misses stamps no root.
LEMMA MarkedMisses ==
    ASSUME IInv, Marked, NEW c \in Calls, Misses(c),
           runs' = runs, forgot' = forgot, touched' = touched
    PROVE  Marked'
<1>1. emit \in [Calls -> Stamps] /\ Quiet.step = "quiet"
  BY DEF IInv, TypeOK, Quiet
<1>2. \A d \in Calls : Asking(d)' => emit'[d] = emit[d] /\ Asking(d)
  BY <1>1 DEF Misses, Asking
<1>3. \A d \in Calls : emit'[d].step = "resolved" => Asking(d)'
  BY DEF Asking
<1>4. Live' = Live
  BY DEF Live, LiveIn
<1>5. \A e \in events' : e.status = "stamped" => e \in events
  BY DEF Misses
<1>6. QED BY <1>2, <1>3, <1>4, <1>5 DEF Marked

LEMMA NextMarked == IInv /\ Recalled /\ Marked /\ [Next]_vars => Marked'
<1> SUFFICES ASSUME IInv, Recalled, Marked, [Next]_vars PROVE Marked'
  OBVIOUS
<1>1. emit \in [Calls -> Stamps] /\ Quiet.step = "quiet"
  BY DEF IInv, TypeOK, Quiet
<1>2. ASSUME NEW c \in Calls, StampLookup(c)
      PROVE  Marked'
  <2>1. /\ runs' = runs /\ forgot' = forgot /\ touched' = touched /\ Live' = Live
    BY <1>2, LookupEffect DEF Live, LiveIn
  <2>2. CASE Misses(c)
    BY <2>1, <2>2, MarkedMisses
  <2>3. CASE ~ Misses(c)
    <3>1. PICK root \in Ids :
             /\ host[c].id \in Live /\ root = runs[host[c].id].root
             /\ events' = events
             /\ emit' = [emit EXCEPT ![c] =
                    [step |-> "found", root |-> root,
                     late |-> root \in touched, after |-> Seqs(root)]]
      BY <1>2, <2>3, LookupEffect
    <3>2. runs[root].root = root
      BY <3>1 DEF IInv, IndexConsistent, RootsLive
    <3>3. /\ emit'[c].root = root /\ emit'[c].step = "found"
          /\ emit'[c].late = (root \in touched)
          /\ \A d \in Calls \ {c} : emit'[d] = emit[d]
      BY <3>1, <1>1
    <3>4. \A d \in Calls : Asking(d)' /\ emit'[d].late => emit'[d].root \in touched
      BY <3>3 DEF Asking, Marked
    <3>5. \A d \in Calls : emit'[d].step = "resolved" /\ emit'[d].late =>
              emit'[d].root \in forgot
      BY <3>3 DEF Marked
    <3>6. \A r \in Live \ forgot : \A d \in Calls :
              Asking(d)' /\ emit'[d].root = r => runs[r].root = r
      BY <3>2, <3>3 DEF Asking, Marked
    <3>7. QED BY <2>1, <3>1, <3>4, <3>5, <3>6 DEF Marked
  <2>4. QED BY <2>2, <2>3
<1>3. ASSUME NEW c \in Calls, StampResolve(c)
      PROVE  Marked'
  <2>1. /\ runs' = runs /\ forgot' = forgot /\ touched' = touched /\ Live' = Live
        /\ emit[c].step = "found"
    BY <1>3, ResolveEffect DEF Live, LiveIn
  <2>2. CASE Misses(c)
    BY <2>1, <2>2, MarkedMisses
  <2>3. CASE ~ Misses(c)
    <3>1. /\ emit[c].root \in Live /\ ~ runs[emit[c].root].collided
          /\ events' = events
          /\ emit' = [emit EXCEPT ![c].step = "resolved"]
      BY <1>3, <2>3, ResolveEffect
    <3>2. \A d \in Calls : /\ emit'[d].root = emit[d].root
                           /\ emit'[d].late = emit[d].late
                           /\ Asking(d)' => Asking(d)
                           /\ emit'[d].step = "resolved" =>
                                  d = c \/ emit[d].step = "resolved"
      BY <3>1, <1>1, <2>1 DEF Stamps, Asking
    <3>3. emit[c].late => emit[c].root \in forgot
      BY <3>1, <2>1 DEF Marked, Asking
    <3>4. \A d \in Calls : emit'[d].step = "resolved" /\ emit'[d].late =>
              emit'[d].root \in forgot
      BY <3>2, <3>3 DEF Marked
    <3>5. \A d \in Calls : Asking(d)' /\ emit'[d].late => emit'[d].root \in touched
      BY <3>2 DEF Marked
    <3>6. \A r \in Live \ forgot : \A d \in Calls :
              Asking(d)' /\ emit'[d].root = r => runs[r].root = r
      BY <3>2 DEF Marked
    <3>7. QED BY <2>1, <3>1, <3>4, <3>5, <3>6 DEF Marked
  <2>4. QED BY <2>2, <2>3
<1>4. ASSUME NEW c \in Calls, StampSeq(c)
      PROVE  Marked'
  <2>1. /\ emit[c].step = "resolved" /\ emit[c].root \in Ids
        /\ Live' = Live /\ forgot' = forgot /\ touched' = touched
        /\ emit' = [emit EXCEPT ![c] = Quiet]
        /\ \A k \in Live : /\ runs'[k].root = runs[k].root
                           /\ runs'[k].collided = runs[k].collided
    BY <1>4, SeqEffect DEF Kept
  <2>2. PICK e \in Events : /\ events' = events \cup {e} /\ e.root = emit[c].root
                            /\ e.late = emit[c].late
    BY <1>4, SeqEffect
  <2>3. \A d \in Calls : Asking(d)' => emit'[d] = emit[d] /\ Asking(d)
    BY <2>1, <1>1 DEF Asking
  <2>4. \A d \in Calls : emit'[d].step = "resolved" => Asking(d)'
    BY DEF Asking
  <2>5. e.root # None /\ (e.late => e.root \in forgot)
    BY <2>1, <2>2, ConstAssumption DEF Marked
  <2>6. \A d \in events' : d.status = "stamped" =>
            d.root # None /\ (d.late => d.root \in forgot)
    BY <2>2, <2>5 DEF Marked
  <2>7. QED BY <2>1, <2>3, <2>4, <2>6 DEF Marked
<1>5. CASE ~ \E c \in Calls : Stamping(c)
  <2>1. events' = events /\ emit' = emit /\ forgot \subseteq forgot'
    BY <1>5, StampsKeep, UsedKeeps
  <2>2. touched \subseteq touched'
    BY DEF Next, Invoke, StartReused, Collide, StartOrphan, StartFiled,
           StartFaulted, End, StampLookup, StampResolve, StampSeq, Deactivate,
           Clear, Activate, vars
  <2>3. ASSUME NEW r \in Live', r \notin forgot'
        PROVE  /\ r \in touched' /\ runs'[r].root = r => runs'[r].collided
               /\ \A c \in Calls : Asking(c) /\ emit[c].root = r =>
                      runs'[r].root = r
    <3>1. r \notin forgot /\ r # None
      BY <2>1, <2>3, ConstAssumption DEF Live, LiveIn
    <3>2. CASE Kept(r)
      <4>1. /\ r \in Live /\ runs'[r].root = runs[r].root
            /\ runs[r].collided => runs'[r].collided
        BY <3>2 DEF Kept
      <4>2. QED BY <4>1, <3>1, TouchedMarked DEF Marked
    <3>3. CASE ~ Kept(r)
      <4>1. PICK c \in Calls : StartFiled(c)
        BY <3>3, <2>3, OthersKeep
      <4>2. r = host[c].id
        BY <3>3, <4>1, <2>3, FiledKeeps
      <4>3. r \notin Used /\ touched' = touched
        BY <3>1, <4>1, <4>2, FreshUnlessForgotten DEF StartFiled
      <4>4. QED BY <4>3 DEF Recalled
    <3>4. QED BY <3>2, <3>3
  <2>4. QED BY <2>1, <2>2, <2>3 DEF Marked, Asking
<1>6. QED BY <1>2, <1>3, <1>4, <1>5 DEF Stamping


-----------------------------------------------------------------------------
(* One flow for every root.                                                *)

\* A flow with a forgotten id keeps it, so agreement lasts.
LEMMA UncleanKeeps ==
    ASSUME IInv, [Next]_vars, NEW f, ~ Clean(f)
    PROVE  ~ Clean(f)'
<1>1. PICK d \in Calls : host[d].flow = f /\ host[d].id \in forgot
  BY DEF Clean, IdsOf
<1>2. forgot \subseteq Ids
  BY DEF IInv, TypeOK
<1>3. CASE host[d].phase # "unborn"
  <2>1. host'[d].id = host[d].id /\ host'[d].flow = host[d].flow
        /\ forgot \subseteq forgot'
    BY <1>3, HostKeeps, UsedKeeps
  <2>2. QED BY <1>1, <2>1 DEF Clean, IdsOf
<1>4. CASE host'[d] = host[d]
  BY <1>1, <1>4, UsedKeeps DEF Clean, IdsOf
<1>5. CASE host[d].phase = "unborn" /\ host'[d] # host[d]
  <2>1. host \in [Calls -> HostRuns]
    BY DEF IInv, TypeOK
  <2>2. \E j \in Ids, p \in Calls \cup {None} : Invoke(d, j, p)
    <3>1. ASSUME NEW c \in Calls, c # d, NEW j \in Ids,
                 NEW p \in Calls \cup {None}, Invoke(c, j, p)
          PROVE  host'[d] = host[d]
      BY <2>1, <3>1 DEF Invoke
    <3>2. ASSUME NEW c \in Calls, Starting(c) \/ End(c)
          PROVE  host'[d] = host[d]
      BY <2>1, <1>5, <3>2 DEF Starting, End
    <3>3. QED BY <1>5, <3>1, <3>2 DEF Next, StartReused, StartOrphan,
              StartFiled, StartFaulted, StampLookup, StampResolve, StampSeq,
              Deactivate, Clear, Activate, vars
  <2>3. host[d].id = None
    BY <2>2 DEF Invoke, Unborn
  <2>4. QED BY <1>1, <1>2, <2>3, ConstAssumption
<1>6. QED BY <1>3, <1>4, <1>5

LEMMA AgreeKeeps ==
    ASSUME IInv, [Next]_vars, NEW f, NEW g, Agree(f, g)
    PROVE  Agree(f, g)'
  BY UncleanKeeps DEF Agree

\* A run that has just begun without a word to the index is forgotten.
LEMMA NewCaller ==
    ASSUME IInv, [Next]_vars, NEW d \in Calls, d \in Begun', d \notin Begun
    PROVE  \/ host'[d].id \in forgot'
           \/ /\ StartReused(d) \/ StartOrphan(d) \/ StartFiled(d)
              /\ host'[d].id = host[d].id /\ host'[d].flow = host[d].flow
              /\ host[d].phase = "starting"
<1>1. host \in [Calls -> HostRuns] /\ host[d] \in HostRuns
  BY DEF IInv, TypeOK
<1>2. ASSUME NEW c \in Calls, NEW j \in Ids, NEW p \in Calls \cup {None},
             Invoke(c, j, p)
      PROVE  host'[d].id \in forgot'
  <2>1. c = d
    BY <1>1, <1>2 DEF Invoke, Begun
  <2>2. /\ host'[d].phase = IF active THEN "starting" ELSE "running"
        /\ host'[d].id = j
    BY <1>1, <1>2, <2>1 DEF Invoke
  <2>3. ~ active
    BY <2>2 DEF Begun
  <2>4. QED BY <1>2, <2>2, <2>3 DEF Invoke, RecallBut
<1>3. ASSUME NEW c \in Calls, Starting(c)
      PROVE  /\ c = d /\ host[d].phase = "starting"
             /\ host'[d].id = host[d].id /\ host'[d].flow = host[d].flow
  <2>1. c = d
    BY <1>1, <1>3 DEF Starting, Begun
  <2>2. host'[d] = [host[d] EXCEPT !.phase = "running"]
    BY <1>1, <1>3, <2>1 DEF Starting
  <2>3. QED BY <1>1, <1>3, <2>1, <2>2 DEF Starting, HostRuns
<1>4. ASSUME NEW c \in Calls, End(c)
      PROVE  FALSE
  BY <1>1, <1>4 DEF End, Begun
<1>5. ASSUME NEW c \in Calls, StartFaulted(c)
      PROVE  host'[d].id \in forgot'
  <2>1. c = d /\ host'[d].id = host[d].id
    BY <1>3, <1>5 DEF StartFaulted
  <2>2. QED BY <1>5, <2>1 DEF StartFaulted, RecallBut
<1>6. ASSUME NEW c \in Calls, StartReused(c) \/ StartOrphan(c) \/ StartFiled(c)
      PROVE  /\ StartReused(d) \/ StartOrphan(d) \/ StartFiled(d)
             /\ host'[d].id = host[d].id /\ host'[d].flow = host[d].flow
             /\ host[d].phase = "starting"
  BY <1>3, <1>6 DEF StartReused, StartOrphan, StartFiled
<1>7. CASE host' = host
  BY <1>7 DEF Begun
<1>8. QED BY <1>2, <1>4, <1>5, <1>6, <1>7
          DEF Next, StampLookup, StampResolve, StampSeq, Deactivate, Clear,
              Activate, vars

\* A run of a forgotten id leaves its flow unclean.
LEMMA ForgottenNext ==
    ASSUME NEW d \in Calls, host'[d].id \in forgot', NEW g, g = host'[d].flow
    PROVE  ~ Clean(g)'
  BY DEF Clean, IdsOf

\* The runs filed under one root, and those calling them, stay of one flow.
LEMMA FlowOfTree ==
    ASSUME IInv, Ancestry, Recalled, [Next]_vars,
           NEW r \in Live, NEW f, Kept(r), ~ runs'[r].collided,
           \A k \in Live, c \in Begun :
               runs[k].root = r /\ host[c].id = k => Agree(host[c].flow, f),
           NEW k \in Live', NEW d \in Calls, d \in Begun',
           runs'[k].root = r, host'[d].id = k,
           NEW g, g = host'[d].flow
    PROVE  Agree(g, f)'
<1>1. \A c \in Begun : c \in Begun' /\ host'[c].id = host[c].id
                       /\ host'[c].flow = host[c].flow /\ c \in Calls
  BY HostKeeps DEF Begun
<1>2. CASE Kept(k)
  <2>1. k \in Live /\ runs[k].root = r /\ k \in Ids /\ k # None
    BY <1>2, ConstAssumption DEF Kept, Live, LiveIn
  <2>2. CASE d \in Begun
    <3>1. Agree(g, f)
      BY <1>1, <2>1, <2>2
    <3>2. QED BY <3>1, AgreeKeeps
  <2>3. CASE d \notin Begun
    <3>1. CASE k \in forgot'
      <4>1. PICK c \in Begun : host[c].id = k
        BY <2>1 DEF Recalled, Used
      <4>2. PICK h : h = host[c].flow
        OBVIOUS
      <4>3. Agree(h, f) /\ h = host'[c].flow
        BY <1>1, <2>1, <4>1, <4>2
      <4>4. Agree(h, f)'
        BY <4>3, AgreeKeeps
      <4>5. ~ Clean(h)' /\ ~ Clean(g)'
        BY <1>1, <3>1, <4>1, <4>3, ForgottenNext
      <4>6. QED BY <4>4, <4>5 DEF Agree
    <3>2. CASE k \notin forgot'
      <4>1. /\ StartReused(d) \/ StartOrphan(d) \/ StartFiled(d)
            /\ host[d].id = k
        BY <2>3, <3>2, NewCaller
      <4>2. StartReused(d)
        BY <4>1, <2>1, FiledKeeps DEF StartOrphan, Known
      <4>3. QED BY <4>1, <4>2, <2>1, ReusedMarks
    <3>3. QED BY <3>1, <3>2
  <2>4. QED BY <2>2, <2>3
<1>3. CASE ~ Kept(k)
  <2>1. PICK c \in Calls : StartFiled(c)
    BY <1>3, OthersKeep
  <2> DEFINE pkey == ParentKey(c)
             p == host[c].parent
  <2>2. /\ k = host[c].id /\ k \in Ids /\ k \notin Known
        /\ pkey # None => pkey \in Live
        /\ runs'[k].root = IF pkey = None THEN k ELSE runs[pkey].root
    BY <1>3, <2>1, FiledKeeps
  <2>3. pkey # None /\ pkey \in Live /\ runs[pkey].root = r
    BY <2>2 DEF Known
  <2>4. p \in Begun /\ host[c].flow = host[p].flow /\ host[p].id = pkey
    BY <2>1, <2>3 DEF ParentKey, Ancestry, StartFiled, Starting
  <2>5. PICK h : h = host[c].flow
    OBVIOUS
  <2>6. Agree(h, f)
    BY <2>3, <2>4, <2>5
  <2>7. h = host'[c].flow /\ host'[c].id = k
    BY <2>1, <2>2, <2>5, HostKeeps DEF StartFiled, Starting
  <2>8. Agree(h, f)'
    BY <2>6, AgreeKeeps
  <2>9. CASE k \in forgot'
    <3>1. ~ Clean(h)' /\ ~ Clean(g)'
      BY <2>7, <2>9, ForgottenNext
    <3>2. QED BY <2>8, <3>1 DEF Agree
  <2>10. CASE k \notin forgot'
    <3>1. k \notin Used
      BY <2>1, <2>2, <2>10, UsedKeeps, FreshUnlessForgotten
    <3>2. d \notin Begun
      BY <3>1, <1>1 DEF Used
    <3>3. host[d].phase = "starting"
      BY <2>10, <3>2, NewCaller
    <3>4. d = c
      <4>1. host' = [host EXCEPT ![c].phase = "running"] /\ host \in [Calls -> HostRuns]
        BY <2>1 DEF StartFiled, Starting, IInv, TypeOK
      <4>2. QED BY <4>1, <3>2, <3>3 DEF Begun
    <3>5. QED BY <2>7, <2>8, <3>4
  <2>11. QED BY <2>9, <2>10
<1>4. QED BY <1>2, <1>3


\* A step that leaves the stamps alone leaves a root with its flow.
LEMMA OneFlowIndex ==
    ASSUME IInv, Ancestry, Recalled, [Next]_vars,
           ~ \E c \in Calls : Stamping(c),
           NEW r \in Ids, NEW f, OfOneFlow(r, f), r \in Live' => Kept(r)
    PROVE  OfOneFlow(r, f)'
<1>1. emit' = emit /\ events' = events
  BY StampsKeep
<1>2. \A c \in Calls : emit[c].step \in {"found", "resolved"} =>
          host'[c].flow = host[c].flow
  BY HostKeeps DEF IInv, TypeOK, Begun
<1>3. \A g : Agree(g, f) => Agree(g, f)'
  BY AgreeKeeps
<1>4. \A e \in events : e.status = "stamped" /\ e.root = r => Agree(e.flow, f)'
  BY <1>3 DEF OfOneFlow
<1>5. ASSUME NEW c \in Calls, emit[c].step = "resolved", emit[c].root = r,
             NEW g, g = host'[c].flow
      PROVE  Agree(g, f)'
  BY <1>2, <1>3, <1>5 DEF OfOneFlow
<1>6. ASSUME NEW c \in Calls, emit[c].step = "found", emit[c].root = r,
             r \in Live', ~ runs'[r].collided, NEW g, g = host'[c].flow
      PROVE  Agree(g, f)'
  <2>1. r \in Live /\ ~ runs[r].collided
    BY <1>6 DEF Kept
  <2>2. QED BY <2>1, <1>2, <1>3, <1>6 DEF OfOneFlow
<1>7. ASSUME NEW k \in Live', NEW c \in Begun', r \in Live',
             ~ runs'[r].collided, runs'[k].root = r, host'[c].id = k,
             NEW g, g = host'[c].flow
      PROVE  Agree(g, f)'
  <2>1. c \in Calls
    BY DEF Begun
  <2>2. Kept(r) /\ r \in Live /\ ~ runs[r].collided
    BY <1>7 DEF Kept
  <2>3. \A j \in Live, d \in Begun :
            runs[j].root = r /\ host[d].id = j => Agree(host[d].flow, f)
    BY <2>2 DEF OfOneFlow
  <2>4. QED BY <1>7, <2>1, <2>2, <2>3, FlowOfTree
<1>8. QED BY <1>1, <1>4, <1>5, <1>6, <1>7 DEF OfOneFlow

\* A root filed for the first time is of its run's flow.
LEMMA OneFlowNew ==
    ASSUME IInv, Recalled, [Next]_vars, NEW c \in Calls, StartFiled(c),
           NEW r \in Live', r \notin forgot', ~ Kept(r),
           NEW f, f = host[c].flow
    PROVE  OfOneFlow(r, f)'
<1>1. r = host[c].id /\ r \in Ids /\ r # None /\ r \notin Known
  BY FiledKeeps, ConstAssumption
<1>2. r \notin Used
  BY <1>1, UsedKeeps, FreshUnlessForgotten
<1>3. emit' = emit /\ events' = events
  BY DEF StartFiled, Starting
<1>4. /\ \A e \in events : e.root # r
      /\ \A d \in Calls : Asking(d) => emit[d].root # r
  BY <1>1, <1>2 DEF Recalled
<1>5. host'[c].flow = f
  BY HostKeeps DEF StartFiled, Starting
<1>6. ASSUME NEW k \in Live', NEW d \in Begun', runs'[k].root = r,
             host'[d].id = k
      PROVE  d = c
  <2>1. k = r
    <3>1. SUFFICES ASSUME k # r PROVE FALSE
      OBVIOUS
    <3>2. k \in Live /\ runs[k].root = r
      BY <1>1, <1>6, <3>1, FiledKeeps DEF Kept
    <3>3. QED BY <3>2, <1>1 DEF IInv, IndexConsistent, RootsLive, Known
  <2>2. d \in Calls
    BY DEF Begun
  <2>3. d \notin Begun
    BY <1>2, <1>6, <2>1, HostKeeps DEF Used, Begun
  <2>4. host[d].phase = "starting"
    BY <1>6, <2>1, <2>2, <2>3, NewCaller
  <2>5. host' = [host EXCEPT ![c].phase = "running"] /\ host \in [Calls -> HostRuns]
    BY DEF StartFiled, Starting, IInv, TypeOK
  <2>6. QED BY <2>2, <2>4, <2>5 DEF Begun
<1>7. ASSUME NEW k \in Live', NEW d \in Begun', runs'[k].root = r,
             host'[d].id = k, NEW g, g = host'[d].flow
      PROVE  Agree(g, f)'
  BY <1>5, <1>6, <1>7 DEF Agree
<1>8. QED BY <1>3, <1>4, <1>7 DEF OfOneFlow, Asking

\* The steps of a stamp hand the flow of a root on to the event.
LEMMA OneFlowStamp ==
    ASSUME IInv, Apart, NEW c \in Calls, Stamping(c),
           NEW r \in Ids, NEW f, OfOneFlow(r, f)
    PROVE  OfOneFlow(r, f)'
<1>1. emit \in [Calls -> Stamps] /\ Quiet.step = "quiet"
  BY DEF IInv, TypeOK, Quiet
<1>2. ASSUME host' = host, forgot' = forgot
      PROVE  (\A g : Agree(g, f)' <=> Agree(g, f)) /\ Begun' = Begun
  BY <1>2 DEF Agree, Clean, IdsOf, Begun
<1>3. ASSUME Misses(c), runs' = runs, host' = host, forgot' = forgot
      PROVE  OfOneFlow(r, f)'
  <2>1. \A d \in Calls : emit'[d].step # "quiet" => emit'[d] = emit[d]
    BY <1>1, <1>3 DEF Misses
  <2>2. \A e \in events' : e.status = "stamped" => e \in events
    BY <1>3 DEF Misses
  <2>3. Live' = Live
    BY <1>3 DEF Live, LiveIn
  <2>4. QED BY <1>2, <1>3, <2>1, <2>2, <2>3 DEF OfOneFlow
<1>4. CASE StampLookup(c)
  <2>1. /\ c \in Begun /\ runs' = runs /\ host' = host /\ forgot' = forgot
        /\ Live' = Live
    BY <1>4, LookupEffect DEF Live, LiveIn
  <2>2. CASE Misses(c)
    BY <1>3, <2>1, <2>2
  <2>3. CASE ~ Misses(c)
    <3>1. PICK root \in Ids :
             /\ host[c].id \in Live /\ root = runs[host[c].id].root
             /\ events' = events
             /\ emit' = [emit EXCEPT ![c] =
                    [step |-> "found", root |-> root,
                     late |-> root \in touched, after |-> Seqs(root)]]
      BY <1>4, <2>3, LookupEffect
    <3>2. /\ emit'[c].root = root /\ emit'[c].step = "found"
          /\ \A d \in Calls \ {c} : emit'[d] = emit[d]
      BY <3>1, <1>1
    <3>3. root = r /\ r \in Live /\ ~ runs[r].collided => Agree(host[c].flow, f)
      BY <2>1, <3>1 DEF OfOneFlow
    <3>4. QED BY <1>2, <2>1, <3>1, <3>2, <3>3 DEF OfOneFlow
  <2>4. QED BY <2>2, <2>3
<1>5. CASE StampResolve(c)
  <2>1. /\ c \in Begun /\ runs' = runs /\ host' = host /\ forgot' = forgot
        /\ Live' = Live /\ emit[c].step = "found"
    BY <1>5, ResolveEffect DEF Live, LiveIn
  <2>2. CASE Misses(c)
    BY <1>3, <2>1, <2>2
  <2>3. CASE ~ Misses(c)
    <3>1. /\ emit[c].root \in Live /\ ~ runs[emit[c].root].collided
          /\ events' = events
          /\ emit' = [emit EXCEPT ![c].step = "resolved"]
      BY <1>5, <2>3, ResolveEffect
    <3>2. /\ emit'[c].root = emit[c].root /\ emit'[c].step = "resolved"
          /\ \A d \in Calls \ {c} : emit'[d] = emit[d]
      BY <3>1, <1>1 DEF Stamps
    <3>3. emit[c].root = r => Agree(host[c].flow, f)
      BY <2>1, <3>1 DEF OfOneFlow
    <3>4. QED BY <1>2, <2>1, <3>1, <3>2, <3>3 DEF OfOneFlow
  <2>4. QED BY <2>2, <2>3
<1>6. CASE StampSeq(c)
  <2>1. /\ c \in Begun /\ host' = host /\ forgot' = forgot /\ Live' = Live
        /\ emit[c].step = "resolved" /\ emit' = [emit EXCEPT ![c] = Quiet]
        /\ \A k \in Live : /\ runs'[k].root = runs[k].root
                           /\ runs'[k].collided = runs[k].collided
    BY <1>6, SeqEffect DEF Kept
  <2>2. PICK e \in Events : /\ events' = events \cup {e} /\ e.root = emit[c].root
                            /\ e.flow = host[c].flow
    BY <1>6, SeqEffect
  <2>3. \A d \in Calls : emit'[d].step # "quiet" => emit'[d] = emit[d]
    BY <1>1, <2>1
  <2>4. e.root = r => Agree(e.flow, f)
    BY <2>1, <2>2 DEF OfOneFlow
  <2>5. QED BY <1>2, <2>1, <2>2, <2>3, <2>4 DEF OfOneFlow
<1>7. QED BY <1>4, <1>5, <1>6 DEF Stamping

LEMMA NextApart ==
    IInv /\ Ancestry /\ Recalled /\ Apart /\ [Next]_vars => Apart'
<1> SUFFICES ASSUME IInv, Ancestry, Recalled, Apart, [Next]_vars,
                    NEW r \in Ids, r \notin forgot'
             PROVE  \E f \in Calls \cup {None} : OfOneFlow(r, f)'
  BY DEF Apart
<1>1. PICK f \in Calls \cup {None} : OfOneFlow(r, f)
  BY UsedKeeps DEF Apart
<1>2. ASSUME NEW c \in Calls, Stamping(c)
      PROVE  OfOneFlow(r, f)'
  BY <1>1, <1>2, OneFlowStamp
<1>3. CASE ~ \E c \in Calls : Stamping(c)
  <2>1. CASE r \in Live' => Kept(r)
    <3>1. OfOneFlow(r, f)'
      BY <1>1, <1>3, <2>1, OneFlowIndex
    <3>2. QED BY <3>1
  <2>2. CASE r \in Live' /\ ~ Kept(r)
    <3>1. PICK c \in Calls : StartFiled(c)
      BY <2>2, OthersKeep
    <3>2. PICK g \in Calls : g = host[c].flow
      BY <3>1 DEF StartFiled, Starting, IInv, TypeOK
    <3>3. OfOneFlow(r, g)'
      BY <2>2, <3>1, <3>2, OneFlowNew
    <3>4. QED BY <3>3
  <2>3. QED BY <2>1, <2>2
<1>4. QED BY <1>2, <1>3

-----------------------------------------------------------------------------
(* The theorems.                                                           *)

LEMMA InitHistory == Init => History
<1> SUFFICES ASSUME Init PROVE History
  OBVIOUS
<1>1. /\ \A c \in Calls : host[c].phase = "unborn" /\ emit[c].step = "quiet"
      /\ events = {} /\ touched = {} /\ forgot = {}
      /\ Live = {} /\ Begun = {} /\ Used = {}
  <2>1. Unborn.phase = "unborn" /\ Quiet.step = "quiet"
    BY DEF Unborn, Quiet
  <2>2. Begun = {}
    BY <2>1 DEF Init, Begun
  <2>3. QED BY <2>1, <2>2, SoundEmpty DEF Init, Live, Used
<1>2. \A r \in Ids : OfOneFlow(r, None)
  BY <1>1 DEF OfOneFlow
<1>3. Apart
  BY <1>2 DEF Apart
<1>4. QED BY <1>1, <1>3 DEF History, Ancestry, Recalled, Counting, SeqOrder,
          Marked, Asking

LEMMA AlwaysHistory == Spec => [](IInv /\ History)
<1>1. Init => IInv /\ History
  BY InitIInv, InitHistory
<1>2. IInv /\ History /\ [Next]_vars => (IInv /\ History)'
  BY NextIInv, NextAncestry, NextRecalled, NextCounting, NextMarked, NextApart
     DEF History
<1>3. QED BY <1>1, <1>2, PTL DEF Spec

\* runSeq orders a flow as the index saw it, however ends, evictions, reuses
\* and other stamps interleave with a stamp.
THEOREM SequenceOrdered == Spec => []SeqOrder
<1>1. History => SeqOrder
  BY DEF History
<1>2. QED BY <1>1, AlwaysHistory, PTL

\* No root is stamped on the events of two flows as long as the index recalls
\* their ids, and none on an event whose stamp began after a reuse of it.
THEOREM FlowsNeverMix == Spec => []FlowsApart
<1>1. IInv /\ History => FlowsApart
  <2> SUFFICES ASSUME IInv, History PROVE FlowsApart
    OBVIOUS
  <2>1. \A e \in events : e.status = "stamped" =>
            /\ e.root \in Ids
            /\ e.late => e.root \in forgot
    BY DEF History, Marked, IInv, TypeOK, Events
  <2>2. ASSUME NEW d \in events, NEW e \in events,
               d.status = "stamped", e.status = "stamped", d.root = e.root,
               d.root \notin forgot, Clean(d.flow)
        PROVE  d.flow = e.flow
    <3>1. PICK f \in Calls \cup {None} : OfOneFlow(d.root, f)
      BY <2>1, <2>2 DEF History, Apart
    <3>2. Agree(d.flow, f) /\ Agree(e.flow, f)
      BY <2>2, <3>1 DEF OfOneFlow
    <3>3. QED BY <3>2, <2>2 DEF Agree
  <2>3. QED BY <2>1, <2>2 DEF FlowsApart
<1>2. QED BY <1>1, AlwaysHistory, PTL
===============================================================================
