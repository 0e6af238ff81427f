------------------------- MODULE Authorization_proofs -------------------------
(***************************************************************************)
(* Proofs about what a tool call is allowed on: where its arguments come   *)
(* from (ValueOrigin) and what is decided of it (Decision).                *)
(*                                                                         *)
(* Part 1 is about ValueOrigin: its three safety invariants, for any       *)
(* number of threads, any destinations and n-grams, any inputs, reads,     *)
(* arguments and designations, and any bound of the ledger and of the      *)
(* walk.  The inductive invariant has two halves.  Sound is about one      *)
(* ledger: it has a root for everything it holds of a principal or of a    *)
(* trusted source, and it is complete unless it says it is full.  It is    *)
(* kept by each unit that is written, so the operators that write are      *)
(* treated as lemmas of their own.  Separate is about who holds a ledger:  *)
(* an explicit ledger is shared within one request only, and one that is   *)
(* implicit is never written on behalf of a principal after it was bound.  *)
(*                                                                         *)
(* Part 2 is about Decision: its three invariants and its action property, *)
(* for any rules, calls, documents and requests and any bounds.  The three *)
(* parts of the state (the scan, the call being written, the policy in     *)
(* force) have an invariant each, and what classification says of a call   *)
(* is a matter of lemmas about its operators, which look for the best or   *)
(* the worst of what was found.                                            *)
(***************************************************************************)
EXTENDS ValueOrigin, Decision, FiniteSetTheorems, NaturalsInduction, SequenceTheorems,
        WellFoundedInduction, TLAPS

-----------------------------------------------------------------------------
(* The inductive invariant.                                                *)

Roots == {"declared", "undeclared", "keyless"}
LedgerType == [explicit: BOOLEAN, pid: Nat, saturated: BOOLEAN,
               entries: [Auths -> Entries \cup {None}], ngrams: [Grams -> BOOLEAN \cup {None}],
               seen: SUBSET Auths, donors: SUBSET Nat, roots: SUBSET Roots]

\* What an entry rests on, given who donated and which roots there are.
Backed(e, donors, roots) ==
    /\ e.origin = "principal" =>
          /\ donors # {} /\ roots # {}
          /\ e.declared => "declared" \in roots
    /\ e.origin = "trusted" =>
          /\ roots # {}
          /\ e.declared => roots \cap {"declared", "keyless"} # {}
BackedGram(declared, roots) == roots # {} /\ (declared => "declared" \in roots)

Rooted(lg, donors, roots) ==
    /\ \A a \in Auths : lg.entries[a] # None => Backed(lg.entries[a], donors, roots)
    /\ \A g \in Grams : lg.ngrams[g] # None => BackedGram(lg.ngrams[g], roots)
Complete(lg) == lg.saturated \/ \A a \in lg.seen : lg.entries[a] # None
Sound(lg) == lg \in LedgerType /\ Rooted(lg, lg.donors, lg.roots) /\ Complete(lg)

\* There are as many ledgers as threads.
Ledgers == 1..Cardinality(Threads)

Hosts == {"idle", "flow", "bare", "helper", "bare_helper"}
Types ==
    /\ pid \in Nat /\ started \in Nat
    /\ heap \in [Ledgers -> LedgerType]
    /\ bound \in [Threads -> {0} \cup Ledgers]
    /\ req \in [Threads -> Nat]
    /\ host \in [Threads -> Hosts]
    /\ scanned \in [Threads -> BOOLEAN]

\* A thread at rest has scanned nothing.
Resting == \A t \in Threads :
    /\ req[t] = 0 <=> host[t] = "idle"
    /\ req[t] = 0 => ~scanned[t]

\* The holders of an explicit ledger are a flow and its helpers.
OneFlow(t) ==
    /\ FlowActive(t)
    /\ heap[bound[t]].donors \subseteq {req[t]}
    /\ \A u \in Threads : bound[u] = bound[t] => req[u] = req[t]
Apart(t) ==
    bound[t] # 0 =>
        /\ heap[bound[t]].explicit => OneFlow(t)
        /\ scanned[t] => heap[bound[t]].donors \subseteq {req[t]}
Separate == \A t \in Threads : Apart(t)

AllSound == \A l \in Ledgers : Sound(heap[l])

Inv == Types /\ Resting /\ Separate /\ AllSound

-----------------------------------------------------------------------------
(* The entries of a ledger.                                                *)

LEMMA EntryTypes ==
    /\ None \notin Entries /\ None \notin BOOLEAN
    /\ \A d \in BOOLEAN :
          /\ Principal(d) \in Entries /\ Principal(d) # None
          /\ Untrusted(d) \in Entries /\ Untrusted(d) # None
          /\ \A l \in Labels : Trusted(d, l) \in Entries /\ Trusted(d, l) # None
<1>1. None \notin Entries /\ None \notin BOOLEAN
  BY ConstAssumption, DataAssumption
<1>2. ASSUME NEW d \in BOOLEAN
      PROVE  Principal(d) \in Entries /\ Untrusted(d) \in Entries
  BY DEF Entries, Principal, Untrusted
<1>3. ASSUME NEW d \in BOOLEAN, NEW l \in Labels
      PROVE  Trusted(d, l) \in Entries
  BY DEF Entries, Trusted
<1>4. QED BY <1>1, <1>2, <1>3

\* The write rule keeps what every entry rests on, and never loses one.
LEMMA MergeKeeps ==
    ASSUME NEW old \in Entries \cup {None}, NEW given, given \subseteq Entries,
           NEW D, NEW R,
           old # None => Backed(old, D, R),
           \A new \in given : Backed(new, D, R)
    PROVE  /\ Merge(old, given) \in Entries \cup {None}
           /\ Merge(old, given) # None => Backed(Merge(old, given), D, R)
           /\ old # None \/ given # {} => Merge(old, given) # None
<1> DEFINE raises == {new \in given : new.origin = "principal"}
           declared == \E new \in raises : new.declared
           kept == old # None /\ old.origin = "principal"
<1>1. declared \in BOOLEAN
  OBVIOUS
<1>2. ASSUME old # None PROVE old \in Entries /\ old.declared \in BOOLEAN
  BY <1>2 DEF Entries
<1>3. \A d \in BOOLEAN : Principal(d).origin = "principal" /\ Principal(d).declared = d
  BY DEF Principal
<1>4. ASSUME declared PROVE "declared" \in R
  <2>1. PICK new \in raises : new.declared
    BY <1>4
  <2>2. QED BY <2>1 DEF Backed
<1>5. ASSUME raises # {} PROVE D # {} /\ R # {}
  <2>1. PICK new \in raises : TRUE
    BY <1>5
  <2>2. QED BY <2>1 DEF Backed
<1>6. CASE kept
  <2>1. Merge(old, given) = Principal(old.declared \/ declared)
    BY <1>6 DEF Merge
  <2>2. (old.declared \/ declared) \in BOOLEAN
    BY <1>6, <1>2
  <2>3. D # {} /\ R # {} /\ (old.declared => "declared" \in R)
    BY <1>6 DEF Backed
  <2>4. Backed(Principal(old.declared \/ declared), D, R)
    BY <2>2, <2>3, <1>3, <1>4 DEF Backed
  <2>5. QED BY <2>1, <2>2, <2>4, EntryTypes
<1>7. CASE ~kept /\ raises # {}
  <2>1. Merge(old, given) = Principal(declared)
    BY <1>7 DEF Merge
  <2>2. Backed(Principal(declared), D, R)
    BY <1>7, <1>1, <1>3, <1>4, <1>5 DEF Backed
  <2>3. QED BY <2>1, <2>2, <1>1, EntryTypes
<1>8. CASE ~kept /\ raises = {} /\ (old # None \/ given = {})
  <2>1. Merge(old, given) = old
    BY <1>8 DEF Merge
  <2>2. QED BY <2>1, <1>8
<1>9. CASE ~kept /\ raises = {} /\ old = None /\ given # {}
  <2>1. Merge(old, given) = CHOOSE new \in given : TRUE
    BY <1>9 DEF Merge
  <2>2. Merge(old, given) \in given
    BY <2>1, <1>9
  <2>3. QED BY <2>2, EntryTypes
<1>10. QED BY <1>6, <1>7, <1>8, <1>9

\* More donors and roots back what fewer did.
LEMMA BackedMonotone ==
    ASSUME NEW lg, NEW D, NEW R, NEW D2, NEW R2, D \subseteq D2, R \subseteq R2,
           Rooted(lg, D, R)
    PROVE  Rooted(lg, D2, R2)
BY DEF Rooted, Backed, BackedGram

-----------------------------------------------------------------------------
(* What one unit does to a ledger.                                         *)

\* The identity and the histories of authority of a ledger.
SameFlow(r, lg) ==
    /\ r.explicit = lg.explicit /\ r.pid = lg.pid
    /\ r.donors = lg.donors /\ r.roots = lg.roots

LEMMA NotedKeeps ==
    ASSUME NEW lg \in LedgerType, NEW writes, writes \subseteq Auths \X Entries
    PROVE  /\ Noted(lg, writes) \in LedgerType
           /\ SameFlow(Noted(lg, writes), lg)
           /\ Noted(lg, writes).entries = lg.entries
           /\ Noted(lg, writes).ngrams = lg.ngrams
           /\ Noted(lg, writes).saturated = lg.saturated
           /\ Noted(lg, writes).seen = lg.seen \cup Named(writes)
<1>1. Named(writes) \subseteq Auths
  BY DEF Named
<1>2. QED BY <1>1 DEF Noted, LedgerType, SameFlow

LEMMA WrittenKeeps ==
    ASSUME NEW lg \in LedgerType, NEW writes, writes \subseteq Auths \X Entries,
           NEW grams, grams \subseteq Grams, NEW declared \in BOOLEAN,
           NEW D, NEW R, Rooted(lg, D, R),
           \A w \in writes : Backed(w[2], D, R),
           grams # {} => BackedGram(declared, R)
    PROVE  /\ UnitWritten(lg, writes, grams, declared) \in LedgerType
           /\ SameFlow(UnitWritten(lg, writes, grams, declared), lg)
           /\ UnitWritten(lg, writes, grams, declared).saturated = lg.saturated
           /\ UnitWritten(lg, writes, grams, declared).seen = lg.seen
           /\ Rooted(UnitWritten(lg, writes, grams, declared), D, R)
           /\ \A a \in Auths : lg.entries[a] # None \/ a \in Named(writes) =>
                 UnitWritten(lg, writes, grams, declared).entries[a] # None
<1> DEFINE r == UnitWritten(lg, writes, grams, declared)
           Entry(a) == Merge(lg.entries[a], Given(writes, a))
           Gram(g) == IF g \in grams THEN MergeNgram(lg.ngrams[g], declared) ELSE lg.ngrams[g]
<1>1. /\ r.entries = [a \in Auths |-> Entry(a)]
      /\ r.ngrams = [g \in Grams |-> Gram(g)]
      /\ r.saturated = lg.saturated /\ r.seen = lg.seen /\ SameFlow(r, lg)
  BY DEF UnitWritten, LedgerType, SameFlow
<1>2. ASSUME NEW a \in Auths
      PROVE  /\ Entry(a) \in Entries \cup {None}
             /\ Entry(a) # None => Backed(Entry(a), D, R)
             /\ lg.entries[a] # None \/ a \in Named(writes) => Entry(a) # None
  <2>1. Given(writes, a) \subseteq Entries /\ \A new \in Given(writes, a) : Backed(new, D, R)
    BY DEF Given
  <2>2. lg.entries[a] \in Entries \cup {None}
    BY DEF LedgerType
  <2>3. lg.entries[a] # None => Backed(lg.entries[a], D, R)
    BY DEF Rooted
  <2>4. a \in Named(writes) => Given(writes, a) # {}
    BY DEF Named, Given
  <2>5. QED BY <2>1, <2>2, <2>3, <2>4, MergeKeeps
<1>3. ASSUME NEW g \in Grams
      PROVE  /\ Gram(g) \in BOOLEAN \cup {None}
             /\ Gram(g) # None => BackedGram(Gram(g), R)
  <2>1. lg.ngrams[g] \in BOOLEAN \cup {None}
    BY DEF LedgerType
  <2>2. lg.ngrams[g] # None => BackedGram(lg.ngrams[g], R)
    BY DEF Rooted
  <2>3. CASE g \notin grams
    BY <2>1, <2>2, <2>3
  <2>4. CASE g \in grams /\ lg.ngrams[g] = None
    BY <2>4 DEF MergeNgram
  <2>5. CASE g \in grams /\ lg.ngrams[g] # None
    <3>1. Gram(g) = (lg.ngrams[g] \/ declared)
      BY <2>5 DEF MergeNgram
    <3>2. QED BY <3>1, <2>1, <2>2, <2>5 DEF BackedGram
  <2>6. QED BY <2>3, <2>4, <2>5
<1>4. r.entries \in [Auths -> Entries \cup {None}] /\ r.ngrams \in [Grams -> BOOLEAN \cup {None}]
  BY <1>1, <1>2, <1>3
<1>5. r \in LedgerType
  <2>1. r = [lg EXCEPT !.entries = r.entries, !.ngrams = r.ngrams]
    BY <1>1 DEF UnitWritten, LedgerType
  <2> HIDE DEF r
  <2>2. QED BY <2>1, <1>4 DEF LedgerType
<1>6. Rooted(r, D, R)
  <2> HIDE DEF r, Entry, Gram
  <2>1. QED BY <1>1, <1>2, <1>3 DEF Rooted
<1>7. \A a \in Auths : lg.entries[a] # None \/ a \in Named(writes) => r.entries[a] # None
  <2> HIDE DEF r, Entry, Gram
  <2>1. QED BY <1>1, <1>2
<1>8. QED BY <1>1, <1>5, <1>6, <1>7

\* A unit that does not fit leaves its destinations out and the ledger full.
LEMMA UnitKeeps ==
    ASSUME NEW lg \in LedgerType, NEW writes, writes \subseteq Auths \X Entries,
           NEW grams, grams \subseteq Grams, NEW declared \in BOOLEAN,
           NEW D, NEW R, Rooted(lg, D, R), Complete(lg),
           \A w \in writes : Backed(w[2], D, R),
           grams # {} => BackedGram(declared, R)
    PROVE  /\ ApplyUnit(lg, writes, grams, declared) \in LedgerType
           /\ SameFlow(ApplyUnit(lg, writes, grams, declared), lg)
           /\ Rooted(ApplyUnit(lg, writes, grams, declared), D, R)
           /\ Complete(ApplyUnit(lg, writes, grams, declared))
<1> DEFINE noted == Noted(lg, writes)
           r == ApplyUnit(lg, writes, grams, declared)
<1>1. /\ noted \in LedgerType /\ SameFlow(noted, lg)
      /\ noted.entries = lg.entries /\ noted.ngrams = lg.ngrams
      /\ noted.saturated = lg.saturated /\ noted.seen = lg.seen \cup Named(writes)
  BY NotedKeeps
<1>2. Rooted(noted, D, R)
  <2> HIDE DEF noted
  <2>1. QED BY <1>1 DEF Rooted
<1>3. CASE UnitFits(lg, writes, grams)
  <2> DEFINE after == UnitWritten(noted, writes, grams, declared)
  <2>1. /\ after \in LedgerType /\ SameFlow(after, noted)
        /\ after.saturated = noted.saturated /\ after.seen = noted.seen /\ Rooted(after, D, R)
        /\ \A a \in Auths : noted.entries[a] # None \/ a \in Named(writes) => after.entries[a] # None
    <3>1. noted \in LedgerType
      BY <1>1
    <3> HIDE DEF noted, r
    <3>2. QED BY <3>1, <1>2, WrittenKeeps, ZenonT(60)
  <2>2. r = after
    BY <1>3 DEF ApplyUnit, noted
  <2> HIDE DEF noted, after, r
  <2>3. Complete(after)
    <3>1. after.seen \subseteq Auths
      BY <2>1 DEF LedgerType
    <3>2. QED BY <3>1, <2>1, <1>1 DEF Complete
  <2>4. SameFlow(after, lg)
    BY <1>1, <2>1 DEF SameFlow
  <2>5. QED BY <2>1, <2>2, <2>3, <2>4 DEF r
<1>4. CASE ~UnitFits(lg, writes, grams)
  <2>1. r = [noted EXCEPT !.saturated = TRUE]
    BY <1>4 DEF ApplyUnit
  <2> HIDE DEF noted, r
  <2>2. /\ r \in LedgerType /\ SameFlow(r, noted) /\ r.saturated
        /\ r.entries = noted.entries /\ r.ngrams = noted.ngrams
    BY <1>1, <2>1 DEF LedgerType, SameFlow
  <2>3. Rooted(r, D, R) /\ Complete(r)
    BY <1>2, <2>2 DEF Rooted, Complete
  <2>4. SameFlow(r, lg)
    BY <1>1, <2>2 DEF SameFlow
  <2>5. QED BY <2>2, <2>3, <2>4 DEF r
<1>5. QED BY <1>3, <1>4

-----------------------------------------------------------------------------
(* What an input and a read do to a ledger.                                *)

LEMMA InputKeeps ==
    ASSUME NEW lg, Sound(lg), NEW input \in Inputs, NEW clean \in BOOLEAN, NEW r \in Nat
    PROVE  /\ Sound(RecordedInput(lg, input, clean, r))
           /\ RecordedInput(lg, input, clean, r).explicit = lg.explicit
           /\ RecordedInput(lg, input, clean, r).pid = lg.pid
           /\ RecordedInput(lg, input, clean, r).donors \subseteq lg.donors \cup {r}
<1> DEFINE writes == InputWrites(input, clean)
           grams == InputGrams(input, clean)
           gives == \E span \in input.spans : Donates(span, clean)
           donors == lg.donors \cup (IF gives THEN {r} ELSE {})
           roots == lg.roots \cup (IF ~gives THEN {}
                                  ELSE IF input.declared THEN {"declared"} ELSE {"undeclared"})
           dests == ApplyUnit(lg, writes, {}, input.declared)
           both == ApplyUnit(dests, {}, grams, input.declared)
           after == RecordedInput(lg, input, clean, r)
<1>1. input.declared \in BOOLEAN /\ input.spans \subseteq SpanType
  BY DataAssumption
<1>2. lg \in LedgerType /\ Complete(lg) /\ Rooted(lg, lg.donors, lg.roots)
  BY DEF Sound
<1>3. donors \in SUBSET Nat /\ roots \in SUBSET Roots
  BY <1>2 DEF LedgerType, Roots
<1>4. Rooted(lg, donors, roots)
  BY <1>2, BackedMonotone
<1>5. gives => donors # {} /\ roots # {} /\ (input.declared => "declared" \in roots)
  OBVIOUS
<1>6. ASSUME NEW w \in writes
      PROVE  w \in Auths \X Entries /\ Backed(w[2], donors, roots)
  <2>1. PICK span \in input.spans : w \in SpanWrites(span, input.declared, clean)
    BY DEF InputWrites
  <2>2. PICK a \in span.dests : w = <<a, IF Donates(span, clean) THEN Principal(input.declared)
                                         ELSE Untrusted(input.declared)>>
    BY <2>1 DEF SpanWrites
  <2>3. a \in Auths
    BY <1>1, <2>2 DEF SpanType
  <2>4. CASE Donates(span, clean)
    <3>1. w = <<a, Principal(input.declared)>>
      BY <2>2, <2>4
    <3>2. Backed(Principal(input.declared), donors, roots)
      BY <1>5, <2>4 DEF Backed, Principal
    <3>3. QED BY <3>1, <3>2, <2>3, <1>1, EntryTypes
  <2>5. CASE ~Donates(span, clean)
    <3>1. w = <<a, Untrusted(input.declared)>>
      BY <2>2, <2>5
    <3>2. Backed(Untrusted(input.declared), donors, roots)
      BY DEF Backed, Untrusted
    <3>3. QED BY <3>1, <3>2, <2>3, <1>1, EntryTypes
  <2>6. QED BY <2>4, <2>5
<1>7. grams \subseteq Grams /\ (grams # {} => BackedGram(input.declared, roots))
  <2>1. grams \subseteq Grams
    BY <1>1 DEF InputGrams, SpanType
  <2>2. grams # {} => gives
    BY DEF InputGrams
  <2>3. QED BY <2>1, <2>2, <1>5 DEF BackedGram
<1>8. /\ dests \in LedgerType /\ SameFlow(dests, lg)
      /\ Rooted(dests, donors, roots) /\ Complete(dests)
  <2>1. writes \subseteq Auths \X Entries /\ \A w \in writes : Backed(w[2], donors, roots)
    BY <1>6
  <2> HIDE DEF writes, donors, roots
  <2>2. QED BY <2>1, <1>1, <1>2, <1>4, UnitKeeps
<1>9. /\ both \in LedgerType /\ SameFlow(both, dests)
      /\ Rooted(both, donors, roots) /\ Complete(both)
  <2> HIDE DEF dests, grams, donors, roots
  <2>1. {} \subseteq Auths \X Entries /\ \A w \in {} : Backed(w[2], donors, roots)
    OBVIOUS
  <2>2. QED BY <2>1, <1>1, <1>7, <1>8, UnitKeeps
<1>10. CASE input.split = "wrong"
  BY <1>10 DEF RecordedInput
<1>11. CASE input.split # "wrong"
  <2>1. SameFlow(both, lg)
    BY <1>8, <1>9 DEF SameFlow
  <2>2. after = [both EXCEPT !.donors = donors, !.roots = roots]
    <3>1. both.donors = lg.donors /\ both.roots = lg.roots
      BY <2>1 DEF SameFlow
    <3>2. after = [both EXCEPT !.donors = @ \cup (IF gives THEN {r} ELSE {}),
                              !.roots = @ \cup (IF ~gives THEN {}
                                                ELSE IF input.declared THEN {"declared"}
                                                ELSE {"undeclared"})]
      BY <1>11 DEF RecordedInput
    <3> HIDE DEF both, after
    <3>3. QED BY <3>1, <3>2
  <2>3. donors \subseteq lg.donors \cup {r}
    OBVIOUS
  <2> HIDE DEF both, donors, roots, after
  <2>4. /\ after \in LedgerType /\ after.donors = donors /\ after.roots = roots
        /\ after.entries = both.entries /\ after.ngrams = both.ngrams
        /\ after.seen = both.seen /\ after.saturated = both.saturated
        /\ after.explicit = both.explicit /\ after.pid = both.pid
    BY <1>3, <1>9, <2>2 DEF LedgerType
  <2>5. Rooted(after, donors, roots) /\ Complete(after)
    BY <1>9, <2>4 DEF Rooted, Complete
  <2>6. QED BY <2>1, <2>3, <2>4, <2>5 DEF Sound, SameFlow, after
<1>12. QED BY <1>10, <1>11

\* A nonempty set of naturals has a least element.
LEMMA MinIn ==
    ASSUME NEW S, S \subseteq Nat, S # {}
    PROVE  Min(S) \in S /\ \A i \in S : Min(S) <= i
<1>1. PICK m \in S : \A i \in S : ~(<<i, m>> \in OpToRel(<, Nat))
  BY WFMin, NatLessThanWellFounded
<1>2. ASSUME NEW i \in S PROVE m <= i
  <2>1. m \in Nat /\ i \in Nat
    OBVIOUS
  <2>2. i < m => <<i, m>> \in OpToRel(<, Nat)
    BY <2>1 DEF OpToRel
  <2>3. ~(i < m)
    BY <1>1, <2>2
  <2>4. QED BY <2>1, <2>3
<1>3. QED BY <1>2 DEF Min

\* A basis of a key is backed by a root of its ledger.
LEMMA BasesAreRooted ==
    ASSUME NEW lg, Sound(lg), NEW key \in KeyType
    PROVE  /\ KeyBases(lg, key) # {} => lg.roots # {}
           /\ TRUE \in KeyBases(lg, key) => lg.roots \cap {"declared", "keyless"} # {}
<1> DEFINE gram == lg.ngrams[key.gram]
           entry == lg.entries[key.auth]
           named == key.gram # None /\ gram # None
           known == key.auth # None /\ entry # None /\ entry.origin \in {"principal", "trusted"}
<1>1. KeyBases(lg, key) = (IF named THEN {gram} ELSE {}) \cup (IF known THEN {entry.declared} ELSE {})
  BY DEF KeyBases
<1>2. ASSUME named PROVE lg.roots # {} /\ (gram => "declared" \in lg.roots)
  <2>1. key.gram \in Grams
    BY <1>2 DEF KeyType
  <2>2. QED BY <2>1, <1>2 DEF Sound, Rooted, BackedGram
<1>3. ASSUME known
      PROVE  lg.roots # {} /\ (entry.declared => lg.roots \cap {"declared", "keyless"} # {})
  <2>1. key.auth \in Auths
    BY <1>3 DEF KeyType
  <2>2. Backed(entry, lg.donors, lg.roots)
    BY <2>1, <1>3 DEF Sound, Rooted
  <2>3. QED BY <2>2, <1>3 DEF Backed
<1> HIDE DEF gram, entry, named, known
<1>4. QED BY <1>1, <1>2, <1>3

\* A read is trusted on the keys of one designation, which are rooted, or on
\* none, and then it is a root itself.
LEMMA ReadIsBacked ==
    ASSUME NEW lg, Sound(lg), NEW read \in Reads, NEW blocked \in BOOLEAN,
           NEW e, e = ReadTrust(lg, read, blocked),
           NEW R, R = lg.roots \cup (IF e.label \in Keyless THEN {"keyless"} ELSE {})
    PROVE  e \in Entries /\ Backed(e, lg.donors, R)
<1> DEFINE fits == {i \in DOMAIN Designations :
                      /\ SourceMatches(Designations[i], read)
                      /\ KeysAuthorized(lg, Keys(Designations[i], read))}
           d == Designations[Min(fits)]
           keys == Keys(d, read)
<1>1. CASE blocked \/ fits = {}
  <2>1. e = Untrusted(TRUE)
    BY <1>1 DEF ReadTrust
  <2>2. Backed(Untrusted(TRUE), lg.donors, R)
    BY DEF Backed, Untrusted
  <2>3. QED BY <2>1, <2>2, EntryTypes
<1>2. CASE ~blocked /\ fits # {}
  <2>1. Min(fits) \in fits
    BY <1>2, MinIn, DataAssumption
  <2>2. /\ d.label \in Labels /\ SourceMatches(d, read) /\ KeysAuthorized(lg, keys)
        /\ Min(fits) \in DOMAIN Designations
    BY <2>1 DEF Labels
  <2>3. e = Trusted(ReadDeclared(lg, keys), d.label)
    BY <1>2 DEF ReadTrust
  <2>4. ReadDeclared(lg, keys) \in BOOLEAN
    BY DEF ReadDeclared
  <2>5. /\ e.origin = "trusted" /\ e.label = d.label /\ e.declared = ReadDeclared(lg, keys)
        /\ e \in Entries
    BY <2>2, <2>3, <2>4, EntryTypes DEF Trusted
  <2>6. CASE d.keys = {}
    <3>1. d.label \in Keyless
      BY <2>2, <2>6 DEF Keyless
    <3>2. "keyless" \in R
      BY <3>1, <2>5
    <3>3. QED BY <2>5, <3>2 DEF Backed
  <2>7. CASE d.keys # {}
    <3>1. PICK k \in d.keys : read.keys[k] \in KeyType /\ read.keys[k] \in keys
      BY <2>2, <2>7, DataAssumption DEF Keys
    <3>2. KeyBases(lg, read.keys[k]) # {}
      BY <2>2, <3>1 DEF KeysAuthorized
    <3>3. ReadDeclared(lg, keys) => TRUE \in KeyBases(lg, read.keys[k])
      BY <3>1 DEF ReadDeclared
    <3>4. lg.roots # {} /\ (ReadDeclared(lg, keys) => lg.roots \cap {"declared", "keyless"} # {})
      BY <3>1, <3>2, <3>3, BasesAreRooted
    <3>5. lg.roots \subseteq R
      OBVIOUS
    <3>6. QED BY <2>5, <3>4, <3>5 DEF Backed
  <2>8. QED BY <2>6, <2>7
<1>3. QED BY <1>1, <1>2

LEMMA ReadKeeps ==
    ASSUME NEW lg, Sound(lg), NEW read \in Reads, NEW blocked \in BOOLEAN
    PROVE  /\ Sound(RecordedRead(lg, read, blocked))
           /\ RecordedRead(lg, read, blocked).explicit = lg.explicit
           /\ RecordedRead(lg, read, blocked).pid = lg.pid
           /\ RecordedRead(lg, read, blocked).donors = lg.donors
<1> DEFINE entry == ReadTrust(lg, read, blocked)
           roots == lg.roots \cup (IF entry.label \in Keyless THEN {"keyless"} ELSE {})
           writes == {<<a, entry>> : a \in read.result}
           unit == ApplyUnit(lg, writes, {}, FALSE)
           after == RecordedRead(lg, read, blocked)
<1>1. entry \in Entries /\ Backed(entry, lg.donors, roots)
  BY ReadIsBacked
<1>2. lg \in LedgerType /\ Complete(lg) /\ Rooted(lg, lg.donors, lg.roots)
  BY DEF Sound
<1>3. Rooted(lg, lg.donors, roots)
  BY <1>2, BackedMonotone
<1>4. roots \in SUBSET Roots
  BY <1>2 DEF LedgerType, Roots
<1>5. after = [unit EXCEPT !.roots = @ \cup (IF entry.label \in Keyless THEN {"keyless"} ELSE {})]
  BY DEF RecordedRead
<1>6. writes \subseteq Auths \X Entries /\ \A w \in writes : Backed(w[2], lg.donors, roots)
  <2>1. read.result \subseteq Auths
    BY DataAssumption
  <2> HIDE DEF entry, roots
  <2>2. QED BY <2>1, <1>1
<1>7. /\ unit \in LedgerType /\ SameFlow(unit, lg)
      /\ Rooted(unit, lg.donors, roots) /\ Complete(unit)
  <2> HIDE DEF writes, roots, entry
  <2>1. QED BY <1>2, <1>3, <1>6, UnitKeeps
<1> HIDE DEF unit
<1>8. after = [unit EXCEPT !.roots = roots]
  <2>1. unit.roots = lg.roots
    BY <1>7 DEF SameFlow
  <2> HIDE DEF after, entry
  <2>2. QED BY <2>1, <1>5
<1> HIDE DEF after, roots
<1>9. /\ after \in LedgerType /\ after.donors = unit.donors /\ after.roots = roots
      /\ after.entries = unit.entries /\ after.ngrams = unit.ngrams
      /\ after.seen = unit.seen /\ after.saturated = unit.saturated
      /\ after.explicit = unit.explicit /\ after.pid = unit.pid
  BY <1>4, <1>7, <1>8 DEF LedgerType
<1>10. Rooted(after, lg.donors, roots) /\ Complete(after)
  BY <1>7, <1>9 DEF Rooted, Complete
<1>11. QED BY <1>7, <1>9, <1>10 DEF Sound, SameFlow, after

-----------------------------------------------------------------------------
(* Binding.  There are as many ledgers as threads, so one that must leave  *)
(* a ledger to others, or has none, finds one nobody holds.                *)

LEMMA SlotIsFree ==
    ASSUME Types, NEW t \in Threads
    PROVE  /\ Slot(t) \in Ledgers
           /\ \A u \in Threads \ {t} : bound[u] # Slot(t)
<1> DEFINE N == Cardinality(Threads)
           others == Threads \ {t}
           held == {bound[u] : u \in others}
           alone == bound[t] # 0 /\ \A u \in Threads \ {t} : bound[u] # bound[t]
<1>1. N \in Nat /\ IsFiniteSet(others) /\ Cardinality(others) = N - 1
  BY ConstAssumption, FS_CardinalityType, FS_RemoveElement
<1>2. DOMAIN heap = Ledgers /\ \A u \in Threads : bound[u] \in {0} \cup Ledgers
  BY DEF Types, Ledgers
<1>3. CASE alone
  <2>1. Slot(t) = bound[t]
    BY <1>3 DEF Slot
  <2>2. QED BY <2>1, <1>2, <1>3
<1>4. CASE ~alone
  <2>1. IsFiniteSet(held) /\ Cardinality(held) <= N - 1 /\ Cardinality(held) \in Nat
    <3>1. IsFiniteSet(held) /\ Cardinality(held) <= Cardinality(others)
      <4> DEFINE f == [u \in others |-> bound[u]]
      <4>1. f \in Surjection(others, held)
        BY DEF Surjection
      <4> HIDE DEF f, others, held
      <4>2. QED BY <4>1, <1>1, FS_Surjection
    <3>2. QED BY <3>1, <1>1, FS_CardinalityType
  <2>2. Cardinality(Ledgers) = N
    <3> HIDE DEF N
    <3>1. Cardinality(1..N) = N
      BY <1>1, FS_Interval
    <3>2. QED BY <3>1 DEF N, Ledgers
  <2>3. ~(Ledgers \subseteq held)
    <3>1. SUFFICES ASSUME Ledgers \subseteq held PROVE FALSE
      OBVIOUS
    <3> HIDE DEF held, N
    <3>2. Cardinality(Ledgers) <= Cardinality(held)
      BY <2>1, <3>1, FS_Subset
    <3>3. QED BY <3>2, <2>1, <2>2, <1>1
  <2>4. PICK l \in Ledgers : l \notin held
    BY <2>3
  <2>5. \A u \in Threads : bound[u] # l
    <3>1. \A u \in others : bound[u] # l
      BY <2>4
    <3>2. l # 0
      BY <1>1 DEF Ledgers
    <3>3. bound[t] = 0 \/ \E u \in others : bound[u] = bound[t]
      BY <1>4
    <3>4. QED BY <3>1, <3>2, <3>3
  <2>6. Slot(t) = CHOOSE m \in DOMAIN heap : \A u \in Threads : bound[u] # m
    BY <1>4 DEF Slot
  <2>7. Slot(t) \in Ledgers /\ \A u \in Threads : bound[u] # Slot(t)
    BY <2>4, <2>5, <2>6, <1>2
  <2>8. QED BY <2>7
<1>5. QED BY <1>3, <1>4

\* Binding a sound ledger that is the thread's own keeps the others apart.
LEMMA BindKeeps ==
    ASSUME Inv, NEW t \in Threads, NEW lg, Sound(lg), Bind(t, lg),
           req' \in [Threads -> Nat],
           \A u \in Threads \ {t} :
               req'[u] = req[u] /\ host'[u] = host[u] /\ scanned'[u] = scanned[u],
           lg.explicit => host'[t] \in {"flow", "helper"},
           lg.donors \subseteq {req'[t]}
    PROVE  /\ heap' \in [Ledgers -> LedgerType]
           /\ bound' \in [Threads -> {0} \cup Ledgers]
           /\ Separate' /\ AllSound'
<1>1. PICK s : s = Slot(t)
  OBVIOUS
<1>2. s \in Ledgers /\ \A u \in Threads \ {t} : bound[u] # s
  BY <1>1, SlotIsFree DEF Inv
<1>3. bound' = [bound EXCEPT ![t] = s] /\ heap' = [heap EXCEPT ![s] = lg]
  BY <1>1 DEF Bind
<1>4. heap \in [Ledgers -> LedgerType] /\ bound \in [Threads -> {0} \cup Ledgers]
  BY DEF Inv, Types, Ledgers
<1>5. lg \in LedgerType
  BY DEF Sound
<1>6. /\ heap' \in [Ledgers -> LedgerType] /\ heap'[s] = lg
      /\ bound' \in [Threads -> {0} \cup Ledgers] /\ bound'[t] = s
      /\ \A l \in Ledgers : l # s => heap'[l] = heap[l]
      /\ \A u \in Threads : u # t => bound'[u] = bound[u]
  BY <1>2, <1>3, <1>4, <1>5
<1>7. AllSound'
  <2>1. ASSUME NEW l \in Ledgers PROVE Sound(heap'[l])
    BY <1>6 DEF Inv, AllSound, Ledgers
  <2>2. QED BY <2>1 DEF AllSound, Ledgers, Sound, LedgerType, Rooted, Complete, Entries, Labels,
                       Backed, BackedGram
<1>8. ASSUME NEW u \in Threads PROVE Apart(u)'
  <2>1. CASE u = t
    <3>1. \A v \in Threads : bound'[v] = s => v = t
      BY <1>2, <1>6
    <3>2. heap'[bound'[t]] = lg /\ bound'[t] = s
      BY <1>6
    <3>3. QED BY <2>1, <3>1, <3>2 DEF Apart, OneFlow, FlowActive
  <2>2. CASE u # t
    <3>1. bound'[u] = bound[u] /\ bound[u] # s
      BY <1>2, <1>6, <2>2
    <3>2. CASE bound[u] = 0
      BY <3>1, <3>2 DEF Apart
    <3>3. CASE bound[u] # 0
      <4>1. bound[u] \in Ledgers /\ heap'[bound[u]] = heap[bound[u]]
        BY <1>4, <1>6, <3>1, <3>3
      <4>2. Apart(u)
        BY DEF Inv, Separate
      <4>3. \A v \in Threads : bound'[v] = bound'[u] => v # t /\ bound[v] = bound[u]
        BY <1>6, <3>1
      <4>4. QED BY <2>2, <3>1, <3>3, <4>1, <4>2, <4>3 DEF Apart, OneFlow, FlowActive
    <3>4. QED BY <3>2, <3>3
  <2>3. QED BY <2>1, <2>2
<1>9. QED BY <1>6, <1>7, <1>8 DEF Separate

\* Writing into the ledger a thread holds: by a read, which gives nobody
\* authority, or by an input, which does so only in an explicit ledger.
LEMMA WriteKeeps ==
    ASSUME Inv, NEW t \in Threads, bound[t] # 0,
           NEW lg, Sound(lg), lg.explicit = heap[bound[t]].explicit,
           heap' = [heap EXCEPT ![bound[t]] = lg], UNCHANGED <<bound, host, req>>,
           \/ lg.donors = heap[bound[t]].donors /\ UNCHANGED scanned
           \/ /\ lg.explicit /\ lg.donors \subseteq heap[bound[t]].donors \cup {req[t]}
              /\ \A u \in Threads \ {t} : scanned'[u] = scanned[u]
    PROVE  heap' \in [Ledgers -> LedgerType] /\ Separate' /\ AllSound'
<1>1. PICK c : c = bound[t]
  OBVIOUS
<1>2. heap \in [Ledgers -> LedgerType] /\ c \in Ledgers /\ lg \in LedgerType
  BY <1>1 DEF Inv, Types, Sound
<1>3. /\ heap' \in [Ledgers -> LedgerType] /\ heap'[c] = lg
      /\ \A l \in Ledgers : l # c => heap'[l] = heap[l]
  BY <1>1, <1>2
<1>4. AllSound'
  <2>1. ASSUME NEW l \in Ledgers PROVE Sound(heap'[l])
    BY <1>3 DEF Inv, AllSound
  <2>2. QED BY <2>1 DEF AllSound, Ledgers, Sound, LedgerType, Rooted, Complete, Entries, Labels,
                       Backed, BackedGram
<1>5. ASSUME NEW u \in Threads PROVE Apart(u)'
  <2>1. Apart(u) /\ Apart(t) /\ bound[u] \in {0} \cup Ledgers
    BY DEF Inv, Separate, Types
  <2>2. CASE bound[u] = c
    <3>1. CASE lg.donors = heap[c].donors /\ UNCHANGED scanned
      BY <1>1, <1>3, <2>1, <2>2, <3>1 DEF Apart, OneFlow, FlowActive
    <3>2. CASE lg.explicit /\ lg.donors \subseteq heap[c].donors \cup {req[t]}
      <4>1. OneFlow(t) /\ OneFlow(u) /\ req[u] = req[t]
        BY <1>1, <2>1, <2>2, <3>2 DEF Apart, OneFlow
      <4>2. lg.donors \subseteq {req[u]}
        BY <1>1, <3>2, <4>1 DEF OneFlow
      <4>3. QED BY <1>3, <2>2, <4>1, <4>2 DEF Apart, OneFlow, FlowActive
    <3>3. QED BY <1>1, <3>1, <3>2
  <2>3. CASE bound[u] # c
    <3>1. CASE bound[u] = 0
      BY <3>1 DEF Apart
    <3>2. CASE bound[u] # 0
      <4>1. heap'[bound[u]] = heap[bound[u]]
        BY <1>3, <2>1, <2>3, <3>2
      <4>2. QED BY <1>1, <2>1, <2>3, <4>1 DEF Apart, OneFlow, FlowActive
    <3>3. QED BY <3>1, <3>2
  <2>4. QED BY <2>2, <2>3
<1>6. QED BY <1>3, <1>4, <1>5 DEF Separate

\* A ledger nobody holds any more is given back blank.
LEMMA BlankIsSound ==
    /\ Sound(Blank) /\ ~Blank.explicit /\ Blank.donors = {}
    /\ pid \in Nat => \A explicit \in BOOLEAN :
          /\ Sound(New(explicit)) /\ New(explicit).explicit = explicit
          /\ New(explicit).donors = {}
<1>1. Blank \in LedgerType
  BY DEF Blank, LedgerType
<1>2. /\ Blank.seen = {} /\ Blank.donors = {} /\ ~Blank.explicit
      /\ \A a \in Auths : Blank.entries[a] = None
      /\ \A g \in Grams : Blank.ngrams[g] = None
  BY DEF Blank
<1>3. Sound(Blank)
  <2> HIDE DEF Blank
  <2>1. QED BY <1>1, <1>2 DEF Sound, Rooted, Complete
<1>4. ASSUME pid \in Nat, NEW explicit \in BOOLEAN
      PROVE  Sound(New(explicit)) /\ New(explicit).explicit = explicit
             /\ New(explicit).donors = {}
  <2> DEFINE r == New(explicit)
  <2>1. r = [Blank EXCEPT !.explicit = explicit, !.pid = pid]
    BY DEF New
  <2> HIDE DEF r
  <2>2. /\ r \in LedgerType /\ r.explicit = explicit /\ r.seen = Blank.seen
        /\ r.donors = Blank.donors /\ r.entries = Blank.entries /\ r.ngrams = Blank.ngrams
    BY <1>1, <1>4, <2>1 DEF LedgerType
  <2>3. Rooted(r, r.donors, r.roots) /\ Complete(r)
    BY <1>2, <2>2 DEF Rooted, Complete
  <2>4. QED BY <1>2, <2>2, <2>3 DEF Sound, r
<1>5. QED BY <1>2, <1>3, <1>4

LEMMA KeptKeeps ==
    ASSUME Types, AllSound, bound' \in [Threads -> {0} \cup Ledgers], heap' = KeptLedgers(bound')
    PROVE  /\ heap' \in [Ledgers -> LedgerType] /\ AllSound'
           /\ \A u \in Threads : bound'[u] # 0 => heap'[bound'[u]] = heap[bound'[u]]
<1>1. DOMAIN heap = Ledgers
  BY DEF Types
<1>2. heap' = [l \in Ledgers |-> IF \E u \in Threads : bound'[u] = l THEN heap[l] ELSE Blank]
  BY <1>1 DEF KeptLedgers
<1>3. ASSUME NEW l \in Ledgers
      PROVE  Sound(heap'[l]) /\ heap'[l] \in LedgerType
  <2>1. heap'[l] = heap[l] \/ heap'[l] = Blank
    BY <1>2
  <2>2. Sound(heap[l])
    BY DEF AllSound
  <2>3. Sound(heap'[l])
    BY <2>1, <2>2, BlankIsSound
  <2>4. QED BY <2>3 DEF Sound
<1>4. heap' \in [Ledgers -> LedgerType]
  BY <1>2, <1>3
<1>5. AllSound'
  BY <1>3 DEF AllSound, Ledgers, Sound, LedgerType, Rooted, Complete, Entries, Labels,
              Backed, BackedGram
<1>6. \A u \in Threads : bound'[u] # 0 => heap'[bound'[u]] = heap[bound'[u]]
  BY <1>2
<1>7. QED BY <1>4, <1>5, <1>6

-----------------------------------------------------------------------------
(* The actions.                                                            *)

LEMMA InitInv == OriginInit => Inv
<1> SUFFICES ASSUME OriginInit PROVE Inv
  OBVIOUS
<1>1. heap = [l \in Ledgers |-> Blank]
  BY DEF OriginInit, Ledgers
<1>2. Blank \in LedgerType /\ Sound(Blank)
  BY BlankIsSound DEF Sound
<1>3. Types
  <2>1. heap \in [Ledgers -> LedgerType]
    BY <1>1, <1>2
  <2>2. QED BY <2>1 DEF OriginInit, Types, Hosts
<1>4. Resting /\ Separate
  BY DEF OriginInit, Resting, Separate, Apart
<1>5. AllSound
  BY <1>1, <1>2 DEF AllSound
<1>6. QED BY <1>3, <1>4, <1>5 DEF Inv

LEMMA OpenKeeps ==
    ASSUME Inv, NEW t \in Threads, NEW as \in {"flow", "bare"}, Open(t, as)
    PROVE  /\ started' \in Nat /\ pid' \in Nat
           /\ req' \in [Threads -> Nat] /\ host' \in [Threads -> Hosts]
           /\ scanned' = scanned /\ host'[t] = as /\ req'[t] # 0 /\ ~scanned[t]
           /\ \A u \in Threads \ {t} : req'[u] = req[u] /\ host'[u] = host[u]
           /\ Resting'
<1>1. Types /\ Resting
  BY DEF Inv
<1>2. /\ req[t] = 0 /\ req' = [req EXCEPT ![t] = started + 1] /\ started' = started + 1
      /\ host' = [host EXCEPT ![t] = as] /\ UNCHANGED <<scanned, pid>>
  BY DEF Open
<1>3. started + 1 \in Nat /\ started + 1 # 0
  BY <1>1 DEF Types
<1>4. QED BY <1>1, <1>2, <1>3 DEF Types, Resting, Hosts

LEMMA BeginFlowInv ==
    ASSUME Inv, NEW t \in Threads, BeginFlow(t)
    PROVE  Inv'
<1>1. Open(t, "flow") /\ Bind(t, New(TRUE))
  BY DEF BeginFlow
<1>2. PICK lg : lg = New(TRUE)
  OBVIOUS
<1>3. Sound(lg) /\ lg.donors = {} /\ Bind(t, lg)
  BY <1>1, <1>2, BlankIsSound DEF Inv, Types
<1>4. /\ started' \in Nat /\ pid' \in Nat
      /\ req' \in [Threads -> Nat] /\ host' \in [Threads -> Hosts]
      /\ scanned' = scanned /\ host'[t] = "flow"
      /\ \A u \in Threads \ {t} : req'[u] = req[u] /\ host'[u] = host[u]
      /\ Resting'
  BY <1>1, OpenKeeps
<1>5. lg.donors \subseteq {req'[t]}
  BY <1>3
<1>6. /\ heap' \in [Ledgers -> LedgerType] /\ bound' \in [Threads -> {0} \cup Ledgers]
      /\ Separate' /\ AllSound'
  BY <1>3, <1>4, <1>5, BindKeeps
<1>7. QED BY <1>4, <1>6 DEF Inv, Types, Ledgers, LedgerType, Entries, Labels

LEMMA BeginBareInv ==
    ASSUME Inv, NEW t \in Threads, BeginBare(t)
    PROVE  Inv'
<1>1. Open(t, "bare") /\ UNCHANGED <<heap, bound>>
  BY DEF BeginBare
<1>2. /\ started' \in Nat /\ pid' \in Nat
      /\ req' \in [Threads -> Nat] /\ host' \in [Threads -> Hosts]
      /\ scanned' = scanned /\ req'[t] # 0 /\ ~scanned[t]
      /\ \A u \in Threads \ {t} : req'[u] = req[u] /\ host'[u] = host[u]
      /\ Resting'
  BY <1>1, OpenKeeps
<1>3. req[t] = 0 /\ host[t] = "idle"
  BY <1>1 DEF Open, Inv, Resting
<1>4. ASSUME NEW u \in Threads PROVE Apart(u)'
  <2>1. Apart(u) /\ Apart(t)
    BY DEF Inv, Separate
  <2>2. CASE u = t
    \* At rest the thread was in no flow, so its ledger is implicit.
    BY <1>1, <1>2, <1>3, <2>1, <2>2 DEF Apart, OneFlow, FlowActive
  <2>3. CASE u # t
    <3>1. bound[u] # 0 /\ heap[bound[u]].explicit => bound[t] # bound[u]
      BY <1>3, <2>1 DEF Apart, OneFlow, FlowActive
    <3>2. QED BY <1>1, <1>2, <2>1, <2>3, <3>1 DEF Apart, OneFlow, FlowActive
  <2>4. QED BY <2>2, <2>3
<1>5. QED BY <1>1, <1>2, <1>4 DEF Inv, Types, Separate, AllSound, Ledgers, LedgerType, Entries,
            Labels, Sound, Rooted, Complete, Backed, BackedGram

LEMMA BindLedgerInv ==
    ASSUME Inv, NEW t \in Threads, BindLedger(t)
    PROVE  Inv'
<1>1. /\ req[t] # 0 /\ FlowActive(t) /\ Bind(t, New(TRUE))
      /\ UNCHANGED <<host, req, scanned, started, pid>>
  BY DEF BindLedger
<1>2. PICK lg : lg = New(TRUE)
  OBVIOUS
<1>3. Sound(lg) /\ lg.donors = {} /\ Bind(t, lg)
  BY <1>1, <1>2, BlankIsSound DEF Inv, Types
<1>4. host'[t] \in {"flow", "helper"} /\ req' \in [Threads -> Nat]
  BY <1>1 DEF FlowActive, Inv, Types
<1>5. lg.donors \subseteq {req'[t]}
  BY <1>3
<1>6. /\ heap' \in [Ledgers -> LedgerType] /\ bound' \in [Threads -> {0} \cup Ledgers]
      /\ Separate' /\ AllSound'
  BY <1>1, <1>3, <1>4, <1>5, BindKeeps
<1>7. QED BY <1>1, <1>6 DEF Inv, Types, Resting, Ledgers, LedgerType, Entries, Labels

LEMMA CurrentIsBound ==
    ASSUME NEW t \in Threads, Current(t) # 0
    PROVE  Current(t) = bound[t] /\ bound[t] # 0
BY DEF Current

LEMMA RecordInputInv ==
    ASSUME Inv, NEW t \in Threads, NEW input \in Inputs, NEW clean \in BOOLEAN,
           RecordInput(t, input, clean)
    PROVE  Inv'
<1>1. /\ req[t] # 0 /\ scanned' = [scanned EXCEPT ![t] = TRUE]
      /\ UNCHANGED <<host, req, started, pid>>
  BY DEF RecordInput
<1>2. req[t] \in Nat /\ scanned \in [Threads -> BOOLEAN] /\ Types /\ Resting
  BY DEF Inv, Types
<1>3. /\ scanned' \in [Threads -> BOOLEAN]
      /\ \A u \in Threads \ {t} : scanned'[u] = scanned[u]
  BY <1>1, <1>2
<1>4. Resting'
  BY <1>1, <1>2, <1>3 DEF Resting
<1>5. CASE KeepsLedger(t)
  <2>1. /\ Current(t) = bound[t] /\ bound[t] # 0 /\ heap[bound[t]].explicit
        /\ heap' = [heap EXCEPT ![bound[t]] = RecordedInput(@, input, clean, req[t])]
        /\ UNCHANGED bound
    BY <1>5, CurrentIsBound DEF RecordInput, KeepsLedger
  <2>2. PICK old : old = heap[bound[t]]
    OBVIOUS
  <2>3. PICK r : r = req[t]
    OBVIOUS
  <2>4. PICK lg : lg = RecordedInput(old, input, clean, r)
    OBVIOUS
  <2>5. Sound(old)
    BY <2>1, <2>2 DEF Inv, Types, AllSound
  <2>6. Sound(lg) /\ lg.explicit = old.explicit /\ lg.donors \subseteq old.donors \cup {r}
    BY <1>2, <2>3, <2>4, <2>5, InputKeeps
  <2>7. heap' = [heap EXCEPT ![bound[t]] = lg]
    BY <2>1, <2>2, <2>3, <2>4
  <2>8. heap' \in [Ledgers -> LedgerType] /\ Separate' /\ AllSound'
    <3>1. /\ lg.explicit = heap[bound[t]].explicit /\ lg.explicit
          /\ lg.donors \subseteq heap[bound[t]].donors \cup {req[t]}
      BY <2>1, <2>2, <2>3, <2>6
    <3>2. UNCHANGED <<bound, host, req>>
      BY <1>1, <2>1
    <3>3. QED BY <1>3, <2>1, <2>6, <2>7, <3>1, <3>2, WriteKeeps
  <2>9. QED BY <1>1, <1>2, <1>3, <1>4, <2>1, <2>8
          DEF Inv, Types, Ledgers, LedgerType, Entries, Labels
<1>6. CASE ~KeepsLedger(t)
  <2>1. Bind(t, RecordedInput(New(FALSE), input, clean, req[t]))
    BY <1>6 DEF RecordInput
  <2>2. PICK new : new = New(FALSE)
    OBVIOUS
  <2>3. PICK r : r = req[t]
    OBVIOUS
  <2>4. PICK lg : lg = RecordedInput(new, input, clean, r)
    OBVIOUS
  <2>5. Sound(new) /\ ~new.explicit /\ new.donors = {}
    BY <1>2, <2>2, BlankIsSound DEF Types
  <2>6. Sound(lg) /\ lg.explicit = new.explicit /\ lg.donors \subseteq new.donors \cup {r}
    BY <1>2, <2>3, <2>4, <2>5, InputKeeps
  <2>7. Bind(t, lg) /\ ~lg.explicit /\ lg.donors \subseteq {req'[t]}
    BY <1>1, <2>1, <2>2, <2>3, <2>4, <2>5, <2>6
  <2>8. /\ heap' \in [Ledgers -> LedgerType] /\ bound' \in [Threads -> {0} \cup Ledgers]
        /\ Separate' /\ AllSound'
    <3>1. req' \in [Threads -> Nat]
      BY <1>1, <1>2 DEF Types
    <3>2. QED BY <1>1, <1>3, <2>6, <2>7, <3>1, BindKeeps
  <2>9. QED BY <1>1, <1>2, <1>3, <1>4, <2>8
          DEF Inv, Types, Ledgers, LedgerType, Entries, Labels
<1>7. QED BY <1>5, <1>6

LEMMA RecordReadInv ==
    ASSUME Inv, NEW t \in Threads, NEW read \in Reads, NEW blocked \in BOOLEAN,
           RecordRead(t, read, blocked)
    PROVE  Inv'
<1>1. /\ Current(t) = bound[t] /\ bound[t] # 0
      /\ heap' = [heap EXCEPT ![bound[t]] = RecordedRead(@, read, blocked)]
      /\ UNCHANGED <<bound, host, req, scanned, started, pid>>
  BY CurrentIsBound DEF RecordRead
<1>2. PICK old : old = heap[bound[t]]
  OBVIOUS
<1>3. PICK lg : lg = RecordedRead(old, read, blocked)
  OBVIOUS
<1>4. Sound(old)
  BY <1>1, <1>2 DEF Inv, Types, AllSound
<1>5. Sound(lg) /\ lg.explicit = old.explicit /\ lg.donors = old.donors
  BY <1>3, <1>4, ReadKeeps
<1>6. heap' = [heap EXCEPT ![bound[t]] = lg]
  BY <1>1, <1>2, <1>3
<1>7. heap' \in [Ledgers -> LedgerType] /\ Separate' /\ AllSound'
  <2>1. lg.explicit = heap[bound[t]].explicit /\ lg.donors = heap[bound[t]].donors
    BY <1>2, <1>5
  <2>2. QED BY <1>1, <1>5, <1>6, <2>1, WriteKeeps
<1>8. QED BY <1>1, <1>7 DEF Inv, Types, Resting, Ledgers, LedgerType, Entries, Labels

LEMMA SpawnInv ==
    ASSUME Inv, NEW t \in Threads, NEW u \in Threads \ {t}, Spawn(t, u)
    PROVE  Inv'
<1>1. /\ req[t] # 0 /\ req[u] = 0 /\ bound[u] = 0
      /\ bound' = [bound EXCEPT ![u] = bound[t]]
      /\ req' = [req EXCEPT ![u] = req[t]]
      /\ host' = [host EXCEPT ![u] = IF FlowActive(t) THEN "helper" ELSE "bare_helper"]
      /\ scanned' = [scanned EXCEPT ![u] = scanned[t]]
      /\ UNCHANGED <<heap, started, pid>>
  BY DEF Spawn
<1>2. Types /\ Resting /\ Separate
  BY DEF Inv
<1>3. /\ bound' \in [Threads -> {0} \cup Ledgers] /\ bound'[u] = bound[t]
      /\ req' \in [Threads -> Nat] /\ req'[u] = req[t]
      /\ host' \in [Threads -> Hosts] /\ (FlowActive(t) => host'[u] = "helper")
      /\ host'[u] # "idle"
      /\ scanned' \in [Threads -> BOOLEAN] /\ scanned'[u] = scanned[t]
      /\ \A v \in Threads : v # u =>
            /\ bound'[v] = bound[v] /\ req'[v] = req[v]
            /\ host'[v] = host[v] /\ scanned'[v] = scanned[v]
  BY <1>1, <1>2 DEF Types, Hosts
<1>4. Resting'
  BY <1>1, <1>2, <1>3 DEF Resting
<1>5. ASSUME NEW v \in Threads PROVE Apart(v)'
  <2>1. PICK from : from = IF v = u THEN t ELSE v
    OBVIOUS
  <2>2. from \in Threads /\ from # u /\ Apart(from) /\ Apart(t)
    BY <1>2, <2>1 DEF Separate
  <2>3. /\ bound'[v] = bound[from] /\ req'[v] = req[from] /\ scanned'[v] = scanned[from]
        /\ FlowActive(from) => host'[v] \in {"flow", "helper"}
    BY <1>3, <2>1 DEF FlowActive
  <2>4. heap[bound[from]].explicit /\ bound[from] # 0 => \A w \in Threads :
            bound'[w] = bound[from] => req'[w] = req[from]
    BY <1>3, <2>2 DEF Apart, OneFlow
  <2>5. QED BY <1>1, <2>2, <2>3, <2>4 DEF Apart, OneFlow, FlowActive
<1>6. QED BY <1>1, <1>2, <1>3, <1>4, <1>5 DEF Inv, Types, Separate, AllSound, Ledgers, LedgerType,
            Entries, Labels, Sound, Rooted, Complete, Backed, BackedGram

\* A thread that keeps its ledger and is left as it was, or at rest with an
\* implicit one, is still apart from the others.
LEMMA LeaveKeeps ==
    ASSUME Inv, bound' \in [Threads -> {0} \cup Ledgers], heap' = KeptLedgers(bound'),
           req' \in [Threads -> Nat],
           \A u \in Threads : bound'[u] # 0 =>
              /\ bound'[u] = bound[u]
              /\ \/ req'[u] = req[u] /\ host'[u] = host[u] /\ (scanned'[u] => scanned[u])
                 \/ ~FlowActive(u) /\ ~scanned'[u]
    PROVE  heap' \in [Ledgers -> LedgerType] /\ Separate' /\ AllSound'
<1>1. /\ heap' \in [Ledgers -> LedgerType] /\ AllSound'
      /\ \A u \in Threads : bound'[u] # 0 => heap'[bound'[u]] = heap[bound'[u]]
  BY KeptKeeps DEF Inv
<1>2. ASSUME NEW u \in Threads PROVE Apart(u)'
  <2>1. CASE bound'[u] = 0
    BY <2>1 DEF Apart
  <2>2. CASE bound'[u] # 0
    <3>1. Apart(u) /\ bound'[u] = bound[u] /\ heap'[bound[u]] = heap[bound[u]]
      BY <1>1, <2>2 DEF Inv, Separate
    <3>2. ASSUME heap[bound[u]].explicit PROVE OneFlow(u)'
      <4>1. OneFlow(u)
        BY <2>2, <3>1, <3>2 DEF Apart
      <4>2. req'[u] = req[u] /\ host'[u] = host[u]
        BY <2>2, <4>1 DEF OneFlow
      <4>3. ASSUME NEW v \in Threads, bound'[v] = bound'[u] PROVE req'[v] = req'[u]
        <5>1. bound[v] = bound[u] /\ Apart(v) /\ bound[v] # 0
          BY <2>2, <3>1, <4>3 DEF Inv, Separate
        <5>2. OneFlow(v)
          BY <3>2, <5>1 DEF Apart
        <5>3. req'[v] = req[v]
          BY <2>2, <4>3, <5>2 DEF OneFlow
        <5>4. QED BY <4>1, <4>2, <5>1, <5>3 DEF OneFlow
      <4>4. QED BY <3>1, <4>1, <4>2, <4>3 DEF OneFlow, FlowActive
    <3>3. scanned'[u] => heap'[bound'[u]].donors \subseteq {req'[u]}
      BY <2>2, <3>1 DEF Apart
    <3>4. QED BY <3>1, <3>2, <3>3 DEF Apart
  <2>3. QED BY <2>1, <2>2
<1>3. QED BY <1>1, <1>2 DEF Separate

LEMMA FinishInv ==
    ASSUME Inv, NEW t \in Threads, Finish(t)
    PROVE  Inv'
<1>1. /\ req' = [req EXCEPT ![t] = 0] /\ host' = [host EXCEPT ![t] = "idle"]
      /\ scanned' = [scanned EXCEPT ![t] = FALSE]
      /\ bound' = [bound EXCEPT ![t] = IF host[t] = "bare" THEN @ ELSE 0]
      /\ heap' = KeptLedgers(bound') /\ UNCHANGED <<started, pid>>
  BY DEF Finish
<1>2. Types /\ Resting
  BY DEF Inv
<1>3. /\ bound' \in [Threads -> {0} \cup Ledgers] /\ req' \in [Threads -> Nat]
      /\ host' \in [Threads -> Hosts] /\ scanned' \in [Threads -> BOOLEAN]
      /\ req'[t] = 0 /\ host'[t] = "idle" /\ ~scanned'[t]
      /\ bound'[t] # 0 => host[t] = "bare" /\ bound'[t] = bound[t]
      /\ \A v \in Threads : v # t =>
            /\ bound'[v] = bound[v] /\ req'[v] = req[v]
            /\ host'[v] = host[v] /\ scanned'[v] = scanned[v]
  BY <1>1, <1>2 DEF Types, Hosts
<1>4. Resting'
  BY <1>2, <1>3 DEF Resting
<1>5. heap' \in [Ledgers -> LedgerType] /\ Separate' /\ AllSound'
  <2>1. ASSUME NEW u \in Threads, bound'[u] # 0
        PROVE  /\ bound'[u] = bound[u]
               /\ \/ req'[u] = req[u] /\ host'[u] = host[u] /\ (scanned'[u] => scanned[u])
                  \/ ~FlowActive(u) /\ ~scanned'[u]
    BY <1>3, <2>1 DEF FlowActive
  <2>2. QED BY <1>1, <1>3, <2>1, LeaveKeeps
<1>6. QED BY <1>1, <1>2, <1>3, <1>4, <1>5 DEF Inv, Types, Ledgers, LedgerType, Entries, Labels

LEMMA ForkInv ==
    ASSUME Inv, NEW t \in Threads, Fork(t)
    PROVE  Inv'
<1>1. /\ pid' = pid + 1 /\ bound' = Alone(t, bound, 0) /\ req' = Alone(t, req, 0)
      /\ host' = Alone(t, host, "idle") /\ scanned' = [u \in Threads |-> FALSE]
      /\ heap' = KeptLedgers(bound') /\ UNCHANGED started /\ req[t] # 0
  BY DEF Fork
<1>2. Types /\ Resting
  BY DEF Inv
<1>3. /\ bound' \in [Threads -> {0} \cup Ledgers] /\ req' \in [Threads -> Nat]
      /\ host' \in [Threads -> Hosts] /\ scanned' \in [Threads -> BOOLEAN]
      /\ bound'[t] = bound[t] /\ req'[t] = req[t] /\ host'[t] = host[t]
      /\ \A v \in Threads : ~scanned'[v]
      /\ \A v \in Threads : v # t => bound'[v] = 0 /\ req'[v] = 0 /\ host'[v] = "idle"
  BY <1>1, <1>2 DEF Types, Hosts, Alone
<1>4. Resting'
  BY <1>2, <1>3 DEF Resting
<1>5. heap' \in [Ledgers -> LedgerType] /\ Separate' /\ AllSound'
  BY <1>1, <1>3, LeaveKeeps
<1>6. pid' \in Nat
  BY <1>1, <1>2 DEF Types
<1>7. QED BY <1>1, <1>2, <1>3, <1>4, <1>5, <1>6
        DEF Inv, Types, Ledgers, LedgerType, Entries, Labels

LEMMA StutterInv == Inv /\ UNCHANGED originVars => Inv'
BY DEF originVars, Inv, Types, Resting, Separate, Apart, OneFlow, FlowActive, AllSound, Ledgers,
       LedgerType, Entries, Labels, Sound, Rooted, Complete, Backed, BackedGram

THEOREM Inductive == OriginSpec => []Inv
<1>1. OriginInit => Inv
  BY InitInv
<1>2. Inv /\ [OriginNext]_originVars => Inv'
  <2>1. SUFFICES ASSUME Inv, [OriginNext]_originVars PROVE Inv'
    OBVIOUS
  <2>2. CASE UNCHANGED originVars
    BY <2>1, <2>2, StutterInv
  <2>3. ASSUME NEW t \in Threads, BeginFlow(t) PROVE Inv'
    BY <2>1, <2>3, BeginFlowInv
  <2>4. ASSUME NEW t \in Threads, BeginBare(t) PROVE Inv'
    BY <2>1, <2>4, BeginBareInv
  <2>5. ASSUME NEW t \in Threads, BindLedger(t) PROVE Inv'
    BY <2>1, <2>5, BindLedgerInv
  <2>6. ASSUME NEW t \in Threads, Finish(t) PROVE Inv'
    BY <2>1, <2>6, FinishInv
  <2>7. ASSUME NEW t \in Threads, Fork(t) PROVE Inv'
    BY <2>1, <2>7, ForkInv
  <2>8. ASSUME NEW t \in Threads, NEW input \in Inputs, NEW clean \in BOOLEAN,
               RecordInput(t, input, clean)
        PROVE  Inv'
    BY <2>1, <2>8, RecordInputInv
  <2>9. ASSUME NEW t \in Threads, NEW read \in Reads, NEW blocked \in BOOLEAN,
               RecordRead(t, read, blocked)
        PROVE  Inv'
    BY <2>1, <2>9, RecordReadInv
  <2>10. ASSUME NEW t \in Threads, NEW u \in Threads \ {t}, Spawn(t, u) PROVE Inv'
    BY <2>1, <2>10, SpawnInv
  <2>11. QED BY <2>1, <2>2, <2>3, <2>4, <2>5, <2>6, <2>7, <2>8, <2>9, <2>10 DEF OriginNext
<1>3. QED BY <1>1, <1>2, PTL DEF OriginSpec

-----------------------------------------------------------------------------
(* The invariants of the runs.                                             *)

THEOREM AuthorityIsPerRequest == OriginSpec => []PerRequest
<1>1. Inv => PerRequest
  <2>1. SUFFICES ASSUME Inv, NEW t \in Threads, scanned[t], Current(t) # 0
                 PROVE  heap[Current(t)].donors \subseteq {req[t]}
    BY DEF PerRequest
  <2>2. Current(t) = bound[t] /\ bound[t] # 0
    BY <2>1, CurrentIsBound
  <2>3. Apart(t)
    BY <2>1 DEF Inv, Separate
  <2>4. QED BY <2>1, <2>2, <2>3 DEF Apart
<1>2. QED BY <1>1, Inductive, PTL

THEOREM TrustIsRooted == OriginSpec => []TrustHasARoot
<1>1. Inv => TrustHasARoot
  <2>1. SUFFICES ASSUME Inv, NEW l \in DOMAIN heap, NEW a \in Auths, heap[l].entries[a] # None
                 PROVE  LET e == heap[l].entries[a]  roots == heap[l].roots IN
                        /\ e.origin = "principal" => heap[l].donors # {}
                        /\ e = Principal(TRUE) => "declared" \in roots
                        /\ (e.origin = "trusted" /\ e.label \notin Keyless) =>
                              IF e.declared THEN roots \cap {"declared", "keyless"} # {}
                              ELSE roots # {}
    BY DEF TrustHasARoot
  <2>2. l \in Ledgers
    BY <2>1 DEF Inv, Types
  <2>3. Backed(heap[l].entries[a], heap[l].donors, heap[l].roots)
    BY <2>1, <2>2 DEF Inv, AllSound, Sound, Rooted
  <2>4. Principal(TRUE).origin = "principal" /\ Principal(TRUE).declared
    BY DEF Principal
  <2>5. heap[l].entries[a].declared \in BOOLEAN
    BY <2>1, <2>2 DEF Inv, Types, LedgerType, Entries
  <2> DEFINE e == heap[l].entries[a]
            roots == heap[l].roots
  <2>6. e = Principal(TRUE) => "declared" \in roots
    BY <2>3, <2>4 DEF Backed
  <2>7. e.origin = "principal" => heap[l].donors # {}
    BY <2>3 DEF Backed
  <2>8. e.origin = "trusted" /\ e.declared => roots \cap {"declared", "keyless"} # {}
    BY <2>3 DEF Backed
  <2>9. e.origin = "trusted" => roots # {}
    BY <2>3 DEF Backed
  <2> HIDE DEF e, roots
  <2>10. QED BY <2>5, <2>6, <2>7, <2>8, <2>9 DEF e, roots
<1>2. QED BY <1>1, Inductive, PTL

-----------------------------------------------------------------------------
(* The verdict on a call.                                                  *)

\* The weakest wire is the first of the order that is there.
LEMMA WeakestWire ==
    ASSUME NEW wires, wires \subseteq {Weakness[i] : i \in 1..5}, wires # {}
    PROVE  /\ Weakest(wires) \in wires
           /\ "untrusted_source" \in wires => Weakest(wires) = "untrusted_source"
           /\ "unresolved" \in wires => Weakest(wires) \in {"untrusted_source", "unresolved"}
<1> DEFINE there == {i \in 1..5 : Weakness[i] \in wires}
<1>1. DOMAIN Weakness = 1..5
  BY DEF Weakness
<1>2. there \subseteq Nat /\ there # {}
  OBVIOUS
<1>3. Min(there) \in there /\ \A i \in there : Min(there) <= i
  BY <1>2, MinIn
<1>4. Weakest(wires) = Weakness[Min(there)]
  BY <1>1 DEF Weakest
<1>5. PICK m \in 1..5 : m = Min(there)
  BY <1>3
<1>6. "untrusted_source" \in wires => m = 1
  <2>1. "untrusted_source" \in wires => 1 \in there
    BY DEF Weakness
  <2>2. QED BY <1>3, <1>5, <2>1
<1>7. "unresolved" \in wires => m = 1 \/ m = 2
  <2>1. "unresolved" \in wires => 2 \in there
    BY DEF Weakness
  <2>2. QED BY <1>3, <1>5, <2>1
<1>8. Weakness[1] = "untrusted_source" /\ Weakness[2] = "unresolved"
  BY DEF Weakness
<1>9. QED BY <1>3, <1>4, <1>5, <1>6, <1>7, <1>8

\* A value that is read without a failure gives every destination it has.
LEMMA ClassifyCovers ==
    ASSUME NEW v \in ValueType, v.form \in {"url", "implied"} => Len(v.parts) <= 1,
           ClassifyValue(v) # NotADestination, ~ClassifyValue(v).failed,
           NEW a \in ToSet(v.parts) \cap Auths
    PROVE  a \in ClassifyValue(v).found
<1>1. v.parts \in Seq(Auths \cup {"bad", "raw"}) /\ a # "bad"
  BY DataAssumption DEF ValueType
<1>2. ASSUME NEW parsed PROVE Failure(parsed).failed
  BY DEF Failure
<1>3. ASSUME NEW parts, a \in ToSet(parts), ~MailboxList(parts).failed
      PROVE  a \in MailboxList(parts).found
  BY <1>1, <1>2, <1>3 DEF MailboxList
<1>4. CASE v.form \in {"text", "file", "too_long"}
  <2>1. ClassifyValue(v) = NotADestination
    BY <1>4 DEF ClassifyValue
  <2>2. QED BY <2>1
<1>5. CASE v.form = "mailbox"
  <2>1. ClassifyValue(v) = MailboxList(v.parts)
    BY <1>5 DEF ClassifyValue
  <2>2. QED BY <2>1, <1>3
<1>6. CASE v.form = "mailto"
  <2>1. ClassifyValue(v) = IF v.parts = <<>> THEN NotADestination ELSE MailboxList(v.parts)
    BY <1>6 DEF ClassifyValue
  <2>2. ClassifyValue(v) = MailboxList(v.parts)
    BY <2>1
  <2>3. QED BY <2>2, <1>3
<1>7. CASE v.form \in {"url", "implied"}
  <2>1. ClassifyValue(v) =
            IF v.spaced THEN IF v.form = "url" THEN Failure({}) ELSE NotADestination
            ELSE IF v.parts = <<>> THEN NotADestination ELSE Host(v.parts[1])
    BY <1>7 DEF ClassifyValue
  <2>2. ClassifyValue(v) = Host(v.parts[1])
    BY <1>2, <2>1
  <2>3. a = v.parts[1]
    BY <1>1, <1>7 DEF ToSet
  <2>4. QED BY <1>1, <2>2, <2>3 DEF Host
<1>8. CASE v.form \in {"phone", "ip"}
  <2>1. ClassifyValue(v) = [failed |-> FALSE, found |-> ToSet(v.parts)]
    BY <1>8 DEF ClassifyValue
  <2>2. QED BY <2>1
<1>9. QED BY <1>4, <1>5, <1>6, <1>7, <1>8 DEF ValueType

\* A walk that did not stop and had no failure found all there was.
LEMMA ExtractCovers ==
    ASSUME NEW args \in Args, ~Extract(args).unknown
    PROVE  Carried(args) \subseteq Extract(args).found
<1> DEFINE leaves == LeavesRead(args)
           results == {ClassifyValue(v) : v \in ToSet(leaves)}
           failed == \E r \in results : r.failed
           found == UNION {r.found : r \in results}
<1>1. /\ args \in Seq(ValueType) /\ MaxLeaves \in Nat
      /\ \A v \in ToSet(args) : v.form \in {"url", "implied"} => Len(v.parts) <= 1
  BY DataAssumption, ConstAssumption
<1>2. Extract(args) = [found |-> found, unknown |-> WalkTruncated(args) \/ failed]
  BY DEF Extract
<1>3. ~WalkTruncated(args) /\ ~failed /\ Extract(args).found = found
  <2>1. failed \in BOOLEAN /\ WalkTruncated(args) \in BOOLEAN
    BY DEF WalkTruncated
  <2> HIDE DEF found, failed
  <2>2. QED BY <1>2, <2>1
<1>4. leaves = args
  <2>1. ~(Len(args) > MaxLeaves)
    BY <1>3 DEF WalkTruncated
  <2>2. leaves = SubSeq(args, 1, Len(args))
    BY <1>1, <2>1 DEF LeavesRead
  <2>3. QED BY <1>1, <2>2, SubSeqFull
<1>5. \A v \in ToSet(args) : v.form # "too_long"
  BY <1>3, <1>4 DEF WalkTruncated
<1>6. SUFFICES ASSUME NEW a \in Carried(args) PROVE a \in found
  BY <1>3
<1>7. PICK v \in ToSet(args) : /\ v.form = "too_long" \/ ClassifyValue(v) # NotADestination
                               /\ a \in ToSet(v.parts) \cap Auths
  BY DEF Carried
<1>8. v \in ValueType
  BY <1>1 DEF ToSet
<1>9. ClassifyValue(v) \in results /\ ~ClassifyValue(v).failed
  BY <1>3, <1>4
<1>10. a \in ClassifyValue(v).found
  BY <1>1, <1>5, <1>7, <1>8, <1>9, ClassifyCovers
<1>11. QED BY <1>9, <1>10

\* What the wire of a call with a ledger says of its destinations.
LEMMA WireSays ==
    ASSUME NEW t \in Threads, NEW args \in Args, Current(t) # 0, Sound(heap[Current(t)]),
           NEW lg, lg = heap[Current(t)],
           NEW found, found = Extract(args).found
    PROVE  /\ WireVerdict(Wire(t, args)) = "authorized" =>
                 /\ ~Extract(args).unknown
                 /\ \A a \in found : /\ EntryFor(lg, a) # None
                                     /\ lg.entries[a].origin # "untrusted"
           /\ WireVerdict(Wire(t, args)) = "unresolved" /\ ~Extract(args).unknown =>
                 ~lg.saturated /\ \E a \in found : EntryFor(lg, a) = None
<1> DEFINE missed == {a \in found : EntryFor(lg, a) = None}
           unknown == Extract(args).unknown
           wires == {WireOf(lg.entries[a]) : a \in found \ missed}
                    \cup (IF missed # {} \/ unknown THEN {"unresolved"} ELSE {})
           full == missed # {} /\ lg.saturated /\ "untrusted_source" \notin wires
           wire == Wire(t, args)
<1>1. wire = IF wires = {} THEN "no_destination"
             ELSE IF full THEN "ledger_saturated" ELSE Weakest(wires)
  BY DEF Wire
<1>2. wires \subseteq {Weakness[i] : i \in 1..5}
  <2>1. {"untrusted_source", "unresolved", "principal_undeclared_span", "trusted_source",
         "principal"} \subseteq {Weakness[i] : i \in 1..5}
    BY DEF Weakness
  <2>2. ASSUME NEW e
        PROVE  WireOf(e) \in {"untrusted_source", "principal_undeclared_span",
                               "trusted_source", "principal"}
    BY DEF WireOf
  <2>3. QED BY <2>1, <2>2
<1>3. /\ WireVerdict(wire) = "authorized" =>
            wire \in {"principal", "principal_undeclared_span", "trusted_source"}
      /\ WireVerdict(wire) = "unresolved" => wire = "unresolved"
  BY DEF WireVerdict
<1>4. ASSUME WireVerdict(wire) \in {"authorized", "unresolved"}
      PROVE  wires # {} /\ ~full /\ wire = Weakest(wires)
  <2> HIDE DEF wire, wires, full
  <2>1. wire # "no_destination" /\ wire # "ledger_saturated"
    BY <1>3, <1>4
  <2>2. QED BY <2>1, <1>1
<1>5. ASSUME WireVerdict(wire) = "authorized"
      PROVE  missed = {} /\ ~unknown /\ "untrusted_source" \notin wires
  <2>1. "unresolved" \notin wires /\ "untrusted_source" \notin wires
    <3> HIDE DEF wire, wires, full
    <3>1. QED BY <1>2, <1>3, <1>4, <1>5, WeakestWire
  <2>2. QED BY <2>1
<1>6. ASSUME WireVerdict(wire) = "unresolved", ~unknown
      PROVE  missed # {} /\ ~lg.saturated
  <2>1. "unresolved" \in wires /\ "untrusted_source" \notin wires
    <3> HIDE DEF wire, wires, full
    <3>1. QED BY <1>2, <1>3, <1>4, <1>6, WeakestWire
  <2>2. ASSUME NEW e PROVE WireOf(e) # "unresolved"
    BY DEF WireOf
  <2>3. missed # {}
    BY <2>1, <2>2, <1>6
  <2>4. QED BY <2>1, <2>3, <1>4, <1>6
<1>7. ASSUME NEW a \in found \ missed, lg.entries[a].origin = "untrusted"
      PROVE  "untrusted_source" \in wires
  BY <1>7 DEF WireOf
<1> HIDE DEF wires, wire, unknown
<1>8. QED BY <1>5, <1>6, <1>7 DEF wire, unknown

THEOREM VerdictsEarned == OriginSpec => []VerdictsAreEarned
<1>1. Inv => VerdictsAreEarned
  <2>1. SUFFICES ASSUME Inv, NEW t \in Threads, NEW args \in Args, Current(t) # 0,
                        NEW lg, lg = heap[Current(t)]
                 PROVE  /\ WireVerdict(Wire(t, args)) = "authorized" =>
                              \A a \in Carried(args) :
                                 /\ lg.entries[a] # None
                                 /\ lg.entries[a].origin \in {"principal", "trusted"}
                        /\ (WireVerdict(Wire(t, args)) = "unresolved" /\ ~Extract(args).unknown) =>
                              \E a \in Extract(args).found : a \notin lg.seen
    BY DEF VerdictsAreEarned
  <2>2. Current(t) = bound[t] /\ bound[t] # 0
    BY <2>1, CurrentIsBound
  <2>3. Sound(lg) /\ lg \in LedgerType
    BY <2>1, <2>2 DEF Inv, Types, AllSound, Sound
  <2>4. PICK found : found = Extract(args).found
    OBVIOUS
  <2>5. /\ WireVerdict(Wire(t, args)) = "authorized" =>
              /\ ~Extract(args).unknown
              /\ \A a \in found : /\ EntryFor(lg, a) # None
                                  /\ lg.entries[a].origin # "untrusted"
        /\ WireVerdict(Wire(t, args)) = "unresolved" /\ ~Extract(args).unknown =>
              ~lg.saturated /\ \E a \in found : EntryFor(lg, a) = None
    BY <2>1, <2>3, <2>4, WireSays
  <2>6. ASSUME WireVerdict(Wire(t, args)) = "authorized", NEW a \in Carried(args)
        PROVE  lg.entries[a] # None /\ lg.entries[a].origin \in {"principal", "trusted"}
    <3>1. a \in found /\ a \in Auths
      BY <2>4, <2>5, <2>6, ExtractCovers DEF Carried
    <3>2. lg.entries[a] # None /\ lg.entries[a].origin # "untrusted"
      BY <2>5, <2>6, <3>1 DEF EntryFor
    <3>3. lg.entries[a] \in Entries
      BY <2>3, <3>1, <3>2 DEF LedgerType
    <3>4. QED BY <3>2, <3>3 DEF Entries
  <2>7. ASSUME WireVerdict(Wire(t, args)) = "unresolved", ~Extract(args).unknown
        PROVE  \E a \in found : a \notin lg.seen
    <3>1. PICK a \in found : EntryFor(lg, a) = None
      BY <2>5, <2>7
    <3>2. ~lg.saturated
      BY <2>5, <2>7
    <3>3. a \in lg.seen => a \in Auths /\ lg.entries[a] # None
      BY <2>3, <3>2 DEF Sound, Complete, LedgerType
    <3>4. QED BY <3>1, <3>3 DEF EntryFor
  <2>8. QED BY <2>4, <2>6, <2>7
<1>2. QED BY <1>1, Inductive, PTL

-----------------------------------------------------------------------------
(* Decision.                                                               *)

\* A set of numbers with a bound has a largest one.
LEMMA LargestExists ==
    ASSUME NEW S \in SUBSET Nat, S # {}, NEW most \in Nat, \A x \in S : x <= most
    PROVE  \E m \in S : \A x \in S : m >= x
<1> DEFINE below == {most - x : x \in S}
<1>1. below \in SUBSET Nat /\ below # {}
  <2>1. \A x \in S : most - x \in Nat
    OBVIOUS
  <2>2. below # {}
    OBVIOUS
  <2>3. QED BY <2>1, <2>2
<1> HIDE DEF below
<1>2. PICK low \in below : \A y \in below : low <= y
  <2>1. PICK low \in below : \A y \in below : <<y, low>> \notin OpToRel(<, Nat)
    BY <1>1, WFMin, NatLessThanWellFounded
  <2>2. \A y \in below : low <= y
    <3>1. \A y \in below : y \in Nat /\ low \in Nat
      BY <1>1
    <3>2. \A y \in below : y < low => <<y, low>> \in OpToRel(<, Nat)
      BY <3>1 DEF OpToRel
    <3>3. ASSUME NEW y \in below
          PROVE  low <= y
      <4>1. ~ (y < low)
        BY <3>2, <2>1
      <4>2. QED BY <3>1, <4>1
    <3>4. QED BY <3>3
  <2>3. QED BY <2>2
<1>3. PICK m \in S : low = most - m
  BY <1>2 DEF below
<1>4. ASSUME NEW x \in S
      PROVE  m >= x
  <2>1. most - x \in below
    BY DEF below
  <2>2. low <= most - x
    BY <2>1, <1>2
  <2>3. QED BY <2>2, <1>3
<1>5. QED BY <1>4

LEMMA MaxOfBounded ==
    ASSUME NEW most \in Nat, NEW S \in SUBSET (0..most), S # {}
    PROVE  /\ Max(S) \in S
           /\ \A x \in S : Max(S) >= x
           /\ Max(S) \in 0..most
<1>1. \E m \in S : \A x \in S : m >= x
  <2>1. S \in SUBSET Nat /\ \A x \in S : x <= most
    OBVIOUS
  <2>2. QED BY <2>1, LargestExists
<1>2. Max(S) \in S /\ \A x \in S : Max(S) >= x
  BY <1>1 DEF Max
<1>3. QED BY <1>2

\* The top of what is found is a score, at least every score found.
LEMMA TopOf ==
    ASSUME NEW found \in SUBSET AllThreats
    PROVE  /\ Top(found) \in 0..100
           /\ \A t \in found : Top(found) >= t.score
<1> DEFINE S == {0} \cup {t.score : t \in found}
<1>1. S \in SUBSET (0..100) /\ S # {}
  BY DEF AllThreats
<1>2. \A t \in found : t.score \in S
  OBVIOUS
<1> HIDE DEF S
<1>3. Max(S) \in 0..100 /\ \A x \in S : Max(S) >= x
  BY <1>1, MaxOfBounded
<1>4. Top(found) = Max(S)
  BY DEF Top, S
<1>5. QED BY <1>2, <1>3, <1>4

LEMMA L1Of ==
    ASSUME NEW found \in SUBSET AllThreats
    PROVE  /\ L1Score(found) \in 0..100
           /\ L1Score(found) >= Top(found)
<1>1. Top(found) \in 0..100
  BY TopOf
<1>2. PICK u : u = Top(found)
  OBVIOUS
<1>3. (u * 13) \div 10 >= u /\ (u * 13) \div 10 \in Nat
  BY <1>1, <1>2
<1>4. QED BY <1>1, <1>2, <1>3 DEF L1Score, MinOf

LEMMA CompositeOf ==
    ASSUME NEW l1 \in 0..100, NEW l2 \in 0..100, NEW dlp \in 0..100
    PROVE  /\ Composite(l1, l2, dlp) \in 0..100
           /\ Composite(l1, l2, dlp) >= l1
           /\ Composite(l1, l2, dlp) >= l2
           /\ Composite(l1, l2, dlp) >= dlp
<1>1. PICK base : base = Max({l1, l2, dlp})
  OBVIOUS
<1>2. base \in 0..100 /\ base >= l1 /\ base >= l2 /\ base >= dlp
  BY <1>1, MaxOfBounded, {l1, l2, dlp} \in SUBSET (0..100)
<1>3. PICK layers : layers = Cardinality({n \in 1..3 : <<l1, l2, dlp>>[n] > 0})
  OBVIOUS
<1>4. PICK two : two = IF layers >= 2 THEN MinOf(100, (base * 12) \div 10) ELSE base
  OBVIOUS
<1>5. two \in 0..100 /\ two >= base
  <2>1. (base * 12) \div 10 >= base /\ (base * 12) \div 10 \in Nat
    BY <1>2
  <2>2. QED BY <2>1, <1>2, <1>4 DEF MinOf
<1>6. PICK three : three = IF layers >= 3 THEN MinOf(100, (two * 11) \div 10) ELSE two
  OBVIOUS
<1>7. three \in 0..100 /\ three >= two
  <2>1. (two * 11) \div 10 >= two /\ (two * 11) \div 10 \in Nat
    BY <1>5
  <2>2. QED BY <2>1, <1>5, <1>6 DEF MinOf
<1>8. Composite(l1, l2, dlp) = three
  BY <1>1, <1>3, <1>4, <1>6 DEF Composite
<1>9. QED BY <1>2, <1>5, <1>7, <1>8

Stages == {"idle", "intents", "secrets", "relations", "frame", "dampen", "mention",
           "documentary", "floors", "tail", "floor", "model", "judged"}
\* The stages by what a scan has gone through: read, softened or settled.
Reading == {"idle", "intents", "secrets", "relations", "frame"}
Softening == {"mention", "documentary", "floors"}
Settled == {"tail", "floor", "model", "judged"}

ScanType == [at: Stages, direction: Directions, layers: [1..2 -> SUBSET AllThreats],
             dlp: 0..100, composed: 0..100,
             frame: {"none", "protective", "descriptive", "interrogative"},
             active: BOOLEAN, bypass: BOOLEAN, score: 0..100, capped: BOOLEAN,
             window: Nat, forced: BOOLEAN, reached: BOOLEAN, model: BOOLEAN]

\* Why a forced block cannot be softened: where it comes from before the score.
ForcedBy(s) ==
    IF ~Inbound(s)
    THEN /\ s.frame = "none"
         /\ \/ L1Score(s.layers[1]) >= Block \/ Top(s.layers[2]) >= Block
            \/ s.composed >= Block \/ s.dlp >= Block
    ELSE \/ s.dlp >= Block \/ s.bypass
         \/ s.active /\ \E n \in 1..2 : \E t \in s.layers[n] : ~Gated(t) /\ t.score >= Block
\* And after: a cap would need it gone, or the floor is still to come.
Uncappable(s) == ~Inbound(s) \/ s.dlp >= Block \/ s.active

ScanInv ==
    /\ scan \in ScanType
    /\ ~Inbound(scan) /\ scan.at \in Reading \cup {"dampen"} => scan.frame = "none"
    /\ scan.at \in Reading => ~scan.forced
    /\ scan.at \in Reading \cup {"dampen"} => ~scan.reached
    /\ scan.at # "judged" => ~scan.model
    /\ scan.at = "dampen" /\ scan.forced => ForcedBy(scan)
    /\ scan.at \in Softening /\ scan.forced =>
            scan.bypass \/ (scan.score >= Block /\ Uncappable(scan))
    /\ scan.at \in Settled /\ scan.forced => scan.score >= Block
    /\ scan.reached => scan.score >= Flag /\ (scan.score >= Block \/ scan.capped)
    /\ scan.model => scan.score = Flag

LEMMA BandCapOf == FlagBandCap \in 0..100 /\ FlagBandCap >= Flag /\ FlagBandCap <= Block
BY DetectionAssumption DEF FlagBandCap, MaxOf

LEMMA RelationScoreOf ==
    ASSUME NEW p, NEW direction
    PROVE  RelationScore(p, direction) \in 0..100
<1> DEFINE S == {0} \cup Relations(p)
<1>1. S \in SUBSET (0..65) /\ S # {}
  BY DEF Relations, Strong, Medium, Weak
<1> HIDE DEF S
<1>2. PICK top : top = Max(S)
  OBVIOUS
<1>3. top \in 0..65
  <2>1. 65 \in Nat
    OBVIOUS
  <2>2. Max(S) \in 0..65
    BY <1>1, <2>1, MaxOfBounded
  <2>3. QED BY <2>2, <1>2
<1>4. PICK score : score = IF AiDirected(p) \/ IsProtected(p) \/ "imperative" \in p
                           THEN top ELSE MinOf(top, 4)
  OBVIOUS
<1>5. score \in 0..65
  BY <1>3, <1>4 DEF MinOf
<1>6. RelationScore(p, direction) =
        IF direction = "a2a" THEN MinOf((score * 13) \div 10, 85) ELSE score
  BY <1>2, <1>4 DEF RelationScore, S
<1>7. MinOf((score * 13) \div 10, 85) \in 0..100
  <2>1. (score * 13) \div 10 \in Nat
    BY <1>5
  <2>2. QED BY <2>1 DEF MinOf
<1>8. QED BY <1>5, <1>6, <1>7

LEMMA FoundInOf ==
    ASSUME NEW direction, NEW found \in FoundIn(direction)
    PROVE  found \in SUBSET AllThreats
<1> DEFINE rules == IF direction = "output" THEN {t \in Threats : t.kind = "other"} ELSE Threats
<1>1. rules \subseteq AllThreats
  BY DetectionAssumption
<1>2. PICK n \in 0..MinOf(MaxFound, Cardinality(rules)) : found \in kSubset(n, rules)
  <2>1. FoundIn(direction) = UNION {kSubset(n, rules) : n \in 0..MinOf(MaxFound, Cardinality(rules))}
    BY Zenon DEF FoundIn
  <2> HIDE DEF rules
  <2>2. QED BY <2>1
<1>3. found \subseteq rules
  BY <1>2 DEF kSubset
<1>4. QED BY <1>1, <1>3

LEMMA NoScanTyped == NoScan \in ScanType
<1>1. <<{}, {}>> \in [1..2 -> SUBSET AllThreats]
  OBVIOUS
<1>2. QED BY <1>1 DEF NoScan, ScanType, Stages, Directions

LEMMA ScanInit == DetectionInit => ScanInv
<1> SUFFICES ASSUME DetectionInit
             PROVE  ScanInv
  OBVIOUS
<1>1. scan \in ScanType
  BY NoScanTyped DEF DetectionInit
<1>2. /\ scan.at = "idle" /\ scan.frame = "none"
      /\ scan.forced = FALSE /\ scan.reached = FALSE /\ scan.model = FALSE
  BY DEF DetectionInit, NoScan
<1>3. QED BY <1>1, <1>2 DEF ScanInv, Softening, Settled

LEMMA DegradedTyped == Degradations \subseteq AllThreats
<1>1. ASSUME NEW n \in {65, 25}
      PROVE  [kind |-> "other", score |-> n, predicate |-> FALSE] \in AllThreats
  BY DEF AllThreats, ThreatKinds
<1>2. ASSUME NEW t \in Degradations
      PROVE  t \in AllThreats
  <2>1. PICK n \in {65, 25} : t = [kind |-> "other", score |-> n, predicate |-> FALSE]
    BY DEF Degradations
  <2>2. QED BY <1>1, <2>1, Zenon
<1>3. QED BY <1>2

LEMMA ReadL1Scan ==
    ASSUME ScanInv, ReadL1
    PROVE  ScanInv'
<1>1. PICK direction \in Directions : \E found \in FoundIn(direction), degraded \in SUBSET Degradations :
          scan' = [NoScan EXCEPT !.at = "intents", !.direction = direction,
                                 !.layers[1] = found \cup degraded]
  BY DEF ReadL1, Go
<1>0. PICK found \in FoundIn(direction), degraded \in SUBSET Degradations :
          scan' = [NoScan EXCEPT !.at = "intents", !.direction = direction,
                                 !.layers[1] = found \cup degraded]
  BY <1>1
<1>2. found \cup degraded \in SUBSET AllThreats
  BY DegradedTyped, FoundInOf
<1>3. [<<{}, {}>> EXCEPT ![1] = found \cup degraded] \in [1..2 -> SUBSET AllThreats]
  BY <1>2
<1>4. scan' \in ScanType
  BY <1>0, <1>3, NoScanTyped DEF ScanType, NoScan, Stages
<1>5. /\ scan'.at = "intents" /\ scan'.frame = "none"
      /\ ~scan'.forced /\ ~scan'.reached /\ ~scan'.model
  BY <1>0 DEF NoScan
<1>6. QED BY <1>4, <1>5 DEF ScanInv, Reading, Softening, Settled

LEMMA IntentsOf ==
    ASSUME NEW found \in IntentsFound
    PROVE  found \in SUBSET AllThreats
<1> DEFINE F(held, worse) == {IF i \in worse THEN [i.threat EXCEPT !.score = i.modified] ELSE i.threat : i \in held}
<1>1. IntentsFound = UNION {{F(held, worse) : worse \in SUBSET held} : held \in SUBSET Intents}
  BY Zenon DEF IntentsFound
<1> HIDE DEF F
<1>3. PICK held \in SUBSET Intents : found \in {F(held, worse) : worse \in SUBSET held}
  BY <1>1
<1>4. PICK worse \in SUBSET held : found = F(held, worse)
  BY <1>3
<1>2. ASSUME NEW i \in held
      PROVE  /\ i.threat \in AllThreats
             /\ [i.threat EXCEPT !.score = i.modified] \in AllThreats
  <2>1. i.threat \in AllThreats /\ i.modified \in 1..100
    BY DetectionAssumption
  <2>2. QED BY <2>1 DEF AllThreats
<1>5. QED BY <1>2, <1>4 DEF F

LEMMA ReadL2Scan ==
    ASSUME ScanInv, ReadL2
    PROVE  ScanInv'
<1>1. PICK found \in IntentsFound, probe \in SUBSET {SelfReferential} :
        scan' = [scan EXCEPT !.at = "secrets",
            !.layers[2] = found \cup probe \cup CompositesOf(scan.layers[1] \cup found \cup probe)]
  BY DEF ReadL2, Go
<1>2. PICK all : all = found \cup probe \cup CompositesOf(scan.layers[1] \cup found \cup probe)
  OBVIOUS
<1>3. all \in SUBSET AllThreats
  <2>1. SelfReferential \in AllThreats
    BY DEF SelfReferential, AllThreats, ThreatKinds
  <2>2. CompositesOf(scan.layers[1] \cup found \cup probe) \subseteq AllThreats
    BY DetectionAssumption DEF CompositesOf
  <2>3. QED BY <1>2, <2>1, <2>2, IntentsOf
<1>4. scan \in ScanType /\ scan.at = "intents"
  BY DEF ScanInv, ReadL2, Stage
<1>5. scan' = [scan EXCEPT !.at = "secrets", !.layers = [@ EXCEPT ![2] = all]]
  BY <1>1, <1>2, <1>4 DEF ScanType
<1>6. [scan.layers EXCEPT ![2] = all] \in [1..2 -> SUBSET AllThreats]
  BY <1>3, <1>4 DEF ScanType
<1>7. scan' \in ScanType /\ scan'.at = "secrets"
  BY <1>4, <1>5, <1>6 DEF ScanType, Stages
<1>8. /\ scan'.frame = scan.frame /\ scan'.direction = scan.direction
      /\ scan'.forced = scan.forced /\ scan'.reached = scan.reached /\ scan'.model = scan.model
  BY <1>4, <1>5 DEF ScanType
<1>9. QED BY <1>4, <1>7, <1>8 DEF ScanInv, Reading, Softening, Settled, Inbound

LEMMA ReadSecretsScan ==
    ASSUME ScanInv, ReadSecrets
    PROVE  ScanInv'
<1>1. PICK found \in SUBSET Secrets :
        scan' = [scan EXCEPT !.at = "relations", !.dlp = Max({0} \cup found)]
  BY DEF ReadSecrets, Go
<1>2. PICK dlp : dlp = Max({0} \cup found)
  OBVIOUS
<1>3. dlp \in 0..100
  <2>1. Secrets \subseteq 1..100
    BY DetectionAssumption
  <2>2. {0} \cup found \in SUBSET (0..100)
    BY <2>1
  <2>3. QED BY <2>2, <1>2, MaxOfBounded
<1>4. scan \in ScanType /\ scan.at = "secrets"
  BY DEF ScanInv, ReadSecrets, Stage
<1>5. scan' = [scan EXCEPT !.at = "relations", !.dlp = dlp]
  BY <1>1, <1>2
<1>7. scan' \in ScanType /\ scan'.at = "relations"
  BY <1>4, <1>5, <1>3 DEF ScanType, Stages
<1>8. /\ scan'.frame = scan.frame /\ scan'.direction = scan.direction
      /\ scan'.forced = scan.forced /\ scan'.reached = scan.reached /\ scan'.model = scan.model
  BY <1>4, <1>5 DEF ScanType
<1>9. QED BY <1>4, <1>7, <1>8 DEF ScanInv, Reading, Softening, Settled, Inbound

LEMMA ReadRelationsScan ==
    ASSUME ScanInv, ReadRelations
    PROVE  ScanInv'
<1>1. PICK p \in Phrases :
        scan' = [scan EXCEPT !.at = "frame", !.composed = RelationScore(p, scan.direction)]
  BY DEF ReadRelations, Go
<1>2. PICK score : score = RelationScore(p, scan.direction)
  OBVIOUS
<1>3. score \in 0..100
  BY <1>2, RelationScoreOf
<1>4. scan \in ScanType /\ scan.at = "relations"
  BY DEF ScanInv, ReadRelations, Stage
<1>5. scan' = [scan EXCEPT !.at = "frame", !.composed = score]
  BY <1>1, <1>2
<1>7. scan' \in ScanType /\ scan'.at = "frame"
  BY <1>4, <1>5, <1>3 DEF ScanType, Stages
<1>8. /\ scan'.frame = scan.frame /\ scan'.direction = scan.direction
      /\ scan'.forced = scan.forced /\ scan'.reached = scan.reached /\ scan'.model = scan.model
  BY <1>4, <1>5 DEF ScanType
<1>9. QED BY <1>4, <1>7, <1>8 DEF ScanInv, Reading, Softening, Settled, Inbound

LEMMA ForcedOutOf ==
    ASSUME NEW s \in ScanType, ForcedOut(s)
    PROVE  \/ L1Score(s.layers[1]) >= Block \/ Top(s.layers[2]) >= Block
           \/ s.composed >= Block \/ s.dlp >= Block
<1>1. PICK S : S = {L1Score(s.layers[1]), Top(s.layers[2]), s.composed, s.dlp}
  OBVIOUS
<1>2. /\ s.layers[1] \in SUBSET AllThreats /\ s.layers[2] \in SUBSET AllThreats
      /\ s.dlp \in 0..100 /\ s.composed \in 0..100
  BY DEF ScanType
<1>3. S \in SUBSET (0..100) /\ S # {}
  BY <1>1, <1>2, L1Of, TopOf
<1>4. Max(S) \in S
  BY <1>3, MaxOfBounded
<1>5. Max(S) >= Block
  BY <1>1 DEF ForcedOut
<1>6. QED BY <1>1, <1>4, <1>5

LEMMA ReadFrameScan ==
    ASSUME ScanInv, ReadFrame
    PROVE  ScanInv'
<1>1. scan \in ScanType /\ scan.at = "frame" /\ ~scan.reached /\ ~scan.model
  BY DEF ScanInv, ReadFrame, Stage, Reading
<1>2. ASSUME ~Inbound(scan), scan' = [scan EXCEPT !.at = "dampen", !.forced = ForcedOut(scan)]
      PROVE  ScanInv'
  <2>0. ForcedOut(scan) \in BOOLEAN
    BY SMT DEF ForcedOut
  <2>1. PICK forced \in BOOLEAN : forced = ForcedOut(scan)
    BY <2>0
  <2>2. scan' = [scan EXCEPT !.at = "dampen", !.forced = forced]
    BY <1>2, <2>1
  <2>3. scan' \in ScanType /\ scan'.at = "dampen" /\ scan'.forced = forced
    BY <1>1, <2>2 DEF ScanType, Stages
  <2>4. /\ scan'.frame = scan.frame /\ scan'.direction = scan.direction
        /\ scan'.layers = scan.layers
        /\ scan'.composed = scan.composed /\ scan'.dlp = scan.dlp
        /\ scan'.reached = scan.reached /\ scan'.model = scan.model
    BY <1>1, <2>2 DEF ScanType
  <2>5. scan.frame = "none"
    BY <1>1, <1>2 DEF ScanInv, Reading
  <2>6. scan'.forced => ForcedBy(scan')
    BY <1>1, <1>2, <2>1, <2>3, <2>4, <2>5, ForcedOutOf DEF ForcedBy, Inbound
  <2>7. QED BY <1>1, <2>3, <2>4, <2>5, <2>6 DEF ScanInv, Reading, Softening, Settled, Inbound
<1>3. ASSUME Inbound(scan), NEW active \in BOOLEAN, NEW bypass \in BOOLEAN,
             NEW frame \in {"none", "protective", "descriptive", "interrogative"},
             scan' = [scan EXCEPT !.at = "dampen", !.active = active, !.bypass = bypass,
                                  !.frame = frame, !.forced = ForcedIn(scan, active, bypass)]
      PROVE  ScanInv'
  <2>1. PICK forced \in BOOLEAN : forced = ForcedIn(scan, active, bypass)
    BY DEF ForcedIn
  <2>2. scan' = [scan EXCEPT !.at = "dampen", !.active = active, !.bypass = bypass,
                             !.frame = frame, !.forced = forced]
    BY <1>3, <2>1
  <2>a. "dampen" \in Stages
    BY DEF Stages
  <2>b. [scan EXCEPT !.at = "dampen", !.active = active, !.bypass = bypass,
                     !.frame = frame, !.forced = forced] \in ScanType
    <3>1. scan \in ScanType
      BY <1>1
    <3>2. QED BY <3>1, <2>a, Zenon DEF ScanType
  <2>3. scan' \in ScanType /\ scan'.at = "dampen" /\ scan'.forced = forced
    BY <1>1, <2>2, <2>b DEF ScanType
  <2>4. /\ scan'.direction = scan.direction /\ scan'.layers = scan.layers
        /\ scan'.dlp = scan.dlp /\ scan'.active = active /\ scan'.bypass = bypass
        /\ scan'.reached = scan.reached /\ scan'.model = scan.model
    BY <1>1, <2>2 DEF ScanType
  <2>5. ASSUME forced
        PROVE  ForcedBy(scan')
    <3>1. ForcedIn(scan, active, bypass)
      BY <2>1, <2>5
    <3>2. CASE active /\ \E t \in scan.layers[1] \cup scan.layers[2] : ~Gated(t) /\ t.score >= Block
      BY <1>3, <2>4, <3>2 DEF ForcedBy, Inbound
    <3>3. CASE scan.dlp >= Block \/ bypass
      BY <1>3, <2>4, <3>3 DEF ForcedBy, Inbound
    <3>4. QED BY <3>1, <3>2, <3>3 DEF ForcedIn
  <2>6. QED BY <1>1, <1>3, <2>3, <2>4, <2>5 DEF ScanInv, Reading, Softening, Settled, Inbound
<1>4. \A veto, protects, extracts, describes, asks \in BOOLEAN :
        FrameOf(veto, protects, extracts, describes, asks)
            \in {"none", "protective", "descriptive", "interrogative"}
  BY DEF FrameOf
<1>5. \A protects, unnegated \in BOOLEAN : Bypasses(protects, unnegated) \in BOOLEAN
  BY DEF Bypasses
<1>6. CASE ~Inbound(scan)
  BY <1>2, <1>6 DEF ReadFrame, Go
<1>7. CASE Inbound(scan)
  <2>1. \E veto, protects, active, unnegated, describes, asks \in BOOLEAN :
          scan' = [scan EXCEPT
                    !.at = "dampen", !.active = active, !.bypass = Bypasses(protects, unnegated),
                    !.frame = FrameOf(veto, protects, active \/ unnegated, describes, asks),
                    !.forced = ForcedIn(scan, active, Bypasses(protects, unnegated))]
    BY <1>7, Zenon DEF ReadFrame, Go
  <2>2. PICK veto \in BOOLEAN, protects \in BOOLEAN, active \in BOOLEAN, unnegated \in BOOLEAN,
             describes \in BOOLEAN, asks \in BOOLEAN :
          scan' = [scan EXCEPT
                    !.at = "dampen", !.active = active, !.bypass = Bypasses(protects, unnegated),
                    !.frame = FrameOf(veto, protects, active \/ unnegated, describes, asks),
                    !.forced = ForcedIn(scan, active, Bypasses(protects, unnegated))]
    BY <2>1
  <2>3. (active \/ unnegated) \in BOOLEAN
    OBVIOUS
  <2>4. PICK bypass \in BOOLEAN : bypass = Bypasses(protects, unnegated)
    BY <1>5
  <2>5. PICK frame \in {"none", "protective", "descriptive", "interrogative"} :
            frame = FrameOf(veto, protects, active \/ unnegated, describes, asks)
    BY <1>4, <2>3
  <2>6. scan' = [scan EXCEPT !.at = "dampen", !.active = active, !.bypass = bypass,
                             !.frame = frame, !.forced = ForcedIn(scan, active, bypass)]
    BY <2>2, <2>4, <2>5
  <2>7. QED BY <1>3, <1>7, <2>6
<1>8. QED BY <1>6, <1>7

\* What a frame leaves of the scores is at least what must stand.
LEMMA DampenedOf ==
    ASSUME NEW s \in ScanType, NEW residue
    PROVE  /\ Dampened(s, residue) \in ScanType
           /\ \A f \in {"at", "direction", "dlp", "active", "bypass", "forced", "reached", "model", "capped"} :
                  Dampened(s, residue)[f] = s[f]
           /\ ForcedBy(s) => \/ s.bypass
                             \/ Dampened(s, residue).score >= Block /\ Uncappable(s)
<1> DEFINE kept == [n \in 1..2 |-> {t \in s.layers[n] : ~Gated(t)}]
           all == s.layers[1] \cup s.layers[2]
           disarmed == s.frame # "protective" /\ CarriesCommand(all, FALSE, residue)
           whole == MaxOf(s.composed, Composite(L1Score(s.layers[1]), Top(s.layers[2]), s.dlp))
           left == Composite(Top(kept[1]), Top(kept[2]), s.dlp)
<1>1. /\ s.layers[1] \in SUBSET AllThreats /\ s.layers[2] \in SUBSET AllThreats
      /\ s.dlp \in 0..100 /\ s.composed \in 0..100
  BY DEF ScanType
<1>2. PICK a : a = L1Score(s.layers[1])
  OBVIOUS
<1>3. PICK b : b = Top(s.layers[2])
  OBVIOUS
<1>4. a \in 0..100 /\ b \in 0..100 /\ a >= Top(s.layers[1])
  BY <1>1, <1>2, <1>3, L1Of, TopOf
<1>5. /\ whole \in 0..100 /\ whole >= a /\ whole >= b /\ whole >= s.dlp /\ whole >= s.composed
  <2>1. PICK c : c = Composite(a, b, s.dlp)
    OBVIOUS
  <2>2. c \in 0..100 /\ c >= a /\ c >= b /\ c >= s.dlp
    BY <2>1, <1>1, <1>4, CompositeOf
  <2>3. whole = MaxOf(s.composed, c)
    BY <2>1, <1>2, <1>3
  <2> HIDE DEF whole
  <2>4. QED BY <2>2, <2>3, <1>1, <1>4 DEF MaxOf
<1>6. kept \in [1..2 -> SUBSET AllThreats]
  BY <1>1
<1>7. /\ left \in 0..100 /\ left >= Top(kept[1]) /\ left >= Top(kept[2]) /\ left >= s.dlp
  <2>1. kept[1] \in SUBSET AllThreats /\ kept[2] \in SUBSET AllThreats
    BY <1>6
  <2>2. PICK c : c = Top(kept[1])
    OBVIOUS
  <2>3. PICK d : d = Top(kept[2])
    OBVIOUS
  <2>4. c \in 0..100 /\ d \in 0..100
    BY <2>1, <2>2, <2>3, TopOf
  <2>5. QED BY <2>2, <2>3, <2>4, <1>1, CompositeOf
<1>8. \A n \in 1..2 : \A t \in s.layers[n] : ~Gated(t) => left >= t.score /\ whole >= t.score
  <2> SUFFICES ASSUME NEW n \in 1..2, NEW t \in s.layers[n], ~Gated(t)
               PROVE  left >= t.score /\ whole >= t.score
    OBVIOUS
  <2>1. t.score \in Nat /\ kept[n] \in SUBSET AllThreats /\ t \in kept[n]
    BY <1>1, <1>6 DEF AllThreats, ScanType
  <2>2. Top(kept[n]) >= t.score /\ Top(kept[n]) \in Nat
    BY <2>1, TopOf
  <2>3. Top(s.layers[n]) >= t.score /\ Top(s.layers[n]) \in Nat
    BY <1>1, TopOf DEF ScanType
  <2>4. left >= Top(kept[n])
    <3> HIDE DEF left, kept
    <3>1. CASE n = 1
      BY <1>7, <3>1
    <3>2. CASE n = 2
      BY <1>7, <3>2
    <3>3. QED BY <3>1, <3>2
  <2>5. whole >= Top(s.layers[n])
    <3>1. CASE n = 1
      BY <3>1, <1>4, <1>5, <2>3
    <3>2. CASE n = 2
      BY <3>2, <1>3, <1>5
    <3>3. QED BY <3>1, <3>2
  <2> HIDE DEF left, whole, kept
  <2>6. QED BY <2>1, <2>2, <2>3, <2>4, <2>5, <1>5, <1>7
<1>9. Dampened(s, residue) =
        IF s.frame = "none" \/ disarmed THEN [s EXCEPT !.score = whole]
        ELSE [s EXCEPT !.layers = kept, !.composed = 0, !.score = left]
  BY DEF Dampened
<1> HIDE DEF whole, left, kept, disarmed
<1>10. Dampened(s, residue) \in ScanType
  <2>1. [s EXCEPT !.score = whole] \in ScanType
    BY <1>5 DEF ScanType
  <2>2. [s EXCEPT !.layers = kept, !.composed = 0, !.score = left] \in ScanType
    <3>1. left \in 0..100 /\ 0 \in 0..100
      BY <1>7
    <3>2. QED BY <1>6, <3>1, Zenon DEF ScanType
  <2>3. QED BY <2>1, <2>2, <1>9
<1>11. \A f \in {"at", "direction", "dlp", "active", "bypass", "forced", "reached", "model", "capped"} :
                  Dampened(s, residue)[f] = s[f]
  BY <1>9 DEF ScanType
<1>12. Dampened(s, residue).score \in {whole, left}
  BY <1>9 DEF ScanType
<1>13. ~Inbound(s) /\ s.frame = "none" => Dampened(s, residue).score = whole
  BY <1>9 DEF ScanType
<1>14. ASSUME ForcedBy(s)
       PROVE  s.bypass \/ (Dampened(s, residue).score >= Block /\ Uncappable(s))
  <2>1. Block \in Nat
    BY DetectionAssumption
  <2>2. CASE ~Inbound(s)
    BY <1>14, <2>1, <2>2, <1>1, <1>2, <1>3, <1>4, <1>5, <1>13 DEF ForcedBy, Uncappable
  <2>3. CASE Inbound(s) /\ s.dlp >= Block
    BY <2>1, <2>3, <1>1, <1>5, <1>7, <1>12 DEF Uncappable
  <2>4. CASE Inbound(s) /\ s.active /\ \E n \in 1..2 : \E t \in s.layers[n] : ~Gated(t) /\ t.score >= Block
    <3>0. PICK n \in 1..2 : \E t \in s.layers[n] : ~Gated(t) /\ t.score >= Block
      BY <2>4
    <3>1. PICK t \in s.layers[n] : ~Gated(t) /\ t.score >= Block
      BY <3>0
    <3>2. t.score \in Nat
      BY <3>1, <1>1 DEF AllThreats, ScanType
    <3>3. QED BY <2>1, <2>4, <3>1, <3>2, <1>5, <1>7, <1>8, <1>12 DEF Uncappable
  <2>5. QED BY <1>14, <2>2, <2>3, <2>4 DEF ForcedBy
<1>15. QED BY <1>10, <1>11, <1>14

LEMMA DampenScan ==
    ASSUME ScanInv, Dampen
    PROVE  ScanInv'
<1>1. scan \in ScanType /\ scan.at = "dampen" /\ ~scan.model
  BY DEF ScanInv, Dampen, Stage
<1>2. PICK residue : LET s == Dampened(scan, residue)
                     IN  scan' = [s EXCEPT !.at = "mention", !.reached = s.score >= Block]
  BY DEF Dampen, Go
<1>3. PICK s : s = Dampened(scan, residue)
  OBVIOUS
<1>4. s \in ScanType
  BY <1>1, <1>3, DampenedOf
<1>5. /\ s.direction = scan.direction /\ s.dlp = scan.dlp /\ s.active = scan.active
      /\ s.bypass = scan.bypass /\ s.forced = scan.forced /\ s.model = scan.model
  BY <1>1, <1>3, DampenedOf
<1>6. PICK reached \in BOOLEAN : reached = (s.score >= Block)
  <2>1. (s.score >= Block) \in BOOLEAN
    BY SMT
  <2>2. QED BY <2>1
<1>7. scan' = [s EXCEPT !.at = "mention", !.reached = reached]
  BY <1>2, <1>3, <1>6
<1>8. [s EXCEPT !.at = "mention", !.reached = reached] \in ScanType
  <2>1. "mention" \in Stages
    BY DEF Stages
  <2>2. QED BY <1>4, <2>1, Zenon DEF ScanType
<1>9. /\ scan' \in ScanType /\ scan'.at = "mention" /\ scan'.reached = reached
      /\ scan'.direction = s.direction /\ scan'.dlp = s.dlp /\ scan'.active = s.active
      /\ scan'.bypass = s.bypass /\ scan'.forced = s.forced /\ scan'.model = s.model
      /\ scan'.score = s.score
  BY <1>4, <1>7, <1>8 DEF ScanType
<1>10. scan.forced => scan.bypass \/ (s.score >= Block /\ Uncappable(scan))
  BY <1>1, <1>3, DampenedOf DEF ScanInv
<1>11. scan'.reached => scan'.score >= Flag /\ scan'.score >= Block
  <2>1. s.score \in Nat /\ Flag \in Nat /\ Block \in Nat /\ Flag < Block
    BY <1>4, DetectionAssumption DEF ScanType
  <2>2. reached => s.score >= Block
    BY <1>6, Zenon
  <2>3. s.score >= Block => s.score >= Flag
    BY <2>1
  <2>4. QED BY <1>9, <2>2, <2>3, Zenon
<1>12. scan'.forced => scan'.bypass \/ (scan'.score >= Block /\ Uncappable(scan'))
  BY <1>5, <1>9, <1>10 DEF Uncappable, Inbound
<1>13. QED BY <1>1, <1>5, <1>9, <1>11, <1>12 DEF ScanInv, Reading, Softening, Settled

\* What a cap does to a scan it may touch: nothing that was forced, and
\* what it lowers stays in the flag band and is marked.
LEMMA CapOf ==
    ASSUME NEW s \in ScanType, Cappable(s), Flag \in 1..100, Block \in 1..100
    PROVE  /\ Capped(s) \in ScanType
           /\ ~Uncappable(s)
           /\ Capped(s).score >= Flag /\ Capped(s).capped
           /\ \A f \in {"at", "direction", "dlp", "active", "bypass", "forced", "reached", "model"} :
                  Capped(s)[f] = s[f]
<1>1. s.score \in 0..100 /\ s.score >= Block /\ FlagBandCap \in 0..100 /\ FlagBandCap >= Flag
  BY BandCapOf DEF Cappable, ScanType
<1>2. PICK score : score = MinOf(s.score, FlagBandCap)
  OBVIOUS
<1>3. score \in 0..100 /\ score >= Flag
  <2>1. Flag < Block
    BY DetectionAssumption
  <2>2. QED BY <1>1, <1>2, <2>1 DEF MinOf
<1>4. Capped(s) = [s EXCEPT !.score = score, !.capped = TRUE]
  BY <1>2 DEF Capped
<1>5. [s EXCEPT !.score = score, !.capped = TRUE] \in ScanType
  BY <1>3, Zenon DEF ScanType
<1>6. Capped(s).score = score /\ Capped(s).capped
  BY <1>4 DEF ScanType
<1>7. \A f \in {"at", "direction", "dlp", "active", "bypass", "forced", "reached", "model"} :
        Capped(s)[f] = s[f]
  BY <1>4 DEF ScanType
<1>8. ~Uncappable(s)
  <2>1. s.dlp \in Nat
    BY DEF ScanType
  <2>2. QED BY <2>1 DEF Cappable, Uncappable
<1>9. QED BY <1>3, <1>4, <1>5, <1>6, <1>7, <1>8

LEMMA MentionCapScan ==
    ASSUME ScanInv, MentionCap
    PROVE  ScanInv'
<1>1. scan \in ScanType /\ scan.at = "mention" /\ ~scan.model
  BY DEF ScanInv, MentionCap, Stage
<1>2. Flag \in 1..100 /\ Block \in 1..100
  BY DetectionAssumption
<1>3. PICK mention \in BOOLEAN :
        /\ mention => Mentions(scan)
        /\ scan' = [IF mention THEN Capped(scan) ELSE scan EXCEPT !.at = "documentary"]
  BY DEF MentionCap, Go
<1>4. PICK s : s = IF mention THEN Capped(scan) ELSE scan
  OBVIOUS
<1>5. mention => Cappable(scan)
  BY <1>3 DEF Mentions
<1>6. s \in ScanType
  BY <1>1, <1>2, <1>4, <1>5, CapOf
<1>7. scan' = [s EXCEPT !.at = "documentary"]
  BY <1>3, <1>4
<1>8. /\ scan' \in ScanType /\ scan'.at = "documentary"
      /\ scan'.direction = s.direction /\ scan'.dlp = s.dlp /\ scan'.active = s.active
      /\ scan'.bypass = s.bypass /\ scan'.forced = s.forced /\ scan'.model = s.model
      /\ scan'.score = s.score /\ scan'.reached = s.reached /\ scan'.capped = s.capped
  BY <1>6, <1>7 DEF ScanType, Stages
<1>9. CASE ~mention
  BY <1>1, <1>4, <1>8, <1>9 DEF ScanInv, Reading, Softening, Settled, Uncappable, Inbound
<1>10. CASE mention
  <2>1. /\ ~Uncappable(scan) /\ s.score >= Flag /\ s.capped
        /\ s.direction = scan.direction /\ s.dlp = scan.dlp /\ s.active = scan.active
        /\ s.bypass = scan.bypass /\ s.forced = scan.forced /\ s.model = scan.model
    BY <1>1, <1>2, <1>4, <1>5, <1>10, CapOf
  <2>2. scan.forced => scan.bypass
    BY <1>1, <2>1 DEF ScanInv, Softening
  <2>3. QED BY <1>1, <1>8, <2>1, <2>2 DEF ScanInv, Reading, Softening, Settled
<1>11. QED BY <1>9, <1>10

LEMMA DocumentaryCapScan ==
    ASSUME ScanInv, DocumentaryCap
    PROVE  ScanInv'
<1>1. scan \in ScanType /\ scan.at = "documentary" /\ ~scan.model
  BY DEF ScanInv, DocumentaryCap, Stage
<1>2. Flag \in 1..100 /\ Block \in 1..100
  BY DetectionAssumption
<1>3. PICK mention \in BOOLEAN :
        /\ mention => IsDocumentary(scan)
        /\ scan' = [IF mention THEN Capped(scan) ELSE scan EXCEPT
                        !.at = "floors", !.layers = <<{}, {}>>, !.composed = 0]
  BY DEF DocumentaryCap, Go
<1>4. PICK s : s = IF mention THEN Capped(scan) ELSE scan
  OBVIOUS
<1>5. mention => Cappable(scan)
  BY <1>3 DEF IsDocumentary
<1>6. s \in ScanType
  BY <1>1, <1>2, <1>4, <1>5, CapOf
<1>7. scan' = [s EXCEPT !.at = "floors", !.layers = <<{}, {}>>, !.composed = 0]
  BY <1>3, <1>4
<1>8. /\ scan' \in ScanType /\ scan'.at = "floors"
      /\ scan'.direction = s.direction /\ scan'.dlp = s.dlp /\ scan'.active = s.active
      /\ scan'.bypass = s.bypass /\ scan'.forced = s.forced /\ scan'.model = s.model
      /\ scan'.score = s.score /\ scan'.reached = s.reached /\ scan'.capped = s.capped
  <2>1. /\ <<{}, {}>> \in [1..2 -> SUBSET AllThreats]
        /\ "floors" \in Stages
        /\ 0 \in 0..100
    BY DEF Stages
  <2>2. [s EXCEPT !.at = "floors", !.layers = <<{}, {}>>, !.composed = 0] \in ScanType
    BY <1>6, <2>1, Zenon DEF ScanType
  <2>3. QED BY <1>6, <1>7, <2>2 DEF ScanType
<1>9. CASE ~mention
  BY <1>1, <1>4, <1>8, <1>9 DEF ScanInv, Reading, Softening, Settled, Uncappable, Inbound
<1>10. CASE mention
  <2>1. /\ ~Uncappable(scan) /\ s.score >= Flag /\ s.capped
        /\ s.direction = scan.direction /\ s.dlp = scan.dlp /\ s.active = scan.active
        /\ s.bypass = scan.bypass /\ s.forced = scan.forced /\ s.model = scan.model
    BY <1>1, <1>2, <1>4, <1>5, <1>10, CapOf
  <2>2. scan.forced => scan.bypass
    BY <1>1, <2>1 DEF ScanInv, Softening
  <2>3. QED BY <1>1, <1>8, <2>1, <2>2 DEF ScanInv, Reading, Softening, Settled
<1>11. QED BY <1>9, <1>10

LEMMA UrlDangerOf ==
    ASSUME NEW found \in Found
    PROVE  UrlDanger(found) \in 0..100
<1>1. found \in SUBSET AllThreats
  BY FoundInOf DEF Found
<1>2. {t \in found : t.kind # "other" \/ t.score >= 90} \in SUBSET AllThreats
  BY <1>1
<1>3. QED BY <1>2, TopOf DEF UrlDanger

LEMMA FloorsScan ==
    ASSUME ScanInv, Floors
    PROVE  ScanInv'
<1>1. scan \in ScanType /\ scan.at = "floors" /\ ~scan.model
  BY DEF ScanInv, Floors, Stage
<1> DEFINE floor(holds, score) == IF holds THEN MaxOf(Block, score) ELSE 0
           enc(blobs) == Inbound(scan) /\ Encoded(blobs)
           url(decoded) == IF Inbound(scan) THEN UrlDanger(decoded) ELSE 0
           new(blobs, decoded) == Max({scan.score, floor(scan.bypass, 85),
                                       floor(enc(blobs), 75), url(decoded)})
<1>2. PICK blobs \in SUBSET {"before", "after", "apart"} : \E decoded \in Found, oversized \in BOOLEAN :
        scan' = [scan EXCEPT
                !.score = new(blobs, decoded), !.forced = scan.forced \/ enc(blobs),
                !.window = IF oversized THEN 1 ELSE 0, !.dlp = 0,
                !.frame = "none", !.active = FALSE, !.bypass = FALSE,
                !.at = IF oversized THEN "tail" ELSE "model"]
  BY <1>1 DEF Floors, Go, ScanType
<1>3. PICK decoded \in Found : \E oversized \in BOOLEAN :
        scan' = [scan EXCEPT
                !.score = new(blobs, decoded), !.forced = scan.forced \/ enc(blobs),
                !.window = IF oversized THEN 1 ELSE 0, !.dlp = 0,
                !.frame = "none", !.active = FALSE, !.bypass = FALSE,
                !.at = IF oversized THEN "tail" ELSE "model"]
  BY <1>2
<1>4. PICK window \in Nat, at \in {"tail", "model"} :
        scan' = [scan EXCEPT
                !.score = new(blobs, decoded), !.forced = scan.forced \/ enc(blobs),
                !.window = window, !.dlp = 0,
                !.frame = "none", !.active = FALSE, !.bypass = FALSE, !.at = at]
  <2>1. PICK oversized \in BOOLEAN :
        scan' = [scan EXCEPT
                !.score = new(blobs, decoded), !.forced = scan.forced \/ enc(blobs),
                !.window = IF oversized THEN 1 ELSE 0, !.dlp = 0,
                !.frame = "none", !.active = FALSE, !.bypass = FALSE,
                !.at = IF oversized THEN "tail" ELSE "model"]
    BY <1>3
  <2> HIDE DEF new, enc
  <2>2. CASE oversized
    <3>1. scan' = [scan EXCEPT
                !.score = new(blobs, decoded), !.forced = scan.forced \/ enc(blobs),
                !.window = 1, !.dlp = 0,
                !.frame = "none", !.active = FALSE, !.bypass = FALSE, !.at = "tail"]
      BY <2>1, <2>2
    <3>2. QED BY <3>1
  <2>3. CASE ~oversized
    <3>1. scan' = [scan EXCEPT
                !.score = new(blobs, decoded), !.forced = scan.forced \/ enc(blobs),
                !.window = 0, !.dlp = 0,
                !.frame = "none", !.active = FALSE, !.bypass = FALSE, !.at = "model"]
      BY <2>1, <2>3
    <3>2. QED BY <3>1
  <2>4. QED BY <2>2, <2>3
<1>5. PICK a : a = floor(scan.bypass, 85)
  OBVIOUS
<1>6. PICK b : b = floor(enc(blobs), 75)
  OBVIOUS
<1>7. PICK c : c = url(decoded)
  OBVIOUS
<1>8. Block \in 1..100 /\ Flag \in 1..100
  BY DetectionAssumption
<1>9. /\ a \in 0..100 /\ (scan.bypass => a >= Block)
      /\ b \in 0..100 /\ (enc(blobs) => b >= Block)
      /\ c \in 0..100 /\ scan.score \in 0..100
  <2>1. a \in 0..100 /\ (scan.bypass => a >= Block)
    BY <1>5, <1>8 DEF MaxOf
  <2>2. b \in 0..100 /\ (enc(blobs) => b >= Block)
    BY <1>6, <1>8 DEF MaxOf
  <2>3. c \in 0..100
    BY <1>7, UrlDangerOf
  <2>4. QED BY <1>1, <2>1, <2>2, <2>3 DEF ScanType
<1>10. PICK score : score = Max({scan.score, a, b, c})
  OBVIOUS
<1>11. score \in 0..100 /\ score >= scan.score /\ score >= a /\ score >= b
  <2>1. {scan.score, a, b, c} \in SUBSET (0..100)
    BY <1>9
  <2>2. QED BY <2>1, <1>10, MaxOfBounded
<1>12. PICK forced \in BOOLEAN : forced = (scan.forced \/ enc(blobs))
  OBVIOUS
<1>13. scan' = [scan EXCEPT
                !.score = score, !.forced = forced, !.window = window, !.dlp = 0,
                !.frame = "none", !.active = FALSE, !.bypass = FALSE, !.at = at]
  BY <1>4, <1>5, <1>6, <1>7, <1>10, <1>12
<1>14. [scan EXCEPT !.score = score, !.forced = forced, !.window = window, !.dlp = 0,
                    !.frame = "none", !.active = FALSE, !.bypass = FALSE, !.at = at] \in ScanType
  <2>1. at \in Stages /\ 0 \in 0..100
    BY DEF Stages
  <2>2. QED BY <1>1, <1>11, <2>1, Zenon DEF ScanType
<1>15. /\ scan' \in ScanType /\ scan'.at = at /\ scan'.score = score /\ scan'.forced = forced
       /\ scan'.reached = scan.reached /\ scan'.capped = scan.capped /\ scan'.model = scan.model
  BY <1>1, <1>13, <1>14 DEF ScanType
<1> HIDE DEF enc
<1>16. forced => score >= Block
  <2>1. CASE enc(blobs)
    BY <1>8, <1>9, <1>11, <2>1
  <2>2. CASE scan.forced /\ scan.bypass
    BY <1>8, <1>9, <1>11, <2>2
  <2>3. CASE scan.forced /\ scan.score >= Block
    BY <1>8, <1>9, <1>11, <2>3
  <2>4. QED BY <1>1, <1>12, <2>1, <2>2, <2>3 DEF ScanInv, Softening
<1>17. scan'.reached => score >= Flag /\ (score >= Block \/ scan.capped)
  <2>1. scan.reached => scan.score >= Flag /\ (scan.score >= Block \/ scan.capped)
    BY DEF ScanInv
  <2>2. QED BY <2>1, <1>8, <1>9, <1>11, <1>15
<1>18. QED BY <1>1, <1>15, <1>16, <1>17 DEF ScanInv, Reading, Softening, Settled

\* What only raises the score keeps what was earned.
LEMMA RaisedScan ==
    ASSUME ScanInv, scan.at \in {"tail", "floor"}, scan' \in ScanType,
           scan'.at \in Settled \ {"judged"}, scan'.score >= scan.score,
           scan'.forced => scan.forced \/ scan'.score >= Block,
           scan'.reached = scan.reached, scan'.capped = scan.capped, scan'.model = scan.model
    PROVE  ScanInv'
<1>1. /\ scan.score \in Nat /\ scan'.score \in Nat /\ Block \in Nat /\ Flag \in Nat
      /\ scan \in ScanType
  BY DetectionAssumption DEF ScanInv, ScanType
<1>2. scan'.forced => scan'.score >= Block
  BY <1>1 DEF ScanInv, Settled
<1>3. scan'.reached => scan'.score >= Flag /\ (scan'.score >= Block \/ scan'.capped)
  BY <1>1 DEF ScanInv
<1>4. ~scan'.model
  BY DEF ScanInv
<1>5. QED BY <1>2, <1>3, <1>4 DEF ScanInv, Reading, Softening, Settled

LEMMA WindowScan ==
    ASSUME ScanInv, Window
    PROVE  ScanInv'
<1>1. scan \in ScanType /\ scan.at = "tail"
  BY DEF ScanInv, Window, Stage
<1>2. PICK found \in Dangers : \E ends \in BOOLEAN :
        scan' = [scan EXCEPT !.score = MaxOf(scan.score, found), !.window = scan.window + 1,
                        !.forced = scan.forced \/ found >= Block,
                        !.at = IF ends THEN "floor" ELSE "tail"]
  BY <1>1 DEF Window, Go, ScanType
<1>3. PICK at \in {"tail", "floor"} :
        scan' = [scan EXCEPT !.score = MaxOf(scan.score, found), !.window = scan.window + 1,
                        !.forced = scan.forced \/ found >= Block, !.at = at]
  BY <1>2
<1>4. PICK score : score = MaxOf(scan.score, found)
  OBVIOUS
<1>5. /\ found \in 0..100 /\ score \in 0..100 /\ score >= scan.score /\ score >= found
      /\ scan.window + 1 \in Nat
  <2>1. found \in 0..100
    BY DetectionAssumption
  <2>2. scan.score \in 0..100 /\ scan.window \in Nat
    BY <1>1 DEF ScanType
  <2>3. QED BY <1>4, <2>1, <2>2 DEF MaxOf
<1>6. PICK forced \in BOOLEAN : forced = (scan.forced \/ found >= Block)
  <2>1. (found >= Block) \in BOOLEAN
    BY SMT
  <2>2. QED BY <2>1
<1>7. PICK window \in Nat : window = scan.window + 1
  BY <1>5
<1>8. scan' = [scan EXCEPT !.score = score, !.window = window, !.forced = forced, !.at = at]
  BY <1>3, <1>4, <1>6, <1>7
<1>9. [scan EXCEPT !.score = score, !.window = window, !.forced = forced, !.at = at] \in ScanType
  <2>1. at \in Stages
    BY DEF Stages
  <2>2. QED BY <1>1, <1>5, <2>1, Zenon DEF ScanType
<1>10. /\ scan' \in ScanType /\ scan'.at = at /\ scan'.score = score /\ scan'.forced = forced
       /\ scan'.reached = scan.reached /\ scan'.capped = scan.capped /\ scan'.model = scan.model
  BY <1>1, <1>8, <1>9 DEF ScanType
<1>11. forced => scan.forced \/ score >= Block
  <2>1. Block \in Nat /\ score \in Nat /\ found \in Nat
    <3>1. Block \in Nat
      BY DetectionAssumption
    <3>2. QED BY <1>5, <3>1
  <2>2. CASE scan.forced
    BY <2>2
  <2>3. CASE ~scan.forced
    <3>1. forced => found >= Block
      BY <1>6, <2>3, Zenon
    <3>2. found >= Block => score >= Block
      BY <2>1, <1>5
    <3>3. QED BY <3>1, <3>2, Zenon
  <2>4. QED BY <2>2, <2>3
<1>12. at \in Settled \ {"judged"}
  BY DEF Settled
<1>13. QED BY <1>1, <1>5, <1>10, <1>11, <1>12, RaisedScan

LEMMA TailUnreadScan ==
    ASSUME ScanInv, TailUnread
    PROVE  ScanInv'
<1>1. scan \in ScanType /\ scan.at = "tail"
  BY DEF ScanInv, TailUnread, Stage
<1>2. PICK score : score = MaxOf(scan.score, 25)
  OBVIOUS
<1>3. score \in 0..100 /\ score >= scan.score
  BY <1>1, <1>2 DEF MaxOf, ScanType
<1>4. scan' = [scan EXCEPT !.score = score, !.at = "floor"]
  BY <1>1, <1>2 DEF TailUnread, Go, ScanType
<1>5. /\ scan' \in ScanType /\ scan'.at = "floor" /\ scan'.score = score /\ scan'.forced = scan.forced
      /\ scan'.reached = scan.reached /\ scan'.capped = scan.capped /\ scan'.model = scan.model
  BY <1>1, <1>3, <1>4 DEF ScanType, Stages
<1>6. scan'.at \in Settled \ {"judged"}
  BY <1>5 DEF Settled
<1>7. QED BY <1>1, <1>3, <1>5, <1>6, RaisedScan

LEMMA OversizeFloorScan ==
    ASSUME ScanInv, OversizeFloor
    PROVE  ScanInv'
<1>1. scan \in ScanType /\ scan.at = "floor"
  BY DEF ScanInv, OversizeFloor, Stage
<1>2. PICK score : score = MaxOf(scan.score, Flag)
  OBVIOUS
<1>3. score \in 0..100 /\ score >= scan.score
  <2>1. Flag \in 1..100
    BY DetectionAssumption
  <2>2. scan.score \in 0..100
    BY <1>1 DEF ScanType
  <2>3. QED BY <1>2, <2>1, <2>2 DEF MaxOf
<1>4. scan' = [scan EXCEPT !.score = score, !.at = "model", !.window = 0]
  BY <1>1, <1>2 DEF OversizeFloor, Go, ScanType
<1>5. /\ scan' \in ScanType /\ scan'.at = "model" /\ scan'.score = score /\ scan'.forced = scan.forced
      /\ scan'.reached = scan.reached /\ scan'.capped = scan.capped /\ scan'.model = scan.model
  BY <1>1, <1>3, <1>4 DEF ScanType, Stages
<1>6. scan'.at \in Settled \ {"judged"}
  BY <1>5 DEF Settled
<1>7. QED BY <1>1, <1>3, <1>5, <1>6, RaisedScan

LEMMA NanoScan ==
    ASSUME ScanInv, Nano
    PROVE  ScanInv'
<1>1. scan \in ScanType /\ scan.at = "model" /\ ~scan.model
  BY DEF ScanInv, Nano, Stage
<1>2. PICK p \in Probabilities, words \in BOOLEAN :
        LET fires == Heard(scan, words) /\ Remapped(p) >= Flag
        IN  scan' = [scan EXCEPT !.score = IF fires THEN Flag ELSE @,
                                 !.model = fires, !.at = "judged"]
  BY DEF Nano, Go
<1>3. PICK fires \in BOOLEAN : fires = (Heard(scan, words) /\ Remapped(p) >= Flag)
  OBVIOUS
<1>4. PICK score : score = IF fires THEN Flag ELSE scan.score
  OBVIOUS
<1>5. scan' = [scan EXCEPT !.score = score, !.model = fires, !.at = "judged"]
  BY <1>1, <1>2, <1>3, <1>4 DEF ScanType
<1>6. score \in 0..100 /\ Flag \in 1..100 /\ Block \in 1..100 /\ scan.score \in Nat
  BY <1>1, <1>4, DetectionAssumption DEF ScanType
<1>7. [scan EXCEPT !.score = score, !.model = fires, !.at = "judged"] \in ScanType
  <2>1. "judged" \in Stages
    BY DEF Stages
  <2>2. QED BY <1>1, <1>6, <2>1, Zenon DEF ScanType
<1>8. /\ scan' \in ScanType /\ scan'.at = "judged" /\ scan'.score = score /\ scan'.model = fires
      /\ scan'.forced = scan.forced /\ scan'.reached = scan.reached /\ scan'.capped = scan.capped
  BY <1>1, <1>5, <1>7 DEF ScanType
<1>9. fires => scan.score = 0
  BY <1>3 DEF Heard
<1>10. fires => ~scan.forced /\ ~scan.reached
  BY <1>1, <1>6, <1>9 DEF ScanInv, Settled
<1>11. QED BY <1>1, <1>4, <1>8, <1>10 DEF ScanInv, Reading, Softening, Settled

LEMMA ScanStep ==
    ASSUME ScanInv, DetectionNext
    PROVE  ScanInv'
<1>1. CASE Answer
  <2>1. scan' = NoScan
    BY <1>1 DEF Answer, Go
  <2>2. QED BY <2>1, NoScanTyped DEF ScanInv, NoScan, Inbound, Reading, Softening, Settled
<1>2. QED BY <1>1, ReadL1Scan, ReadL2Scan, ReadSecretsScan, ReadRelationsScan, ReadFrameScan,
             DampenScan, MentionCapScan, DocumentaryCapScan, FloorsScan, WindowScan,
             TailUnreadScan, OversizeFloorScan, NanoScan DEF DetectionNext

LEMMA Judged == ScanInv => ForcedVerdictsStand
<1> SUFFICES ASSUME ScanInv, Stage("judged")
             PROVE  /\ scan.forced => Verdict(scan) = "block"
                    /\ scan.reached => Verdict(scan) # "allow" /\ ~Escalates(scan)
                    /\ scan.model => Verdict(scan) = "flag"
  BY DEF ForcedVerdictsStand
<1>1. scan.score \in Nat /\ Flag \in Nat /\ Block \in Nat /\ Flag < Block
  BY DetectionAssumption DEF ScanInv, ScanType
<1>2. QED BY <1>1 DEF ScanInv, Settled, Stage, Verdict, Escalates

\* What must stand stands, whatever frames, caps, floors and models do.
THEOREM SofteningIsBounded == Spec => []ForcedVerdictsStand
<1>1. Init => ScanInv
  BY ScanInit DEF Init
<1>2. ScanInv /\ [Next]_vars => ScanInv'
  <2>1. ASSUME ScanInv, scan' = scan
        PROVE  ScanInv'
    BY <2>1 DEF ScanInv, ScanType, Inbound, ForcedBy, Uncappable
  <2>2. ASSUME ScanInv, Next
        PROVE  ScanInv' 
    <3>1. scan' = scan \/ DetectionNext
      BY <2>2 DEF Next, Begin, WriteSegment, Overrun, WriteUrl, Crowd, Nest, NameAKey, Writing,
                  Term, AndTerm, Not, WriteClause, EndStatement, ClassifyCall, SetPolicy,
                  ClearPolicy, Decide, Decided, ScanText
    <3>2. QED BY <2>1, <2>2, <3>1, ScanStep
  <2>3. QED BY <2>1, <2>2 DEF vars
<1>3. QED BY <1>1, <1>2, Judged, PTL DEF Spec

-----------------------------------------------------------------------------
(* The policy.                                                             *)

\* Of an accepted rule nothing is skipped: it fires when all that is written
\* in it holds.
LEMMA AcceptedReads ==
    ASSUME NEW rule, RuleAccepted(rule, Extensions), NEW r
    PROVE  RuleMatches(rule, r) <=> HoldsAsWritten(rule, r)
<1>1. Extensions \subseteq {"trust", "custom"}
  BY DecisionAssumption
<1>2. PICK fields : fields = DOMAIN rule.match.of
  OBVIOUS
<1>3. PICK conditions : conditions = DOMAIN rule.conditions.of
  OBVIOUS
<1>4. /\ conditions \subseteq {"tier", "trust", "custom"}
      /\ \A f \in fields : rule.match.of[f].form = "patterns"
      /\ \A c \in conditions \cap {"tier", "trust"} : rule.conditions.of[c].form = "number"
      /\ fields \cup conditions # {}
  BY <1>1, <1>2, <1>3 DEF RuleAccepted, Known
<1>5. Present(rule.match.of) = fields
  BY <1>2, <1>4 DEF Present
<1>6. Present(rule.conditions.of) \cup (conditions \cap {"custom"}) = conditions
  BY <1>3, <1>4 DEF Present
<1>7. RuleMatches(rule, r) <=>
        /\ \A f \in fields : FieldMatches(rule.match.of[f], r.fields[f])
        /\ \A c \in conditions : ConditionHolds(c, rule.conditions.of[c], r)
  BY <1>3, <1>4, <1>5, <1>6 DEF RuleMatches
<1>8. (\A f \in fields : FieldMatches(rule.match.of[f], r.fields[f]))
        <=> \A f \in fields : /\ r.fields[f] \in rule.match.of[f].values
                              /\ rule.match.of[f].form = "patterns"
  BY <1>4 DEF FieldMatches
<1>9. ASSUME NEW c \in conditions
      PROVE  ConditionHolds(c, rule.conditions.of[c], r) <=>
             CASE c = "tier" -> r.tier > rule.conditions.of[c].bound /\ r.tier # Unknown
               [] c = "trust" -> /\ r.trust \notin {Unknown, Garbled}
                                 /\ r.trust < rule.conditions.of[c].bound
               [] OTHER -> r.custom = "holds"
  <2>1. CASE c = "tier"
    BY <1>4, <2>1 DEF ConditionHolds
  <2>2. CASE c = "trust"
    BY <1>4, <2>2 DEF ConditionHolds
  <2>3. CASE c = "custom"
    BY <2>3 DEF ConditionHolds
  <2>4. QED BY <1>4, <2>1, <2>2, <2>3
<1>10. \A c \in conditions \ {"custom"} : rule.conditions.of[c].form = "number"
  BY <1>4
<1>11. HoldsAsWritten(rule, r) <=>
        /\ \A f \in fields : /\ r.fields[f] \in rule.match.of[f].values
                             /\ rule.match.of[f].form = "patterns"
        /\ \A c \in conditions :
             CASE c = "tier" -> r.tier > rule.conditions.of[c].bound /\ r.tier # Unknown
               [] c = "trust" -> /\ r.trust \notin {Unknown, Garbled}
                                 /\ r.trust < rule.conditions.of[c].bound
               [] OTHER -> r.custom = "holds"
  BY <1>2, <1>3, <1>4, <1>10, Zenon DEF HoldsAsWritten
<1>12. (\A c \in conditions : ConditionHolds(c, rule.conditions.of[c], r)) <=>
       (\A c \in conditions :
             CASE c = "tier" -> r.tier > rule.conditions.of[c].bound /\ r.tier # Unknown
               [] c = "trust" -> /\ r.trust \notin {Unknown, Garbled}
                                 /\ r.trust < rule.conditions.of[c].bound
               [] OTHER -> r.custom = "holds")
  BY <1>9, Zenon
<1>13. QED BY <1>7, <1>8, <1>11, <1>12, Zenon

\* A document is evaluated as it is written, or a trust it asks for is no number.
LEMMA EvaluatesAsWritten ==
    ASSUME NEW doc, Accepted(doc, Extensions), DOMAIN doc.rules \subseteq Nat, NEW r
    PROVE  \/ Evaluate(doc, r) = AsWritten(doc, r)
           \/ Evaluate(doc, r) = "monitor" /\ Unreadable(doc, r)
<1> DEFINE raising == {n \in DOMAIN doc.rules : Raises(doc.rules[n], r)}
           stops == {n \in DOMAIN doc.rules :
                        RuleMatches(doc.rules[n], r) \/ Raises(doc.rules[n], r)}
           holding == {n \in DOMAIN doc.rules : HoldsAsWritten(doc.rules[n], r)}
<1>1. stops = holding \cup raising
  BY AcceptedReads DEF Accepted
<1>2. ASSUME NEW n \in raising
      PROVE  Unreadable(doc, r)
  <2>1. /\ "trust" \in DOMAIN doc.rules[n].conditions.of
        /\ r.trust = Garbled \/ doc.rules[n].conditions.of["trust"].form = "word"
    BY DEF Raises, Present
  <2>2. doc.rules[n].conditions.of["trust"].form = "number"
    BY <2>1 DEF Accepted, RuleAccepted
  <2>3. QED BY <2>1, <2>2 DEF Unreadable
<1>3. Evaluate(doc, r) =
        IF stops # {} THEN IF Raises(doc.rules[Min(stops)], r) THEN "monitor"
                           ELSE DecisionOf[doc.rules[Min(stops)].effect]
        ELSE IF r.unclassified THEN DecisionOf[doc.defaults.unclassified]
        ELSE DecisionOf[doc.defaults.effect]
  BY Zenon DEF Evaluate
<1>4. AsWritten(doc, r) =
        IF \E n \in DOMAIN doc.rules : HoldsAsWritten(doc.rules[n], r)
        THEN DecisionOf[doc.rules[Min(holding)].effect]
        ELSE DecisionOf[IF r.unclassified THEN doc.defaults.unclassified
                        ELSE doc.defaults.effect]
  BY Zenon DEF AsWritten
<1>5. (holding # {}) <=> \E n \in DOMAIN doc.rules : HoldsAsWritten(doc.rules[n], r)
  OBVIOUS
<1>6. Min(stops) \in raising <=> Min(stops) \in DOMAIN doc.rules /\ Raises(doc.rules[Min(stops)], r)
  BY Zenon
<1>7. stops \subseteq DOMAIN doc.rules /\ stops \subseteq Nat /\ holding \subseteq Nat
  OBVIOUS
<1> HIDE DEF raising, stops, holding
<1>8. CASE stops = {}
  BY <1>1, <1>3, <1>4, <1>5, <1>8
<1>9. CASE stops # {}
  <2>1. Min(stops) \in stops /\ \A i \in stops : Min(stops) <= i
    BY <1>7, <1>9, MinIn
  <2>2. CASE Min(stops) \in raising
    <3>1. Unreadable(doc, r)
      BY <1>2, <2>2
    <3>2. Evaluate(doc, r) = "monitor"
      BY <1>3, <1>6, <1>9, <2>2
    <3>3. QED BY <3>1, <3>2
  <2>3. CASE Min(stops) \notin raising
    <3>1. Min(stops) \in holding
      BY <1>1, <2>1, <2>3
    <3>2. Min(holding) \in holding /\ \A i \in holding : Min(holding) <= i
      BY <1>7, <3>1, MinIn
    <3>3. Min(stops) <= Min(holding) /\ Min(holding) <= Min(stops)
      BY <1>1, <2>1, <3>1, <3>2
    <3>4. Min(stops) \in Nat /\ Min(holding) \in Nat
      BY <1>7, <3>1, <3>2
    <3>5. Min(stops) = Min(holding)
      BY <3>3, <3>4
    <3>6. ~Raises(doc.rules[Min(stops)], r)
      BY <1>6, <1>7, <2>1, <2>3
    <3>7. Evaluate(doc, r) = DecisionOf[doc.rules[Min(holding)].effect]
      BY <1>3, <1>9, <3>5, <3>6
    <3>8. AsWritten(doc, r) = DecisionOf[doc.rules[Min(holding)].effect]
      BY <1>4, <1>5, <3>1
    <3>9. QED BY <3>7, <3>8
  <2>4. QED BY <2>2, <2>3
<1>10. QED BY <1>8, <1>9

\* What stays true while documents and requests come and go: the document in
\* force was accepted, and the last decision is that of the document in force.
PolicyInv ==
    /\ policy # NONE => policy \in Documents /\ Accepted(policy, Extensions)
    /\ policy # NONE /\ ruling # NONE => ruling.decision = Evaluate(policy, ruling.request)

LEMMA PolicyStep ==
    ASSUME PolicyInv, [Next]_vars
    PROVE  PolicyInv'
<1>1. ASSUME UNCHANGED <<policy, ruling>>
      PROVE  PolicyInv'
  BY <1>1 DEF PolicyInv
<1>2. CASE SetPolicy
  <2>1. ruling' = NONE /\ ruling = NONE
    BY <1>2 DEF SetPolicy
  <2>2. policy' = policy \/ (policy' \in Documents /\ Accepted(policy', Extensions))
    BY <1>2 DEF SetPolicy
  <2>3. QED BY <2>1, <2>2 DEF PolicyInv
<1>3. CASE ClearPolicy
  BY <1>3 DEF ClearPolicy, PolicyInv
<1>4. CASE Decide
  <2>1. PICK r \in Requests :
          ruling' = [request |-> RequestOf(r),
                     decision |-> IF policy = NONE THEN "monitor"
                                  ELSE Evaluate(policy, RequestOf(r))]
    BY <1>4 DEF Decide
  <2>2. policy # NONE => ruling'.decision = Evaluate(policy, ruling'.request)
    BY <2>1
  <2>3. policy' = policy
    BY <1>4 DEF Decide
  <2>4. QED BY <2>2, <2>3 DEF PolicyInv
<1>5. CASE Decided
  BY <1>5 DEF Decided, PolicyInv
<1>6. QED
  <2>1. CASE vars' = vars
    BY <1>1, <2>1 DEF vars
  <2>2. CASE Next
    BY <1>1, <1>2, <1>3, <1>4, <1>5, <2>2
       DEF Next, Begin, WriteSegment, Overrun, WriteUrl, Crowd, Nest, NameAKey, Writing, Term, AndTerm,
           Not, WriteClause, EndStatement, ClassifyCall, ScanText
  <2>3. QED BY <2>1, <2>2

\* A rule that was accepted can fire, when the requests and the impacts have
\* the values it asks for.
LEMMA AcceptedFires ==
    ASSUME Varied, NEW doc \in Documents, Accepted(doc, Extensions), NEW n \in DOMAIN doc.rules
    PROVE  CanFire(doc.rules[n])
<1> DEFINE rule == doc.rules[n]
<1>1. rule = doc.rules[n]
  OBVIOUS
<1>2. RuleAccepted(rule, Extensions)
  BY <1>1 DEF Accepted
<1>3. PICK r \in Requests, says \in Impacts :
        /\ \A f \in DOMAIN rule.match.of :
             rule.match.of[f].form = "patterns" =>
               ([impact_class |-> says.class, impact_tier |-> says.tier]
                  @@ r.fields)[f] \in rule.match.of[f].values
        /\ \A c \in DOMAIN rule.conditions.of :
             CASE c = "tier" -> /\ r.tier # Unknown
                                /\ rule.conditions.of[c].form = "number" =>
                                     r.tier > rule.conditions.of[c].bound
               [] c = "trust" -> /\ r.trust \notin {Unknown, Garbled}
                                 /\ rule.conditions.of[c].form = "number" =>
                                      r.trust < rule.conditions.of[c].bound
               [] OTHER -> r.custom = "holds"
  BY <1>1, Zenon DEF Varied
<1> HIDE DEF rule
<1>4. PICK full : full = [impact_class |-> says.class, impact_tier |-> says.tier] @@ r.fields
  OBVIOUS
<1>5. PICK q : q = [r EXCEPT !.fields = full]
  OBVIOUS
<1>6. {"fields", "tier", "trust", "custom", "unclassified"} \subseteq DOMAIN r
  BY DecisionAssumption
<1>7. q.fields = full /\ q.tier = r.tier /\ q.trust = r.trust /\ q.custom = r.custom
  BY <1>5, <1>6
<1>8. /\ \A f \in DOMAIN rule.match.of : rule.match.of[f].form = "patterns"
      /\ \A c \in DOMAIN rule.conditions.of \cap {"tier", "trust"} :
            rule.conditions.of[c].form = "number"
      /\ DOMAIN rule.conditions.of \subseteq {"tier", "trust", "custom"}
      /\ DOMAIN rule.match.of # {} \/ DOMAIN rule.conditions.of # {}
  <2>1. Extensions \subseteq {"trust", "custom"}
    BY DecisionAssumption
  <2>2. QED BY <1>2, <2>1 DEF RuleAccepted, Known
<1>9. \A f \in DOMAIN rule.match.of :
         q.fields[f] \in rule.match.of[f].values /\ rule.match.of[f].form = "patterns"
  BY <1>3, <1>4, <1>7, <1>8
<1>10. ASSUME NEW c \in DOMAIN rule.conditions.of
       PROVE  CASE c = "tier" -> q.tier > rule.conditions.of[c].bound /\ q.tier # Unknown
                [] c = "trust" -> /\ q.trust \notin {Unknown, Garbled}
                                  /\ q.trust < rule.conditions.of[c].bound
                [] OTHER -> q.custom = "holds"
  <2>1. CASE c = "tier"
    BY <1>3, <1>7, <1>8, <2>1
  <2>2. CASE c = "trust"
    BY <1>3, <1>7, <1>8, <2>2
  <2>3. CASE c = "custom"
    BY <1>3, <1>7, <2>3
  <2>4. QED BY <1>8, <2>1, <2>2, <2>3
<1>11. \A c \in DOMAIN rule.conditions.of \ {"custom"} : rule.conditions.of[c].form = "number"
  BY <1>8
<1>12. HoldsAsWritten(rule, q)
  BY <1>8, <1>9, <1>10, <1>11, Zenon DEF HoldsAsWritten
<1>13. [r EXCEPT !.fields = [impact_class |-> says.class, impact_tier |-> says.tier] @@ @] = q
  BY <1>4, <1>5
<1>14. QED BY <1>1, <1>12, <1>13, Zenon DEF CanFire

\* The decision is that of the document in force, read as it is written.
THEOREM DecisionsAsWritten == Spec => []DecidesAsWritten
<1>1. Init => PolicyInv
  BY DEF Init, PolicyInv
<1>2. PolicyInv /\ [Next]_vars => PolicyInv'
  BY PolicyStep
<1>3. PolicyInv => DecidesAsWritten
  BY EvaluatesAsWritten, DecisionAssumption DEF PolicyInv, DecidesAsWritten
<1>4. QED BY <1>1, <1>2, <1>3, PTL DEF Spec

\* And every rule of a document in force can fire, when the requests and the
\* impacts have the values the documents ask for: nothing an operator wrote is
\* dropped, and nothing is kept that can never hold.
THEOREM PolicyKept == ASSUME Varied PROVE Spec => []PolicyMeansWhatItSays
<1>1. Init => PolicyInv
  BY DEF Init, PolicyInv
<1>2. PolicyInv /\ [Next]_vars => PolicyInv'
  BY PolicyStep
<1>3. PolicyInv => PolicyMeansWhatItSays
  <2>1. PolicyInv => DecidesAsWritten
    BY EvaluatesAsWritten, DecisionAssumption DEF PolicyInv, DecidesAsWritten
  <2>2. PolicyInv => RulesCanFire
    BY AcceptedFires DEF PolicyInv, RulesCanFire
  <2>3. QED BY <2>1, <2>2 DEF PolicyMeansWhatItSays
<1>4. QED BY <1>1, <1>2, <1>3, PTL DEF Spec

-----------------------------------------------------------------------------
(* What is found, and how bad the worst of it is.                          *)

Finds == Findings \cup {NONE}
\* How bad a finding is; what was not found is less than anything found.
Bad(f) == IF f = NONE THEN -1 ELSE Order(f.tier)
\* _better as one number: the tier, then the class.
RankOf(f) == 100 * Order(f.tier) + 99 - Precedence(f.class)

LEMMA FoundIs ==
    ASSUME NEW f \in Findings
    PROVE  /\ f # NONE
           /\ Order(f.tier) \in 0..3
           /\ Precedence(f.class) \in 0..99
           /\ RankOf(f) \in 0..399
           /\ f.tier \in Tiers
           /\ f.tier = "critical" <=> Order(f.tier) = 3
           /\ f.tier = "low" <=> Order(f.tier) = 0
<1>1. f # NONE
  BY CommandsAssumption
<1>2. f.tier \in Tiers
  BY DEF Findings
<1>3. Order(f.tier) \in 0..3 /\ (f.tier = "critical" <=> Order(f.tier) = 3)
      /\ (f.tier = "low" <=> Order(f.tier) = 0)
  BY <1>2 DEF Order, Tiers
<1>4. Precedence(f.class) \in 0..99
  BY DEF Precedence
<1>5. RankOf(f) \in 0..399
  BY <1>3, <1>4 DEF RankOf
<1>6. QED BY <1>1, <1>2, <1>3, <1>4, <1>5

LEMMA OutranksOf ==
    ASSUME NEW a \in Findings, NEW b \in Findings
    PROVE  /\ Outranks(b, a) <=> RankOf(b) > RankOf(a)
           /\ ~Outranks(b, a) => Bad(b) <= Bad(a)
<1>1. /\ Order(a.tier) \in 0..3 /\ Order(b.tier) \in 0..3
      /\ Precedence(a.class) \in 0..99 /\ Precedence(b.class) \in 0..99
      /\ a # NONE /\ b # NONE
  BY FoundIs
<1>2. PICK oa \in 0..3, ob \in 0..3, pa \in 0..99, pb \in 0..99 :
        oa = Order(a.tier) /\ ob = Order(b.tier)
        /\ pa = Precedence(a.class) /\ pb = Precedence(b.class)
  BY <1>1
<1>3. Outranks(b, a) <=> ob > oa \/ (ob = oa /\ pb < pa)
  BY <1>2 DEF Outranks
<1>4. RankOf(a) = 100 * oa + 99 - pa /\ RankOf(b) = 100 * ob + 99 - pb
  BY <1>2 DEF RankOf
<1>5. Bad(a) = oa /\ Bad(b) = ob
  BY <1>1, <1>2 DEF Bad
<1>6. (ob > oa \/ (ob = oa /\ pb < pa)) <=> 100 * ob + 99 - pb > 100 * oa + 99 - pa
  OBVIOUS
<1>7. (Outranks(b, a) <=> RankOf(b) > RankOf(a))
  BY <1>3, <1>4, <1>6
<1>8. ~Outranks(b, a) => Bad(b) <= Bad(a)
  BY <1>3, <1>5
<1>9. QED BY <1>7, <1>8

LEMMA BadIs == \A f \in Finds : Bad(f) \in -1..3 /\ (Bad(f) = -1 <=> f = NONE)
BY FoundIs DEF Finds, Bad

LEMMA BetterOf ==
    ASSUME NEW a \in Finds, NEW b \in Finds
    PROVE  /\ Better(a, b) \in {a, b}
           /\ Bad(Better(a, b)) >= Bad(a)
           /\ Bad(Better(a, b)) >= Bad(b)
<1>1. Better(a, b) \in {a, b}
  BY DEF Better
<1>2. Bad(a) \in -1..3 /\ Bad(b) \in -1..3
  BY BadIs
<1>3. CASE a = NONE
  BY <1>2, <1>3 DEF Better, Bad
<1>4. CASE a # NONE /\ b = NONE
  BY <1>2, <1>4 DEF Better, Bad
<1>5. CASE a # NONE /\ b # NONE
  <2>1. a \in Findings /\ b \in Findings
    BY <1>5 DEF Finds
  <2>2. CASE Outranks(b, a)
    <3>1. Better(a, b) = b
      BY <1>5, <2>2 DEF Better
    <3>2. Bad(b) >= Bad(a)
      BY <1>5, <2>1, <2>2, FoundIs DEF Outranks, Bad
    <3>3. QED BY <1>2, <3>1, <3>2
  <2>3. CASE ~Outranks(b, a)
    <3>1. Better(a, b) = a
      BY <1>5, <2>3 DEF Better
    <3>2. Bad(b) <= Bad(a)
      BY <2>1, <2>3, OutranksOf
    <3>3. QED BY <1>2, <3>1, <3>2
  <2>4. QED BY <2>2, <2>3
<1>6. QED BY <1>1, <1>3, <1>4, <1>5

LEMMA FirstIn ==
    ASSUME NEW at \in SUBSET Nat, at # {}
    PROVE  First(at) \in at /\ \A m \in at : First(at) <= m
<1>1. PICK low \in at : \A m \in at : <<m, low>> \notin OpToRel(<, Nat)
  BY WFMin, NatLessThanWellFounded
<1>2. ASSUME NEW m \in at
      PROVE  low <= m
  <2>1. m < low => <<m, low>> \in OpToRel(<, Nat)
    BY DEF OpToRel
  <2>2. ~ (m < low)
    BY <1>1, <2>1
  <2>3. QED BY <2>2
<1>3. QED BY <1>2 DEF First

\* Of finitely many ranks one is the highest.
LEMMA HighestRank ==
    ASSUME NEW S, S # {}, NEW f, \A x \in S : f[x] \in Findings
    PROVE  \E x \in S : \A y \in S : ~Outranks(f[y], f[x])
<1> DEFINE ranks == {RankOf(f[x]) : x \in S}
<1>1. ranks \in SUBSET Nat /\ ranks # {} /\ \A r \in ranks : r <= 399
  <2>1. \A x \in S : RankOf(f[x]) \in 0..399
    BY FoundIs
  <2>2. QED BY <2>1
<1>2. \E m \in ranks : \A r \in ranks : m >= r
  <2> HIDE DEF ranks
  <2>1. 399 \in Nat
    OBVIOUS
  <2>2. QED BY <1>1, <2>1, LargestExists
<1>3. PICK x \in S : \A r \in ranks : RankOf(f[x]) >= r
  BY <1>2
<1>4. ASSUME NEW y \in S
      PROVE  ~Outranks(f[y], f[x])
  <2>1. RankOf(f[x]) >= RankOf(f[y])
    BY <1>3
  <2>2. RankOf(f[x]) \in Nat /\ RankOf(f[y]) \in Nat
    BY FoundIs
  <2>3. ~ (RankOf(f[y]) > RankOf(f[x]))
    BY <2>1, <2>2
  <2>4. QED BY <2>3, OutranksOf
<1>5. QED BY <1>4

LEMMA BestOf ==
    ASSUME NEW found, DOMAIN found \in SUBSET Nat, \A n \in DOMAIN found : found[n] \in Finds
    PROVE  /\ Best(found) \in Finds
           /\ \A n \in DOMAIN found : Bad(found[n]) <= Bad(Best(found))
           /\ Best(found) # NONE => \E n \in DOMAIN found : Best(found) = found[n]
<1>1. /\ Hits(found) \in SUBSET Nat
      /\ Hits(found) \in SUBSET DOMAIN found
      /\ \A n \in Hits(found) : found[n] \in Findings
      /\ \A n \in DOMAIN found \ Hits(found) : found[n] = NONE
  BY DEF Hits, Finds
<1>2. CASE Hits(found) = {}
  <2>1. Best(found) = NONE
    BY <1>2 DEF Best
  <2>2. \A n \in DOMAIN found : found[n] = NONE
    BY <1>1, <1>2
  <2>3. QED BY <2>1, <2>2 DEF Finds, Bad
<1>3. CASE Hits(found) # {}
  <2>1. Tops(found) # {} /\ Tops(found) \in SUBSET Nat
    BY <1>1, <1>3, HighestRank DEF Tops
  <2>2. PICK n : n = First(Tops(found))
    OBVIOUS
  <2>3. n \in Tops(found)
    BY <2>1, <2>2, FirstIn
  <2>4. n \in Hits(found) /\ \A m \in Hits(found) : ~Outranks(found[m], found[n])
    BY <2>3 DEF Tops
  <2>5. Best(found) = found[n]
    BY <1>3, <2>2 DEF Best
  <2>6. found[n] \in Findings
    BY <1>1, <2>4
  <2>7. ASSUME NEW m \in DOMAIN found
        PROVE  Bad(found[m]) <= Bad(found[n])
    <3>1. CASE m \in Hits(found)
      BY <1>1, <2>4, <2>6, <3>1, OutranksOf
    <3>2. CASE m \notin Hits(found)
      <4>1. found[m] = NONE
        BY <1>1, <3>2
      <4>2. Bad(found[n]) \in -1..3
        BY <2>6, BadIs DEF Finds
      <4>3. QED BY <4>1, <4>2 DEF Bad
    <3>3. QED BY <3>1, <3>2
  <2>8. QED BY <1>1, <2>4, <2>5, <2>6, <2>7 DEF Finds
<1>4. QED BY <1>2, <1>3

LEMMA BestComboOf ==
    ASSUME NEW names \in SUBSET DOMAIN Combos
    PROVE  /\ BestCombo(names) \in Finds
           /\ \A c \in names : Bad(Combos[c]) <= Bad(BestCombo(names))
           /\ BestCombo(names) # NONE => names # {}
<1>1. \A c \in names : Combos[c] \in Findings
  BY CommandsAssumption
<1>2. CASE names = {}
  BY <1>2 DEF BestCombo, Finds
<1>3. CASE names # {}
  <2>1. \E c \in names : \A d \in names : ~Outranks(Combos[d], Combos[c])
    BY <1>1, <1>3, HighestRank
  <2>2. PICK c : c = CHOOSE e \in names : \A d \in names : ~Outranks(Combos[d], Combos[e])
    OBVIOUS
  <2>3. c \in names /\ \A d \in names : ~Outranks(Combos[d], Combos[c])
    BY <2>1, <2>2
  <2>4. BestCombo(names) = Combos[c]
    BY <1>3, <2>2 DEF BestCombo
  <2>5. QED BY <1>1, <1>3, <2>3, <2>4, OutranksOf DEF Finds
<1>4. QED BY <1>2, <1>3

-----------------------------------------------------------------------------
(* What a command does.                                                    *)

\* What a reader of a command keeps: segments at some places of the line.
Read(segments) ==
    /\ DOMAIN segments \in SUBSET Nat
    /\ \A n \in DOMAIN segments :
        /\ segments[n].seg \in Segments
        /\ segments[n].degraded \in BOOLEAN

LEMMA SaysOf ==
    ASSUME NEW segments, Read(segments)
    PROVE  /\ DOMAIN Says(segments) = DOMAIN segments
           /\ \A n \in DOMAIN segments : Says(segments)[n] = segments[n].seg.says
           /\ \A n \in DOMAIN segments : Says(segments)[n] \in Finds
           /\ CombosIn(segments) \in SUBSET DOMAIN Combos
BY DEF Read, Says, CombosIn, Segments, Finds

\* The worst of a command is at least as bad as all it says and combines.
LEMMA WorstOf ==
    ASSUME NEW segments, Read(segments)
    PROVE  /\ Worst(segments) \in Finds
           /\ \A n \in DOMAIN segments : Bad(segments[n].seg.says) <= Bad(Worst(segments))
           /\ \A c \in CombosIn(segments) : Bad(Combos[c]) <= Bad(Worst(segments))
           /\ Worst(segments) # NONE =>
                \/ \E n \in DOMAIN segments : Worst(segments) = segments[n].seg.says
                \/ CombosIn(segments) # {} /\ Worst(segments) = BestCombo(CombosIn(segments))
<1>1. PICK a : a = Best(Says(segments))
  OBVIOUS
<1>2. PICK b : b = BestCombo(CombosIn(segments))
  OBVIOUS
<1>3. PICK w : w = Worst(segments)
  OBVIOUS
<1>4. w = Better(a, b)
  BY <1>1, <1>2, <1>3 DEF Worst
<1>5. DOMAIN Says(segments) \in SUBSET Nat /\ \A n \in DOMAIN Says(segments) : Says(segments)[n] \in Finds
  BY SaysOf DEF Read
<1>6. /\ a \in Finds
      /\ \A n \in DOMAIN segments : Bad(segments[n].seg.says) <= Bad(a)
      /\ a # NONE => \E n \in DOMAIN segments : a = segments[n].seg.says
  BY <1>1, <1>5, SaysOf, BestOf
<1>7. /\ b \in Finds
      /\ \A c \in CombosIn(segments) : Bad(Combos[c]) <= Bad(b)
      /\ b # NONE => CombosIn(segments) # {}
  BY <1>2, SaysOf, BestComboOf
<1>8. w \in {a, b} /\ Bad(w) >= Bad(a) /\ Bad(w) >= Bad(b)
  BY <1>4, <1>6, <1>7, BetterOf
<1>9. Bad(a) \in Int /\ Bad(b) \in Int /\ Bad(w) \in Int
  BY <1>6, <1>7, <1>8, BadIs
<1>10. \A n \in DOMAIN segments : segments[n].seg.says \in Finds
  BY SaysOf
<1>11. \A n \in DOMAIN segments : Bad(segments[n].seg.says) \in Int
  BY <1>10, BadIs
<1>12. \A c \in CombosIn(segments) : Bad(Combos[c]) \in Int
  BY CommandsAssumption, SaysOf, BadIs DEF Finds
<1>13. \A n \in DOMAIN segments : Bad(segments[n].seg.says) <= Bad(w)
  BY <1>6, <1>8, <1>9, <1>11
<1>14. \A c \in CombosIn(segments) : Bad(Combos[c]) <= Bad(w)
  BY <1>7, <1>8, <1>9, <1>12
<1>15. QED BY <1>2, <1>3, <1>6, <1>7, <1>8, <1>13, <1>14

\* More segments, at the places they had, are no better.
LEMMA WorstGrows ==
    ASSUME NEW old, NEW new, Read(old), Read(new), DOMAIN old \subseteq DOMAIN new,
           \A n \in DOMAIN old : new[n].seg = old[n].seg
    PROVE  Bad(Worst(old)) <= Bad(Worst(new))
<1>1. Worst(old) \in Finds /\ Worst(new) \in Finds
  BY WorstOf
<1>2. Bad(Worst(old)) \in -1..3 /\ Bad(Worst(new)) \in -1..3
  BY <1>1, BadIs
<1>3. CASE Worst(old) = NONE
  BY <1>2, <1>3 DEF Bad
<1>4. CASE \E n \in DOMAIN old : Worst(old) = old[n].seg.says
  BY <1>4, WorstOf
<1>5. CASE CombosIn(old) # {} /\ Worst(old) = BestCombo(CombosIn(old))
  <2>1. CombosIn(old) \subseteq CombosIn(new)
    BY DEF CombosIn
  <2>2. CombosIn(old) \in SUBSET DOMAIN Combos
    BY SaysOf
  <2>3. \E c \in CombosIn(old) : Worst(old) = Combos[c]
    <3>1. \A c \in CombosIn(old) : Combos[c] \in Findings
      BY <2>2, CommandsAssumption
    <3>2. \E c \in CombosIn(old) : \A d \in CombosIn(old) : ~Outranks(Combos[d], Combos[c])
      BY <1>5, <3>1, HighestRank
    <3>3. QED BY <1>5, <3>2 DEF BestCombo
  <2>4. QED BY <2>1, <2>3, WorstOf
<1>6. QED BY <1>3, <1>4, <1>5, WorstOf

LEMMA ParseOf ==
    ASSUME NEW line \in Seq(Segments), NEW long
    PROVE  /\ DOMAIN Parse(line, long) = Kept(line)
           /\ Kept(line) \in SUBSET Nat /\ Kept(line) \in SUBSET DOMAIN line
           /\ \A i \in Kept(line) :
                /\ Parse(line, long)[i].seg = line[i]
                /\ Parse(line, long)[i].degraded <=>
                        DegradedAt(line, long, i) \/ Earlier(line, i) = MaxSegments - 1
           /\ Read(Parse(line, long))
<1>1. Kept(line) \in SUBSET Nat /\ Kept(line) \in SUBSET DOMAIN line
  BY DEF Kept
<1>2. \A i \in Kept(line) : line[i] \in Segments
  BY <1>1
<1>3. DOMAIN Parse(line, long) = Kept(line)
  BY DEF Parse
<1>4. \A i \in Kept(line) :
        Parse(line, long)[i] =
            [seg |-> line[i],
             degraded |-> DegradedAt(line, long, i) \/ Earlier(line, i) = MaxSegments - 1]
  BY DEF Parse
<1>5. \A i \in Kept(line) :
        /\ Parse(line, long)[i].seg = line[i]
        /\ Parse(line, long)[i].degraded = (DegradedAt(line, long, i) \/ Earlier(line, i) = MaxSegments - 1)
  <2>1. ASSUME NEW i \in Kept(line), NEW d, d = (DegradedAt(line, long, i) \/ Earlier(line, i) = MaxSegments - 1)
        PROVE  Parse(line, long)[i].seg = line[i] /\ Parse(line, long)[i].degraded = d
    <3>1. Parse(line, long)[i] = [seg |-> line[i], degraded |-> d]
      BY <1>4, <2>1, Zenon
    <3>2. QED BY <3>1
  <2>2. QED BY <2>1, Zenon
<1>6. \A i \in Kept(line) : Parse(line, long)[i].degraded \in BOOLEAN
  BY <1>5, Zenon
<1>7. QED BY <1>1, <1>2, <1>3, <1>5, <1>6 DEF Read

LEMMA CleanOf ==
    ASSUME NEW segments, Read(segments)
    PROVE  /\ Read(Clean(segments))
           /\ DOMAIN Clean(segments) = {n \in DOMAIN segments : ~segments[n].degraded}
           /\ \A n \in DOMAIN Clean(segments) : Clean(segments)[n] = segments[n]
BY DEF Clean, Read

\* What a command is found to do: as bad as all that its clean segments say
\* and combine, and, when all are clean, the worst of them.
LEMMA CommandOf ==
    ASSUME NEW line \in Seq(Segments), NEW long
    PROVE  LET cc == ClassifyCommand(line, long)
               segments == Parse(line, long)
           IN  /\ cc \in Finds
               /\ cc = NONE <=> Worst(segments) = NONE
               /\ Bad(cc) <= Bad(Worst(segments))
               /\ \A i \in DOMAIN Clean(segments) : Bad(Clean(segments)[i].seg.says) <= Bad(cc)
               /\ \A c \in CombosIn(Clean(segments)) : Bad(Combos[c]) <= Bad(cc)
               /\ (\A i \in DOMAIN segments : ~segments[i].degraded) => cc = Worst(segments)
<1>1. PICK segments : segments = Parse(line, long)
  OBVIOUS
<1>2. PICK worst : worst = Worst(segments)
  OBVIOUS
<1>3. PICK clean : clean = BestClean(segments)
  OBVIOUS
<1>4. PICK cc : cc = ClassifyCommand(line, long)
  OBVIOUS
<1>5. cc = IF worst = NONE THEN NONE
           ELSE IF worst.tier = "critical" /\ (clean = NONE \/ clean.tier # "critical")
                THEN [worst EXCEPT !.tier = "high"] ELSE worst
  BY <1>1, <1>2, <1>3, <1>4 DEF ClassifyCommand
<1>6. Read(segments)
  BY <1>1, ParseOf
<1>7. worst \in Finds
  BY <1>2, <1>6, WorstOf
<1>8. PICK tidy : tidy = Clean(segments)
  OBVIOUS
<1>9. /\ Read(tidy) /\ DOMAIN tidy = {n \in DOMAIN segments : ~segments[n].degraded}
      /\ \A n \in DOMAIN tidy : tidy[n] = segments[n]
  BY <1>6, <1>8, CleanOf
<1>10. CombosIn(tidy) \subseteq CombosIn(segments)
  BY <1>9 DEF CombosIn
<1>11. CombosIn(segments) \in SUBSET DOMAIN Combos
  BY <1>6, SaysOf
<1>12. /\ \A i \in DOMAIN tidy : Bad(tidy[i].seg.says) <= Bad(worst)
       /\ \A c \in CombosIn(tidy) : Bad(Combos[c]) <= Bad(worst)
  BY <1>2, <1>6, <1>9, <1>10, WorstOf
<1>14. DOMAIN tidy # {} =>
         /\ clean \in Finds
         /\ \A i \in DOMAIN tidy : Bad(tidy[i].seg.says) <= Bad(clean)
         /\ \A c \in CombosIn(tidy) : Bad(Combos[c]) <= Bad(clean)
  <2> SUFFICES ASSUME DOMAIN tidy # {}
               PROVE  /\ clean \in Finds
                      /\ \A i \in DOMAIN tidy : Bad(tidy[i].seg.says) <= Bad(clean)
                      /\ \A c \in CombosIn(tidy) : Bad(Combos[c]) <= Bad(clean)
    OBVIOUS
  <2>1. PICK a : a = Best(Says(tidy))
    OBVIOUS
  <2>2. PICK b : b = BestCombo(CombosIn(segments))
    OBVIOUS
  <2>3. clean = Better(a, b)
    BY <1>3, <1>8, <2>1, <2>2 DEF BestClean
  <2>4. DOMAIN Says(tidy) \in SUBSET Nat /\ \A n \in DOMAIN Says(tidy) : Says(tidy)[n] \in Finds
    BY <1>9, SaysOf DEF Read
  <2>5. a \in Finds /\ \A n \in DOMAIN tidy : Bad(tidy[n].seg.says) <= Bad(a)
    BY <1>9, <2>1, <2>4, SaysOf, BestOf
  <2>6. b \in Finds /\ \A c \in CombosIn(segments) : Bad(Combos[c]) <= Bad(b)
    BY <1>11, <2>2, BestComboOf
  <2>7. clean \in Finds /\ Bad(clean) >= Bad(a) /\ Bad(clean) >= Bad(b)
    BY <2>3, <2>5, <2>6, BetterOf
  <2>8. Bad(a) \in Int /\ Bad(b) \in Int /\ Bad(clean) \in Int
    BY <2>5, <2>6, <2>7, BadIs
  <2>9. \A n \in DOMAIN tidy : Bad(tidy[n].seg.says) \in Int
    BY <1>9, SaysOf, BadIs
  <2>10. \A c \in CombosIn(segments) : Bad(Combos[c]) \in Int
    BY <1>11, CommandsAssumption, BadIs DEF Finds
  <2>11. \A i \in DOMAIN tidy : Bad(tidy[i].seg.says) <= Bad(clean)
    BY <2>5, <2>7, <2>8, <2>9
  <2>12. \A c \in CombosIn(segments) : Bad(Combos[c]) <= Bad(clean)
    BY <2>6, <2>7, <2>8, <2>10
  <2>13. QED BY <1>10, <2>7, <2>11, <2>12
<1>15. (\A i \in DOMAIN segments : ~segments[i].degraded) => cc = worst
  <2> SUFFICES ASSUME \A i \in DOMAIN segments : ~segments[i].degraded, worst # NONE
               PROVE  cc = worst
    BY <1>5
  <2>1. DOMAIN segments # {}
    BY <1>2, <1>6, WorstOf DEF CombosIn
  <2>2. DOMAIN tidy = DOMAIN segments
    BY <1>9
  <2>3. tidy = segments
    <3>1. segments = [i \in DOMAIN segments |-> segments[i]]
      BY <1>1, Zenon DEF Parse
    <3>2. tidy = [i \in DOMAIN segments |-> segments[i]]
      BY <1>8, <1>9, <2>2 DEF Clean
    <3>3. QED BY <3>1, <3>2
  <2>4. clean = worst
    BY <1>2, <1>3, <1>8, <2>1, <2>2, <2>3 DEF BestClean, Worst
  <2>5. QED BY <1>5, <2>4
<1>16. CASE worst = NONE
  <2>1. cc = NONE
    BY <1>5, <1>16
  <2>2. QED BY <1>1, <1>2, <1>4, <1>7, <1>8, <1>12, <1>15, <1>16, <2>1, BadIs
<1>17. CASE worst # NONE /\ cc = worst
  <2>1. QED BY <1>1, <1>2, <1>4, <1>7, <1>8, <1>12, <1>15, <1>17, BadIs
<1>18. CASE worst # NONE /\ cc # worst
  <2>1. /\ worst \in Findings /\ worst.tier = "critical"
        /\ clean = NONE \/ clean.tier # "critical"
        /\ cc = [worst EXCEPT !.tier = "high"]
    BY <1>5, <1>7, <1>18 DEF Finds
  <2>2. cc \in Findings /\ cc.tier = "high"
    BY <2>1 DEF Findings, Tiers
  <2>3. cc # NONE /\ Bad(cc) = 2 /\ Bad(worst) = 3
    BY <2>1, <2>2, FoundIs DEF Bad, Order
  <2>4. clean \in Finds => Bad(clean) \in -1..2
    <3>1. CASE clean = NONE
      BY <3>1 DEF Bad
    <3>2. CASE clean # NONE /\ clean \in Finds
      <4>1. clean \in Findings /\ clean.tier # "critical"
        BY <2>1, <3>2 DEF Finds
      <4>2. Order(clean.tier) \in 0..2
        BY <4>1, FoundIs
      <4>3. QED BY <3>2, <4>2 DEF Bad
    <3>3. QED BY <3>1, <3>2
  <2>5. \A i \in DOMAIN tidy : Bad(tidy[i].seg.says) <= Bad(cc)
    <3>1. \A i \in DOMAIN tidy : Bad(tidy[i].seg.says) \in Int
      BY <1>9, SaysOf, BadIs
    <3>2. QED BY <1>14, <2>3, <2>4, <3>1
  <2>6. \A c \in CombosIn(tidy) : Bad(Combos[c]) <= Bad(cc)
    <3>1. \A c \in CombosIn(tidy) : Bad(Combos[c]) \in Int
      BY <1>10, <1>11, CommandsAssumption, BadIs DEF Finds
    <3>2. \A c \in CombosIn(tidy) : DOMAIN tidy # {}
      BY DEF CombosIn
    <3>3. QED BY <1>14, <2>3, <2>4, <3>1, <3>2
  <2>7. cc \in Finds /\ Bad(cc) <= Bad(worst)
    BY <2>2, <2>3 DEF Finds
  <2>8. QED BY <1>1, <1>2, <1>4, <1>8, <1>15, <1>18, <2>3, <2>5, <2>6, <2>7
<1>19. QED BY <1>16, <1>17, <1>18

-----------------------------------------------------------------------------
(* What the bounds on a command leave unread.                              *)

LEMMA EarlierIs ==
    ASSUME NEW line, NEW i \in Nat
    PROVE  /\ IsFiniteSet({j \in 1..i - 1 : Parsed(line, j)})
           /\ Earlier(line, i) \in Nat
<1>1. IsFiniteSet(1..i - 1)
  BY FS_Interval
<1>2. {j \in 1..i - 1 : Parsed(line, j)} \in SUBSET (1..i - 1)
  OBVIOUS
<1>3. IsFiniteSet({j \in 1..i - 1 : Parsed(line, j)})
  BY <1>1, <1>2, FS_Subset
<1>4. QED BY <1>3, FS_CardinalityType DEF Earlier

\* When one segment stands at the cap or past it, one stands at it.
LEMMA OneAtTheCap ==
    ASSUME NEW line \in Seq(Segments), NEW i \in DOMAIN line, Parsed(line, i),
           Earlier(line, i) >= MaxSegments - 1
    PROVE  \E k \in Kept(line) : Earlier(line, k) = MaxSegments - 1
<1> DEFINE past == {k \in DOMAIN line : Parsed(line, k) /\ Earlier(line, k) >= MaxSegments - 1}
<1>1. MaxSegments \in Nat \ {0}
  BY CommandsAssumption
<1>2. past \in SUBSET Nat /\ past # {}
  OBVIOUS
<1>3. PICK k \in past : \A m \in past : k <= m
  <2> HIDE DEF past
  <2>1. QED BY <1>2, FirstIn
<1>4. k \in DOMAIN line /\ k \in Nat /\ Parsed(line, k) /\ Earlier(line, k) >= MaxSegments - 1
  BY <1>2, <1>3
<1>5. Earlier(line, k) \in Nat
  BY <1>4, EarlierIs
<1>6. Earlier(line, k) = MaxSegments - 1
  <2> SUFFICES ASSUME Earlier(line, k) > MaxSegments - 1
               PROVE  FALSE
    BY <1>1, <1>4, <1>5
  <2> DEFINE before == {j \in 1..k - 1 : Parsed(line, j)}
  <2>1. IsFiniteSet(before) /\ Cardinality(before) = Earlier(line, k)
    BY <1>4, EarlierIs DEF Earlier
  <2>2. before # {}
    <3>1. Earlier(line, k) # 0
      BY <1>1, <1>5
    <3>2. QED BY <2>1, <3>1, FS_EmptySet
  <2>3. before \in SUBSET Nat /\ \A j \in before : j <= k
    BY <1>4
  <2>4. PICK p \in before : \A j \in before : p >= j
    <3> HIDE DEF before
    <3>1. QED BY <1>4, <2>2, <2>3, LargestExists
  <2>5. p \in 1..k - 1 /\ Parsed(line, p)
    OBVIOUS
  <2>6. {j \in 1..p - 1 : Parsed(line, j)} = before \ {p}
    BY <1>4, <2>4, <2>5
  <2>7. Earlier(line, p) = Earlier(line, k) - 1
    <3>1. Cardinality(before \ {p}) = Cardinality(before) - 1
      <4> HIDE DEF before
      <4>1. QED BY <2>1, <2>4, FS_RemoveElement
    <3>2. QED BY <2>1, <2>6, <3>1 DEF Earlier
  <2>8. p \in past
    <3>1. p \in DOMAIN line
      BY <1>4, <2>5
    <3>2. Earlier(line, p) >= MaxSegments - 1
      BY <1>1, <1>5, <2>7
    <3>3. QED BY <2>5, <3>1, <3>2
  <2>9. QED BY <1>3, <1>4, <2>5, <2>8
<1>7. k \in Kept(line)
  BY <1>1, <1>4, <1>6 DEF Kept
<1>8. QED BY <1>6, <1>7

\* A line is nested as the reader walks it: one level at a time, and under an
\* interpreter only.
Nested(line) ==
    /\ line # <<>> => line[1].depth = 0
    /\ \A i \in 1..Len(line) - 1 :
        \/ line[i + 1].depth <= line[i].depth
        \/ line[i + 1].depth = line[i].depth + 1 /\ ~IsBlank(line, i)

\* The indices and depths of a line.
LEMMA PlacesOf ==
    ASSUME NEW line \in Seq(Segments)
    PROVE  /\ MaxSegments \in Nat \ {0} /\ MaxDepth \in Nat
           /\ Len(line) \in Nat /\ DOMAIN line = 1..Len(line)
           /\ \A i \in DOMAIN line : line[i].depth \in Nat
<1>1. Len(line) \in Nat /\ DOMAIN line = 1..Len(line) /\ \A i \in DOMAIN line : line[i] \in Segments
  OBVIOUS
<1>2. QED BY <1>1, CommandsAssumption DEF Segments

\* The first piece that is not blank is read, at the top.
LEMMA FirstIsKept ==
    ASSUME NEW line \in Seq(Segments), Nested(line), NEW i \in DOMAIN line, ~IsBlank(line, i)
    PROVE  \E k \in Kept(line) : line[k].depth = 0
<1>1. /\ MaxSegments \in Nat \ {0} /\ MaxDepth \in Nat
      /\ Len(line) \in Nat /\ DOMAIN line = 1..Len(line)
      /\ \A k \in DOMAIN line : line[k].depth \in Nat
  BY PlacesOf
<1> DEFINE full == {k \in DOMAIN line : ~IsBlank(line, k)}
<1>2. full \in SUBSET Nat /\ full # {}
  BY <1>1
<1>3. PICK k \in full : \A m \in full : k <= m
  <2> HIDE DEF full
  <2>1. QED BY <1>2, FirstIn
<1>4. k \in 1..Len(line) /\ ~IsBlank(line, k) /\ \A j \in 1..k - 1 : IsBlank(line, j)
  <2>1. k \in 1..Len(line) /\ ~IsBlank(line, k)
    BY <1>1
  <2>2. ASSUME NEW j \in 1..k - 1
        PROVE  IsBlank(line, j)
    <3>1. j \in DOMAIN line /\ ~(k <= j)
      BY <1>1, <2>1
    <3>2. QED BY <1>3, <3>1
  <2>3. QED BY <2>1, <2>2
<1> HIDE DEF full
<1>5. line[k].depth = 0
  <2> SUFFICES ASSUME line[k].depth # 0
               PROVE  FALSE
    OBVIOUS
  <2> DEFINE below == {j \in DOMAIN line : j <= k /\ line[j].depth # 0}
  <2>1. below \in SUBSET Nat /\ below # {}
    BY <1>1, <1>4
  <2>2. PICK m \in below : \A j \in below : m <= j
    <3> HIDE DEF below
    <3>1. QED BY <2>1, FirstIn
  <2>3. m \in 1..Len(line) /\ m <= k /\ line[m].depth # 0
    BY <1>1
  <2>4. m # 1
    <3>1. line # <<>>
      BY <1>1, <1>4
    <3>2. QED BY <2>3, <3>1 DEF Nested
  <2>5. PICK p \in 1..Len(line) - 1 : p = m - 1
    BY <1>1, <2>3, <2>4
  <2>6. p \in DOMAIN line /\ p <= k /\ ~(m <= p) /\ p \in 1..k - 1
    BY <1>1, <1>4, <2>3, <2>5
  <2>7. line[p].depth = 0
    BY <2>2, <2>6
  <2>8. IsBlank(line, p)
    BY <1>4, <2>6
  <2>9. line[p + 1].depth <= line[p].depth
    BY <2>5, <2>8 DEF Nested
  <2>10. p + 1 = m
    BY <2>3, <2>5
  <2>11. QED BY <1>1, <2>3, <2>7, <2>9, <2>10
<1>6. Parsed(line, k)
  <2>1. Holders(line, k) = {}
    <3>1. \A j \in 1..k - 1 : ~(line[j].depth < line[k].depth)
      BY <1>1, <1>4, <1>5
    <3>2. QED BY <3>1 DEF Holders
  <2>2. ~Glued(line, k)
    BY <1>4 DEF Glued, Before
  <2>3. ~Swallowed(line, k)
    BY <2>1, <2>2 DEF Swallowed
  <2>4. Reached(line, k)
    BY <1>1, <1>5 DEF Reached
  <2>5. QED BY <1>4, <2>3, <2>4 DEF Parsed
<1>7. Earlier(line, k) = 0
  <2>1. {j \in 1..k - 1 : Parsed(line, j)} = {}
    BY <1>4 DEF Parsed
  <2>2. QED BY <2>1, FS_EmptySet DEF Earlier
<1>8. k \in Kept(line)
  BY <1>1, <1>4, <1>6, <1>7 DEF Kept
<1>9. QED BY <1>5, <1>8

LEMMA DepthsOrder ==
    /\ \A a, b, c \in Nat : a < b /\ b < c => a < c
    /\ \A a, b, c \in Nat : a < b /\ c > b => c > a
    /\ \A a, b, c \in Nat : a < b /\ c >= b => c > a
    /\ \A a, b, c \in Nat : a < b /\ c >= b /\ (c <= a \/ c = a + 1) => b = a + 1
OBVIOUS

\* What holds a piece holds no more than it, and stands before it.
LEMMA HoldersOf ==
    ASSUME NEW line \in Seq(Segments), NEW i \in DOMAIN line, NEW h \in Holders(line, i)
    PROVE  /\ h \in DOMAIN line /\ h < i
           /\ Holders(line, h) \subseteq Holders(line, i)
           /\ line[h].depth < line[i].depth
           /\ line[h + 1].depth > line[h].depth
<1>1. /\ Len(line) \in Nat /\ DOMAIN line = 1..Len(line)
      /\ \A k \in DOMAIN line : line[k].depth \in Nat
  BY PlacesOf
<1>2. h \in 1..i - 1 /\ line[h].depth < line[i].depth /\ \A k \in h + 1..i : line[k].depth > line[h].depth
  BY DEF Holders
<1>3. h \in DOMAIN line /\ h < i /\ h + 1 \in h + 1..i
  BY <1>1, <1>2
<1>4. ASSUME NEW g \in Holders(line, h)
      PROVE  g \in Holders(line, i)
  <2>1. g \in 1..h - 1 /\ line[g].depth < line[h].depth /\ \A k \in g + 1..h : line[k].depth > line[g].depth
    BY DEF Holders
  <2>2. g \in DOMAIN line /\ g \in 1..i - 1
    BY <1>1, <1>3, <2>1
  <2>3. line[g].depth < line[i].depth
    <3>1. line[g].depth \in Nat /\ line[h].depth \in Nat /\ line[i].depth \in Nat
      BY <1>1, <1>3, <2>2
    <3>2. QED BY <1>2, <2>1, <3>1, DepthsOrder, Zenon
  <2>4. ASSUME NEW k \in g + 1..i
        PROVE  line[k].depth > line[g].depth
    <3>0. k \in DOMAIN line
      BY <1>1, <1>3, <2>2
    <3>1. CASE k <= h
      <4>1. k \in g + 1..h
        BY <1>1, <1>3, <2>2, <3>0, <3>1
      <4>2. QED BY <2>1, <4>1
    <3>2. CASE ~(k <= h)
      <4>1. k \in h + 1..i
        BY <1>1, <1>3, <3>0, <3>2
      <4>2. line[k].depth > line[h].depth
        BY <1>2, <4>1
      <4>3. line[g].depth \in Nat /\ line[h].depth \in Nat /\ line[k].depth \in Nat
        BY <1>1, <1>3, <2>2, <3>0
      <4>4. QED BY <2>1, <4>2, <4>3, DepthsOrder, Zenon
    <3>3. QED BY <3>1, <3>2
  <2>5. QED BY <2>2, <2>3, <2>4 DEF Holders
<1>5. QED BY <1>2, <1>3, <1>4

\* A piece in the same text, before another, is held by the same, and has fewer
\* before it.
LEMMA BeforeOf ==
    ASSUME NEW line \in Seq(Segments), NEW i \in DOMAIN line, NEW b \in Before(line, i)
    PROVE  /\ b \in DOMAIN line /\ b < i
           /\ Holders(line, b) \subseteq Holders(line, i)
           /\ Before(line, b) \subseteq Before(line, i)
<1>1. /\ Len(line) \in Nat /\ DOMAIN line = 1..Len(line)
      /\ \A k \in DOMAIN line : line[k].depth \in Nat
  BY PlacesOf
<1>2. b \in 1..i - 1 /\ line[b].depth = line[i].depth /\ \A k \in b..i : line[k].depth >= line[i].depth
  BY DEF Before
<1>3. b \in DOMAIN line /\ b < i
  BY <1>1, <1>2
<1>4. ASSUME NEW g \in Holders(line, b)
      PROVE  g \in Holders(line, i)
  <2>1. g \in 1..b - 1 /\ line[g].depth < line[b].depth /\ \A k \in g + 1..b : line[k].depth > line[g].depth
    BY DEF Holders
  <2>2. g \in DOMAIN line /\ g \in 1..i - 1
    BY <1>1, <1>3, <2>1
  <2>3. line[g].depth < line[i].depth
    BY <1>2, <2>1
  <2>4. ASSUME NEW k \in g + 1..i
        PROVE  line[k].depth > line[g].depth
    <3>0. k \in DOMAIN line
      BY <1>1, <1>3, <2>2
    <3>1. CASE k <= b
      <4>1. k \in g + 1..b
        BY <1>1, <1>3, <2>2, <3>0, <3>1
      <4>2. QED BY <2>1, <4>1
    <3>2. CASE ~(k <= b)
      <4>1. k \in b..i
        BY <1>1, <1>3, <3>0, <3>2
      <4>2. line[k].depth >= line[i].depth
        BY <1>2, <4>1
      <4>3. QED BY <1>1, <2>2, <2>3, <3>0, <4>2
    <3>3. QED BY <3>1, <3>2
  <2>5. QED BY <2>2, <2>3, <2>4 DEF Holders
<1>5. ASSUME NEW g \in Before(line, b)
      PROVE  g \in Before(line, i)
  <2>1. g \in 1..b - 1 /\ line[g].depth = line[b].depth /\ \A k \in g..b : line[k].depth >= line[b].depth
    BY DEF Before
  <2>2. g \in 1..i - 1
    BY <1>1, <1>3, <2>1
  <2>3. ASSUME NEW k \in g..i
        PROVE  line[k].depth >= line[i].depth
    <3>0. k \in DOMAIN line
      BY <1>1, <1>3, <2>2
    <3>1. CASE k <= b
      <4>1. k \in g..b
        BY <1>1, <1>3, <2>2, <3>0, <3>1
      <4>2. QED BY <1>2, <2>1, <4>1
    <3>2. CASE ~(k <= b)
      <4>1. k \in b..i
        BY <1>1, <1>3, <3>0, <3>2
      <4>2. QED BY <1>2, <4>1
    <3>3. QED BY <3>1, <3>2
  <2>4. QED BY <1>2, <2>1, <2>2, <2>3 DEF Before
<1>6. QED BY <1>3, <1>4, <1>5

LEMMA BeforeIsFinite ==
    ASSUME NEW line, NEW i \in Nat
    PROVE  IsFiniteSet(Before(line, i)) /\ Cardinality(Before(line, i)) \in Nat
<1>1. IsFiniteSet(1..i - 1)
  BY FS_Interval
<1>2. Before(line, i) \in SUBSET (1..i - 1)
  BY DEF Before
<1>3. QED BY <1>1, <1>2, FS_Subset, FS_CardinalityType

\* The interpreter whose payload a piece below the top is in.
LEMMA ParentOf ==
    ASSUME NEW line \in Seq(Segments), Nested(line), NEW i \in DOMAIN line, line[i].depth > 0
    PROVE  \E h \in Holders(line, i) : line[i].depth = line[h].depth + 1
<1>1. /\ Len(line) \in Nat /\ DOMAIN line = 1..Len(line)
      /\ \A k \in DOMAIN line : line[k].depth \in Nat
  BY PlacesOf
<1> DEFINE above == {j \in DOMAIN line : j <= i /\ line[j].depth < line[i].depth}
<1>2. above \in SUBSET Nat /\ above # {} /\ \A j \in above : j <= i
  <2>1. line # <<>> /\ 1 \in DOMAIN line
    BY <1>1
  <2>2. line[1].depth = 0
    BY <2>1 DEF Nested
  <2>3. QED BY <1>1, <2>1, <2>2
<1>3. PICK h \in above : \A j \in above : h >= j
  <2> HIDE DEF above
  <2>1. i \in Nat
    BY <1>1
  <2>2. QED BY <1>2, <2>1, LargestExists
<1>4. h \in 1..Len(line) /\ h < i /\ line[h].depth < line[i].depth
  BY <1>1
<1>5. ASSUME NEW k \in h + 1..i
      PROVE  line[k].depth >= line[i].depth
  <2>1. k \in DOMAIN line /\ k <= i /\ ~(h >= k)
    BY <1>1, <1>4
  <2>2. k \notin above
    BY <1>3, <2>1
  <2>3. QED BY <1>1, <2>1, <2>2
<1> HIDE DEF above
<1>6. h + 1 \in h + 1..i /\ h + 1 \in DOMAIN line /\ h \in 1..Len(line) - 1
  BY <1>1, <1>4
<1>7. /\ line[h].depth \in Nat /\ line[h + 1].depth \in Nat /\ line[i].depth \in Nat
      /\ line[h + 1].depth >= line[i].depth
      /\ line[h + 1].depth <= line[h].depth \/ line[h + 1].depth = line[h].depth + 1
  <2>1. h \in DOMAIN line
    BY <1>1, <1>4
  <2>2. line[h].depth \in Nat /\ line[h + 1].depth \in Nat /\ line[i].depth \in Nat
    BY <1>1, <1>6, <2>1
  <2>3. line[h + 1].depth >= line[i].depth
    BY <1>5, <1>6
  <2>4. line[h + 1].depth <= line[h].depth \/ line[h + 1].depth = line[h].depth + 1
    BY <1>6 DEF Nested
  <2>5. QED BY <2>2, <2>3, <2>4
<1>8. line[i].depth = line[h].depth + 1
  BY <1>4, <1>7, DepthsOrder, Zenon
<1>9. h \in Holders(line, i)
  <2>1. h \in 1..i - 1
    BY <1>1, <1>4
  <2>2. \A k \in h + 1..i : k \in DOMAIN line
    BY <1>1, <1>4
  <2>3. ASSUME NEW k \in h + 1..i
        PROVE  line[k].depth > line[h].depth
    <3>1. line[k].depth \in Nat /\ line[k].depth >= line[i].depth
      BY <1>1, <1>5, <2>2
    <3>2. QED BY <1>4, <1>7, <3>1, DepthsOrder, Zenon
  <2>4. QED BY <1>4, <2>1, <2>3 DEF Holders
<1>10. QED BY <1>8, <1>9

\* Nothing of a command goes unread in silence.
LEMMA UnreadIsSaid ==
    ASSUME NEW line \in Seq(Segments), NEW long \in BOOLEAN, Nested(line), ~Silent(line, long)
    PROVE  \E n \in Kept(line) : Parse(line, long)[n].degraded
<1>1. /\ MaxSegments \in Nat \ {0} /\ MaxDepth \in Nat
      /\ Len(line) \in Nat /\ DOMAIN line = 1..Len(line)
      /\ \A i \in DOMAIN line : line[i].depth \in Nat
  BY PlacesOf
<1>2. CASE long /\ ~(\A i \in DOMAIN line : IsBlank(line, i))
  <2>1. PICK k \in Kept(line) : line[k].depth = 0
    BY <1>2, FirstIsKept
  <2>2. DegradedAt(line, long, k)
    BY <1>2, <2>1 DEF DegradedAt
  <2>3. QED BY <2>1, <2>2, ParseOf
<1>3. CASE \E i \in DOMAIN line : Parsed(line, i) /\ Earlier(line, i) >= MaxSegments - 1
  <2>1. PICK k \in Kept(line) : Earlier(line, k) = MaxSegments - 1
    BY <1>3, OneAtTheCap
  <2>2. QED BY <2>1, ParseOf
<1>4. CASE /\ ~(long /\ ~(\A i \in DOMAIN line : IsBlank(line, i)))
           /\ ~\E i \in DOMAIN line : Parsed(line, i) /\ Earlier(line, i) >= MaxSegments - 1
  <2>1. \A i \in DOMAIN line : Parsed(line, i) => i \in Kept(line)
    <3>1. ASSUME NEW i \in DOMAIN line, Parsed(line, i)
          PROVE  i \in Kept(line)
      <4>0. i \in Nat
        BY <1>1, <3>1
      <4>1. Earlier(line, i) \in Nat
        BY <4>0, EarlierIs
      <4>2. Earlier(line, i) < MaxSegments
        BY <1>1, <1>4, <3>1, <4>1
      <4>3. QED BY <3>1, <4>2 DEF Kept
    <3>2. QED BY <3>1
  <2> DEFINE missed == {i \in DOMAIN line : /\ ~IsBlank(line, i) /\ ~Parsed(line, i)
                                           /\ ~Excepted(line, i)}
  <2>2. missed \in SUBSET Nat /\ missed # {}
    <3>1. PICK i \in Unread(line) : ~Excepted(line, i)
      BY <1>4 DEF Silent
    <3>2. i \in DOMAIN line /\ ~IsBlank(line, i) /\ i \notin Kept(line)
      BY DEF Unread
    <3>3. QED BY <1>1, <2>1, <3>1, <3>2
  <2>3. PICK u \in missed : \A m \in missed : u <= m
    <3> HIDE DEF missed
    <3>1. QED BY <2>2, FirstIn
  <2>4. u \in DOMAIN line /\ u \in Nat /\ ~IsBlank(line, u) /\ ~Parsed(line, u) /\ ~Excepted(line, u)
    BY <1>1
  <2>5. \A i \in DOMAIN line : i < u /\ ~IsBlank(line, i) /\ ~Excepted(line, i) => Parsed(line, i)
    BY <1>1, <2>3, <2>4
  <2> HIDE DEF missed
  \* What holds it is read.
  <2>6. ASSUME NEW h \in Holders(line, u)
        PROVE  Parsed(line, h)
    <3>1. /\ h \in DOMAIN line /\ h < u
          /\ Holders(line, h) \subseteq Holders(line, u)
          /\ line[h + 1].depth > line[h].depth
      BY <2>4, HoldersOf
    <3>2. ~IsBlank(line, h)
      <4>1. h \in 1..Len(line) - 1
        BY <1>1, <2>4, <3>1
      <4>2. h + 1 \in DOMAIN line
        BY <1>1, <4>1
      <4>3. QED BY <1>1, <3>1, <4>1, <4>2 DEF Nested
    <3>3. Swallowed(line, h) => Swallowed(line, u)
      BY <3>1 DEF Swallowed
    <3>4. Padded(line, h) => Padded(line, u)
      BY <3>1 DEF Padded
    <3>5. ~Excepted(line, h)
      BY <2>4, <3>3, <3>4 DEF Excepted
    <3>6. QED BY <2>5, <3>1, <3>2, <3>5
  <2>7. CASE Swallowed(line, u)
    <3>1. ~Padded(line, u)
      BY <2>4, <2>7 DEF Excepted
    <3>2. \A h \in Holders(line, u) : ~Glued(line, h)
      BY <2>6 DEF Parsed, Swallowed
    <3>3. Glued(line, u)
      BY <2>7, <3>2 DEF Swallowed
    <3>4. PICK j \in Before(line, u) :
            ~IsBlank(line, j) /\ Cardinality(Before(line, j)) >= MaxSegments - 1
      BY <3>3 DEF Glued
    <3>5. ASSUME NEW b \in Before(line, u)
          PROVE  Parsed(line, b)
      <4>1. /\ b \in DOMAIN line /\ b < u
            /\ Holders(line, b) \subseteq Holders(line, u)
            /\ Before(line, b) \subseteq Before(line, u)
        BY <2>4, BeforeOf
      <4>2. ~IsBlank(line, b)
        BY <3>1 DEF Padded
      <4>3. ~Padded(line, b)
        <5>1. \A c \in Before(line, b) : ~IsBlank(line, c)
          BY <3>1, <4>1 DEF Padded
        <5>2. \A h \in Holders(line, b) : \A c \in Before(line, h) : ~IsBlank(line, c)
          BY <3>1, <4>1 DEF Padded
        <5>3. QED BY <5>1, <5>2 DEF Padded
      <4>4. ~Excepted(line, b)
        BY <4>3 DEF Excepted
      <4>5. QED BY <2>5, <4>1, <4>2, <4>4
    <3>6. j \in DOMAIN line /\ j \in Nat /\ Before(line, j) \subseteq Before(line, u)
      BY <1>1, <2>4, BeforeOf
    <3>7. Before(line, j) \subseteq {k \in 1..j - 1 : Parsed(line, k)}
      BY <3>5, <3>6 DEF Before
    <3>8. Earlier(line, j) >= Cardinality(Before(line, j))
      <4>1. IsFiniteSet({k \in 1..j - 1 : Parsed(line, k)})
        BY <3>6, EarlierIs
      <4>2. Cardinality(Before(line, j)) <= Cardinality({k \in 1..j - 1 : Parsed(line, k)})
        BY <3>7, <4>1, FS_Subset
      <4>3. Cardinality(Before(line, j)) \in Nat /\ Earlier(line, j) \in Nat
        BY <3>6, BeforeIsFinite, EarlierIs
      <4>4. QED BY <4>2, <4>3 DEF Earlier
    <3>9. Earlier(line, j) >= MaxSegments - 1
      <4>1. Cardinality(Before(line, j)) \in Nat /\ Earlier(line, j) \in Nat
        BY <3>6, BeforeIsFinite, EarlierIs
      <4>2. QED BY <1>1, <3>4, <3>8, <4>1
    <3>10. Parsed(line, j)
      BY <3>4, <3>5
    <3>11. QED BY <1>4, <3>6, <3>9, <3>10
  <2>8. CASE ~Swallowed(line, u)
    <3>1. line[u].depth > MaxDepth
      <4>1. ~Reached(line, u)
        BY <2>4, <2>8 DEF Parsed
      <4>2. QED BY <1>1, <2>4, <4>1 DEF Reached
    <3>2. PICK h \in Holders(line, u) : line[u].depth = line[h].depth + 1
      <4>1. line[u].depth > 0
        BY <1>1, <2>4, <3>1
      <4>2. QED BY <2>4, <4>1, ParentOf
    <3>3. h \in DOMAIN line /\ h < u /\ line[h + 1].depth > line[h].depth
      BY <2>4, HoldersOf
    <3>4. Parsed(line, h)
      BY <2>6
    <3>5. line[h].depth = MaxDepth
      <4>1. line[h].depth <= MaxDepth
        BY <3>4 DEF Parsed, Reached
      <4>2. QED BY <1>1, <2>4, <3>1, <3>2, <3>3, <4>1
    <3>6. HasPayload(line, h)
      BY <1>1, <2>4, <3>3 DEF HasPayload
    <3>7. DegradedAt(line, long, h)
      BY <3>5, <3>6 DEF DegradedAt
    <3>8. h \in Kept(line)
      BY <2>1, <3>3, <3>4
    <3>9. QED BY <3>7, <3>8, ParseOf
  <2>9. QED BY <2>7, <2>8
<1>5. QED BY <1>2, <1>3, <1>4

-----------------------------------------------------------------------------
(* What the arguments raise a call to.                                     *)

Statements == [kind: Kinds, predicate: Predicates]
\* What a call is known to be on the way through the readers.
Graded == [class: Classes \cup {"unknown", "delete"}, tier: Tiers]
Calls == [named: Finds, line: Seq(Segments), long: BOOLEAN, sql: Seq(Statements),
          urls: Seq([says: Finds, over: BOOLEAN]), crowd: BOOLEAN,
          deep: BOOLEAN, least: {NONE, "medium", "high"}]

LEMMA KnownIs ==
    \A f \in Graded : f.tier \in Tiers /\ Order(f.tier) \in 0..3
                       /\ (Order(f.tier) = 3 <=> f.tier = "critical")
BY DEF Graded, Order, Tiers

LEMMA FoundKnown == \A f \in Finds \ {NONE} : f \in Graded
BY DEF Finds, Findings, Graded

LEMMA RaiseOf ==
    ASSUME NEW known \in Graded, NEW found, found # NONE => found \in Graded
    PROVE  /\ Raise(known, found) \in Graded
           /\ Order(Raise(known, found).tier) = MaxOf(Order(known.tier), Bad(found))
<1>1. Order(known.tier) \in 0..3
  BY KnownIs
<1>2. CASE found = NONE
  BY <1>1, <1>2 DEF Raise, MaxOf, Bad
<1>3. CASE found # NONE
  <2>1. Order(found.tier) \in 0..3 /\ Bad(found) = Order(found.tier)
    BY <1>3, KnownIs DEF Bad
  <2>2. QED BY <1>1, <1>3, <2>1 DEF Raise, MaxOf
<1>4. QED BY <1>2, <1>3

LEMMA BatchOf ==
    ASSUME NEW sql \in Seq(Statements)
    PROVE  /\ ReadBatch(sql) \in Seq(Statements)
           /\ Len(sql) >= MaxStatements =>
                /\ Len(ReadBatch(sql)) = MaxStatements + 1
                /\ ReadBatch(sql)[MaxStatements + 1] = Unparsed
                /\ \A n \in 1..MaxStatements : ReadBatch(sql)[n] = sql[n]
           /\ Len(sql) < MaxStatements => ReadBatch(sql) = sql
<1>1. MaxStatements \in Nat /\ Len(sql) \in Nat
  BY ImpactAssumption
<1>2. Unparsed \in Statements
  BY DEF Unparsed, Statements, Kinds, Predicates
<1>3. CASE Len(sql) < MaxStatements
  BY <1>1, <1>3 DEF ReadBatch
<1>4. CASE Len(sql) >= MaxStatements
  <2>1. PICK head : head = SubSeq(sql, 1, MaxStatements)
    OBVIOUS
  <2>2. \A n \in 1..MaxStatements : sql[n] \in Statements
    BY <1>1, <1>4
  <2>3. /\ head \in Seq(Statements) /\ Len(head) = MaxStatements
        /\ \A n \in 1..MaxStatements : head[n] = sql[n]
    BY <1>1, <2>1, <2>2, SubSeqProperties
  <2>4. ReadBatch(sql) = Append(head, Unparsed)
    BY <1>1, <1>4, <2>1 DEF ReadBatch
  <2>5. QED BY <1>1, <1>2, <1>4, <2>3, <2>4
<1>5. QED BY <1>1, <1>3, <1>4

LEMMA SqlOf ==
    ASSUME NEW sql \in Seq(Statements)
    PROVE  /\ ClassifySql(sql) \in Finds
           /\ \A n \in DOMAIN ReadBatch(sql) :
                /\ SqlRule(ReadBatch(sql)[n].kind, ReadBatch(sql)[n].predicate) \in Finds
                /\ Bad(SqlRule(ReadBatch(sql)[n].kind, ReadBatch(sql)[n].predicate))
                     <= Bad(ClassifySql(sql))
           /\ ClassifySql(sql) # NONE =>
                \E n \in DOMAIN ReadBatch(sql) : ClassifySql(sql) =
                    SqlRule(ReadBatch(sql)[n].kind, ReadBatch(sql)[n].predicate)
<1>1. PICK batch : batch = ReadBatch(sql)
  OBVIOUS
<1>2. batch \in Seq(Statements) /\ DOMAIN batch \in SUBSET Nat
  BY <1>1, BatchOf
<1>3. PICK found : found = [n \in DOMAIN batch |-> SqlRule(batch[n].kind, batch[n].predicate)]
  OBVIOUS
<1>4. \A n \in DOMAIN batch : batch[n].kind \in Kinds /\ batch[n].predicate \in Predicates
  <2>1. \A n \in DOMAIN batch : batch[n] \in Statements
    BY <1>2
  <2>2. QED BY <2>1 DEF Statements
<1>5. DOMAIN found \in SUBSET Nat /\ \A n \in DOMAIN found : found[n] \in Finds
  BY <1>2, <1>3, <1>4, ImpactAssumption DEF Finds
<1>6. ClassifySql(sql) = Best(found)
  BY <1>1, <1>3 DEF ClassifySql
<1>7. \A n \in DOMAIN batch : found[n] = SqlRule(batch[n].kind, batch[n].predicate)
  BY <1>3
<1>8. DOMAIN found = DOMAIN batch
  BY <1>3
<1>9. /\ Best(found) \in Finds
      /\ \A n \in DOMAIN found : Bad(found[n]) <= Bad(Best(found))
      /\ Best(found) # NONE => \E n \in DOMAIN found : Best(found) = found[n]
  BY <1>5, BestOf
<1>10. QED BY <1>1, <1>5, <1>6, <1>7, <1>8, <1>9

LEMMA SqlGrows ==
    ASSUME NEW sql \in Seq(Statements), NEW s \in Statements
    PROVE  Bad(ClassifySql(sql)) <= Bad(ClassifySql(Append(sql, s)))
<1>1. PICK more : more = Append(sql, s)
  OBVIOUS
<1>2. /\ more \in Seq(Statements) /\ Len(more) = Len(sql) + 1 /\ Len(sql) \in Nat
      /\ \A n \in 1..Len(sql) : more[n] = sql[n]
  BY <1>1
<1>3. MaxStatements \in Nat
  BY ImpactAssumption
<1>4. ASSUME NEW n \in DOMAIN ReadBatch(sql)
      PROVE  n \in DOMAIN ReadBatch(more) /\ ReadBatch(more)[n] = ReadBatch(sql)[n]
  <2>0. ReadBatch(sql) \in Seq(Statements) /\ ReadBatch(more) \in Seq(Statements)
    BY <1>2, BatchOf
  <2>1. CASE Len(sql) < MaxStatements
    <3>1. ReadBatch(sql) = sql /\ n \in 1..Len(sql)
      BY <2>1, BatchOf
    <3>2. CASE Len(more) < MaxStatements
      <4>1. ReadBatch(more) = more
        BY <1>2, <3>2, BatchOf
      <4>2. QED BY <1>2, <3>1, <4>1
    <3>3. CASE Len(more) >= MaxStatements
      <4>1. /\ Len(ReadBatch(more)) = MaxStatements + 1
            /\ \A m \in 1..MaxStatements : ReadBatch(more)[m] = more[m]
        BY <1>2, <3>3, BatchOf
      <4>2. n \in 1..MaxStatements
        BY <1>2, <1>3, <2>1, <3>1
      <4>3. QED BY <1>2, <1>3, <2>0, <3>1, <4>1, <4>2
    <3>4. QED BY <1>2, <1>3, <3>2, <3>3
  <2>2. CASE Len(sql) >= MaxStatements
    <3>1. Len(more) >= MaxStatements
      BY <1>2, <1>3, <2>2
    <3>2. /\ Len(ReadBatch(more)) = MaxStatements + 1
          /\ ReadBatch(more)[MaxStatements + 1] = Unparsed
          /\ \A m \in 1..MaxStatements : ReadBatch(more)[m] = more[m]
      BY <1>2, <3>1, BatchOf
    <3>3. /\ Len(ReadBatch(sql)) = MaxStatements + 1
          /\ ReadBatch(sql)[MaxStatements + 1] = Unparsed
          /\ \A m \in 1..MaxStatements : ReadBatch(sql)[m] = sql[m]
      BY <2>2, BatchOf
    <3>4. n \in 1..MaxStatements + 1 /\ n \in DOMAIN ReadBatch(more)
      BY <2>0, <3>2, <3>3
    <3>5. CASE n = MaxStatements + 1
      BY <3>2, <3>3, <3>4, <3>5
    <3>6. CASE n # MaxStatements + 1
      <4>1. n \in 1..MaxStatements /\ n \in 1..Len(sql)
        BY <1>2, <1>3, <2>2, <3>4, <3>6
      <4>2. QED BY <1>2, <3>2, <3>3, <3>4, <4>1
    <3>7. QED BY <3>5, <3>6
  <2>3. QED BY <1>2, <1>3, <2>1, <2>2
<1>5. ClassifySql(sql) \in Finds /\ ClassifySql(more) \in Finds
  BY <1>2, SqlOf
<1>6. CASE ClassifySql(sql) = NONE
  BY <1>1, <1>5, <1>6, BadIs DEF Bad
<1>7. CASE ClassifySql(sql) # NONE
  <2>1. PICK n \in DOMAIN ReadBatch(sql) : ClassifySql(sql) =
            SqlRule(ReadBatch(sql)[n].kind, ReadBatch(sql)[n].predicate)
    BY <1>7, SqlOf
  <2>2. n \in DOMAIN ReadBatch(more)
        /\ ClassifySql(sql) = SqlRule(ReadBatch(more)[n].kind, ReadBatch(more)[n].predicate)
    BY <1>4, <2>1
  <2>3. QED BY <1>1, <1>2, <2>2, SqlOf
<1>8. QED BY <1>6, <1>7

LEMMA HighestOf ==
    ASSUME NEW found, DOMAIN found \in SUBSET Nat, \A n \in DOMAIN found : found[n] \in Finds
    PROVE  /\ Highest(found) \in Finds
           /\ \A n \in DOMAIN found : Bad(found[n]) <= Bad(Highest(found))
           /\ Highest(found) # NONE => \E n \in DOMAIN found : Highest(found) = found[n]
<1>1. /\ Hits(found) \in SUBSET Nat
      /\ Hits(found) \in SUBSET DOMAIN found
      /\ \A n \in Hits(found) : found[n] \in Findings
      /\ \A n \in DOMAIN found \ Hits(found) : found[n] = NONE
  BY DEF Hits, Finds
<1>2. CASE Hits(found) = {}
  <2>1. Highest(found) = NONE
    BY <1>2 DEF Highest
  <2>2. \A n \in DOMAIN found : found[n] = NONE
    BY <1>1, <1>2
  <2>3. QED BY <2>1, <2>2 DEF Finds, Bad
<1>3. CASE Hits(found) # {}
  <2> DEFINE top == {n \in Hits(found) : \A m \in Hits(found) : Order(found[m].tier) <= Order(found[n].tier)}
  <2>1. top # {}
    <3> DEFINE orders == {Order(found[n].tier) : n \in Hits(found)}
    <3>1. \A n \in Hits(found) : Order(found[n].tier) \in 0..3
      BY <1>1, FoundIs
    <3>2. orders \in SUBSET Nat /\ orders # {} /\ \A x \in orders : x <= 3
      BY <1>3, <3>1
    <3>3. PICK m \in orders : \A x \in orders : m >= x
      <4> HIDE DEF orders
      <4>1. 3 \in Nat
        OBVIOUS
      <4>2. QED BY <3>2, <4>1, LargestExists
    <3>4. PICK n \in Hits(found) : m = Order(found[n].tier)
      BY <3>3
    <3>5. \A k \in Hits(found) : Order(found[k].tier) <= Order(found[n].tier)
      <4>1. \A k \in Hits(found) : Order(found[k].tier) \in orders
        OBVIOUS
      <4>2. \A k \in Hits(found) : m >= Order(found[k].tier)
        BY <3>3, <4>1
      <4>3. QED BY <3>1, <3>4, <4>2
    <3>6. QED BY <3>4, <3>5
  <2>2. PICK n : n = First(top)
    OBVIOUS
  <2>3. n \in top
    <3>1. top \in SUBSET Nat
      BY <1>1
    <3> HIDE DEF top
    <3>2. QED BY <2>1, <2>2, <3>1, FirstIn
  <2>4. n \in Hits(found) /\ \A m \in Hits(found) : Order(found[m].tier) <= Order(found[n].tier)
    BY <2>3
  <2>5. Highest(found) = found[n]
    BY <1>3, <2>2 DEF Highest
  <2>6. found[n] \in Findings /\ found[n] # NONE
    BY <1>1, <2>4, FoundIs
  <2>7. ASSUME NEW m \in DOMAIN found
        PROVE  Bad(found[m]) <= Bad(found[n])
    <3>1. CASE m \in Hits(found)
      BY <2>4, <2>6, <3>1 DEF Bad, Hits
    <3>2. CASE m \notin Hits(found)
      <4>1. found[m] = NONE
        BY <1>1, <3>2
      <4>2. Bad(found[n]) \in -1..3
        BY <2>6, BadIs DEF Finds
      <4>3. QED BY <4>1, <4>2 DEF Bad
    <3>3. QED BY <3>1, <3>2
  <2>8. QED BY <1>1, <2>4, <2>5, <2>6, <2>7 DEF Finds
<1>4. QED BY <1>2, <1>3

UrlsSay(urls) == Highest([n \in DOMAIN urls |-> urls[n].says])
LEMMA UrlsOf ==
    ASSUME NEW urls \in Seq([says: Finds, over: BOOLEAN])
    PROVE  /\ UrlsSay(urls) \in Finds
           /\ \A n \in DOMAIN urls : Bad(urls[n].says) <= Bad(UrlsSay(urls))
           /\ UrlsSay(urls) # NONE => \E n \in DOMAIN urls : UrlsSay(urls) = urls[n].says
<1>1. PICK found : found = [n \in DOMAIN urls |-> urls[n].says]
  OBVIOUS
<1>2. /\ DOMAIN found = DOMAIN urls /\ DOMAIN found \in SUBSET Nat
      /\ \A n \in DOMAIN urls : found[n] = urls[n].says /\ found[n] \in Finds
  <2>1. PICK kinds : kinds = [says: Finds, over: BOOLEAN]
    OBVIOUS
  <2>2. urls \in Seq(kinds)
    BY <2>1
  <2>3. DOMAIN urls \in SUBSET Nat
    BY <2>2
  <2>4. \A n \in DOMAIN urls : urls[n] \in kinds
    BY <2>2
  <2>5. \A n \in DOMAIN urls : urls[n].says \in Finds
    BY <2>1, <2>4
  <2>6. QED BY <1>1, <2>3, <2>5
<1>3. UrlsSay(urls) = Highest(found)
  BY <1>1 DEF UrlsSay
<1>4. QED BY <1>2, <1>3, HighestOf

LEMMA UrlsGrow ==
    ASSUME NEW urls \in Seq([says: Finds, over: BOOLEAN]), NEW u \in [says: Finds, over: BOOLEAN]
    PROVE  Bad(UrlsSay(urls)) <= Bad(UrlsSay(Append(urls, u)))
<1>1. PICK more : more = Append(urls, u)
  OBVIOUS
<1>2. /\ more \in Seq([says: Finds, over: BOOLEAN])
      /\ \A n \in DOMAIN urls : n \in DOMAIN more /\ more[n] = urls[n]
  BY <1>1
<1>3. UrlsSay(urls) \in Finds /\ UrlsSay(more) \in Finds
  BY <1>2, UrlsOf
<1>4. CASE UrlsSay(urls) = NONE
  BY <1>1, <1>3, <1>4, BadIs DEF Bad
<1>5. CASE UrlsSay(urls) # NONE
  BY <1>1, <1>2, <1>5, UrlsOf
<1>6. QED BY <1>4, <1>5

\* What each part of a call raises it to.
CrowdSays(c) == IF c.crowd THEN [class |-> "delete", tier |-> "critical"] ELSE NONE
Raised(c) ==
    <<Order(ByName(c).tier), Bad(ClassifySql(c.sql)), Bad(UrlsSay(c.urls)), Bad(CrowdSays(c)),
      IF c.least = NONE THEN -1 ELSE Order(c.least)>>

LEMMA ByNameIs ==
    ASSUME NEW c \in Calls
    PROVE  ByName(c) \in Graded
<1>1. c.named \in Finds /\ c.line \in Seq(Segments)
  BY DEF Calls
<1>2. ClassifyCommand(c.line, c.long) \in Finds
  BY <1>1, CommandOf
<1>3. Default \in Graded
  BY DEF Default, Graded, Tiers
<1>4. QED BY <1>1, <1>2, <1>3, FoundKnown DEF ByName

\* A call is as bad as the worst of its parts, when its arguments can be walked.
LEMMA GradeOf ==
    ASSUME NEW c \in Calls
    PROVE  /\ Grade(c) \in Graded
           /\ \A n \in 1..5 : Raised(c)[n] \in -1..3 /\ Raised(c)[n] <= Order(Grade(c).tier)
           /\ \E n \in 1..5 : Order(Grade(c).tier) = Raised(c)[n]
<1>1. c.sql \in Seq(Statements) /\ c.urls \in Seq([says: Finds, over: BOOLEAN])
      /\ c.crowd \in BOOLEAN /\ c.least \in {NONE, "medium", "high"}
  BY DEF Calls
<1>2. PICK k1 : k1 = ByName(c)
  OBVIOUS
<1>3. PICK k2 : k2 = BySql(c, k1)
  OBVIOUS
<1>4. PICK k3 : k3 = ByUrls(c, k2)
  OBVIOUS
<1>5. PICK k4 : k4 = ByCrowd(c, k3)
  OBVIOUS
<1>6. PICK k5 : k5 = ByEscalation(c, k4)
  OBVIOUS
<1>7. Grade(c) = k5
  BY <1>2, <1>3, <1>4, <1>5, <1>6 DEF Grade
<1>8. PICK r1 : r1 = Order(ByName(c).tier)
  OBVIOUS
<1>9. PICK r2 : r2 = Bad(ClassifySql(c.sql))
  OBVIOUS
<1>10. PICK r3 : r3 = Bad(UrlsSay(c.urls))
  OBVIOUS
<1>11. PICK r4 : r4 = Bad(CrowdSays(c))
  OBVIOUS
<1>12. PICK r5 : r5 = IF c.least = NONE THEN -1 ELSE Order(c.least)
  OBVIOUS
<1>13. Raised(c) = <<r1, r2, r3, r4, r5>>
  BY <1>8, <1>9, <1>10, <1>11, <1>12 DEF Raised
<1>14. k1 \in Graded /\ Order(k1.tier) = r1 /\ r1 \in 0..3
  BY <1>2, <1>8, ByNameIs, KnownIs
<1>15. /\ k2 \in Graded /\ Order(k2.tier) = MaxOf(r1, r2) /\ r2 \in -1..3
  <2>1. ClassifySql(c.sql) \in Finds
    BY <1>1, SqlOf
  <2>2. ClassifySql(c.sql) # NONE => ClassifySql(c.sql) \in Graded
    BY <2>1, FoundKnown
  <2>3. k2 = Raise(k1, ClassifySql(c.sql))
    BY <1>3 DEF BySql
  <2>4. QED BY <1>9, <1>14, <2>1, <2>2, <2>3, RaiseOf, BadIs
<1>16. /\ k3 \in Graded /\ Order(k3.tier) = MaxOf(MaxOf(r1, r2), r3) /\ r3 \in -1..3
  <2>1. UrlsSay(c.urls) \in Finds
    BY <1>1, UrlsOf
  <2>2. UrlsSay(c.urls) # NONE => UrlsSay(c.urls) \in Graded
    BY <2>1, FoundKnown
  <2>3. k3 = Raise(k2, UrlsSay(c.urls))
    BY <1>4 DEF ByUrls, UrlsSay
  <2>4. QED BY <1>10, <1>15, <2>1, <2>2, <2>3, RaiseOf, BadIs
<1>17. /\ k4 \in Graded /\ Order(k4.tier) = MaxOf(MaxOf(MaxOf(r1, r2), r3), r4) /\ r4 \in -1..3
  <2>1. CrowdSays(c) # NONE => CrowdSays(c) \in Graded
    BY DEF CrowdSays, Graded, Tiers
  <2>2. Bad(CrowdSays(c)) \in -1..3
    BY <2>1, KnownIs DEF Bad
  <2>3. k4 = Raise(k3, CrowdSays(c))
    BY <1>5 DEF ByCrowd, CrowdSays
  <2>4. QED BY <1>11, <1>16, <2>1, <2>2, <2>3, RaiseOf
<1>18. /\ k5 \in Graded
       /\ Order(k5.tier) = MaxOf(MaxOf(MaxOf(MaxOf(r1, r2), r3), r4), r5) /\ r5 \in -1..3
  <2>1. PICK o : o = MaxOf(MaxOf(MaxOf(r1, r2), r3), r4)
    OBVIOUS
  <2>2. o = Order(k4.tier) /\ o \in 0..3
    BY <1>17, <2>1, KnownIs
  <2>3. r5 \in -1..3 /\ (c.least # NONE => c.least \in Tiers /\ r5 = Order(c.least))
    BY <1>1, <1>12 DEF Order, Tiers
  <2>4. CASE c.least # NONE /\ r5 > o
    <3>1. k5 = [k4 EXCEPT !.tier = c.least]
      BY <1>6, <2>2, <2>3, <2>4 DEF ByEscalation
    <3>2. k5 \in Graded /\ k5.tier = c.least
      BY <1>17, <2>3, <2>4, <3>1 DEF Graded
    <3>3. MaxOf(o, r5) = r5
      BY <2>2, <2>3, <2>4 DEF MaxOf
    <3>4. QED BY <2>1, <2>3, <2>4, <3>2, <3>3
  <2>5. CASE ~ (c.least # NONE /\ r5 > o)
    <3>1. k5 = k4
      BY <1>6, <2>2, <2>3, <2>5 DEF ByEscalation
    <3>2. MaxOf(o, r5) = o
      BY <1>12, <2>2, <2>3, <2>5 DEF MaxOf
    <3>3. QED BY <1>17, <2>1, <2>2, <2>3, <3>1, <3>2
  <2>6. QED BY <2>4, <2>5
<1>19. PICK g : g = MaxOf(MaxOf(MaxOf(MaxOf(r1, r2), r3), r4), r5)
  OBVIOUS
<1>20. /\ r1 <= g /\ r2 <= g /\ r3 <= g /\ r4 <= g /\ r5 <= g
       /\ g \in {r1, r2, r3, r4, r5}
  BY <1>14, <1>15, <1>16, <1>17, <1>18, <1>19 DEF MaxOf
<1>21. Order(Grade(c).tier) = g /\ Grade(c) \in Graded
  BY <1>7, <1>18, <1>19
<1>22. \A n \in 1..5 : Raised(c)[n] \in {r1, r2, r3, r4, r5}
  BY <1>13
<1>23. \A n \in 1..5 : Raised(c)[n] \in -1..3 /\ Raised(c)[n] <= g
  BY <1>14, <1>15, <1>16, <1>17, <1>18, <1>20, <1>22
<1>24. \E n \in 1..5 : g = Raised(c)[n]
  BY <1>13, <1>20
<1>25. QED BY <1>21, <1>23, <1>24

LEMMA NoneLess ==
    ASSUME NEW c \in Calls, NEW d \in Calls, \A n \in 1..5 : Raised(c)[n] <= Raised(d)[n]
    PROVE  Order(Grade(d).tier) >= Order(Grade(c).tier)
<1>1. PICK n \in 1..5 : Order(Grade(c).tier) = Raised(c)[n]
  BY GradeOf
<1>2. Raised(c)[n] \in -1..3 /\ Raised(d)[n] \in -1..3 /\ Raised(d)[n] <= Order(Grade(d).tier)
  BY GradeOf
<1>3. Order(Grade(d).tier) \in 0..3
  BY GradeOf, KnownIs
<1>4. QED BY <1>1, <1>2, <1>3

\* Arguments that cannot be walked are reported to be so.
LEMMA ClassifyIs ==
    ASSUME NEW c
    PROVE  /\ ~c.deep => Classify(c) = Grade(c) /\ BoundFaults(c) = Bounded(c)
           /\ c.deep => "arguments.walk_truncated" \in BoundFaults(c)
BY DEF Classify, BoundFaults

-----------------------------------------------------------------------------
(* A call and a clause while they are written.                             *)

CallInv == call \in Calls /\ Nested(call.line)
\* What a clause is read as, and what it really does.
Clauses ==
    {c \in [reads: Predicates \ {"none"}, rows: SUBSET Rows, column: BOOLEAN] :
        /\ c.reads = "tautology" => c.rows = Rows
        /\ c.reads = "bounded" => c.column}
ClauseInv == clause.is # NONE => clause.is \in Clauses

LEMMA TermsAre == Terms \subseteq Clauses
BY DEF Terms, Clauses, Predicates

LEMMA ClausesClosed ==
    ASSUME NEW c \in Clauses, NEW d \in Clauses
    PROVE  Negated(c) \in Clauses /\ Either(c, d) \in Clauses /\ Both(c, d) \in Clauses
<1>1. /\ c.reads \in {"bounded", "tautology", "unknown"} /\ d.reads \in {"bounded", "tautology", "unknown"}
      /\ c.rows \in SUBSET Rows /\ d.rows \in SUBSET Rows
      /\ c.column \in BOOLEAN /\ d.column \in BOOLEAN
      /\ c.reads = "tautology" => c.rows = Rows
      /\ c.reads = "bounded" => c.column
      /\ d.reads = "tautology" => d.rows = Rows
      /\ d.reads = "bounded" => d.column
  BY DEF Clauses, Predicates
<1>2. Negated(c) \in Clauses
  BY <1>1 DEF Negated, Clauses, Predicates
<1>3. Either(c, d) \in Clauses
  <2>1. PICK reads : reads = CASE "tautology" \in {c.reads, d.reads} -> "tautology"
                              [] {c.reads, d.reads} = {"bounded"} -> "bounded"
                              [] OTHER -> "unknown"
    OBVIOUS
  <2>2. PICK rows : rows = c.rows \cup d.rows
    OBVIOUS
  <2>3. PICK column \in BOOLEAN : column = (c.column \/ d.column)
    OBVIOUS
  <2>4. Either(c, d) = [reads |-> reads, rows |-> rows, column |-> column]
    BY <2>1, <2>2, <2>3 DEF Either
  <2>5. reads \in Predicates \ {"none"} /\ rows \in SUBSET Rows
    BY <1>1, <2>1, <2>2 DEF Predicates
  <2>6. reads = "tautology" => rows = Rows
    BY <1>1, <2>1, <2>2
  <2>7. reads = "bounded" => column
    <3>1. reads = "bounded" => c.reads = "bounded"
      BY <1>1, <2>1
    <3>2. QED BY <1>1, <2>3, <3>1
  <2>8. QED BY <2>4, <2>5, <2>6, <2>7 DEF Clauses
<1>4. Both(c, d) \in Clauses
  <2>1. PICK reads : reads = CASE "bounded" \in {c.reads, d.reads} -> "bounded"
                              [] {c.reads, d.reads} = {"tautology"} -> "tautology"
                              [] OTHER -> "unknown"
    OBVIOUS
  <2>2. PICK rows : rows = c.rows \cap d.rows
    OBVIOUS
  <2>3. PICK column \in BOOLEAN : column = (c.column \/ d.column)
    OBVIOUS
  <2>4. Both(c, d) = [reads |-> reads, rows |-> rows, column |-> column]
    BY <2>1, <2>2, <2>3 DEF Both
  <2>5. reads \in Predicates \ {"none"} /\ rows \in SUBSET Rows
    BY <1>1, <2>1, <2>2 DEF Predicates
  <2>6. reads = "tautology" => rows = Rows
    <3>1. reads = "tautology" => c.reads = "tautology" /\ d.reads = "tautology"
      BY <1>1, <2>1
    <3>2. QED BY <1>1, <2>2, <3>1
  <2>7. reads = "bounded" => column
    <3>1. reads = "bounded" => c.reads = "bounded" \/ d.reads = "bounded"
      BY <1>1, <2>1
    <3>2. QED BY <1>1, <2>3, <3>1
  <2>8. QED BY <2>4, <2>5, <2>6, <2>7 DEF Clauses
<1>5. QED BY <1>2, <1>3, <1>4

LEMMA NoCallIs == NoCall \in Calls /\ Nested(NoCall.line) /\ ~NoCall.long
<1>1. NONE \in Finds
  BY DEF Finds
<1>2. NoCall \in Calls
  BY <1>1 DEF NoCall, Calls
<1>3. QED BY <1>2 DEF NoCall, Nested

LEMMA InspectInit == Init => CallInv /\ ClauseInv
BY NoCallIs DEF Init, CallInv, ClauseInv, NoClause

\* A segment that fits keeps the line nested.
LEMMA FitsNested ==
    ASSUME NEW line \in Seq(Segments), Nested(line), NEW s \in Segments, Fits(line, s)
    PROVE  Append(line, s) \in Seq(Segments) /\ Nested(Append(line, s))
<1>1. PICK more : more = Append(line, s)
  OBVIOUS
<1>2. /\ Len(line) \in Nat /\ more \in Seq(Segments) /\ Len(more) = Len(line) + 1
      /\ \A i \in 1..Len(line) : more[i] = line[i]
      /\ more[Len(line) + 1] = s
  BY <1>1
<1>3. \A i \in 1..Len(line) : line[i] \in Segments
  OBVIOUS
<1>4. s.depth \in Nat /\ \A i \in 1..Len(line) : line[i].depth \in Nat
  BY <1>3 DEF Segments
<1>5. more[1].depth = 0
  <2>1. CASE line = <<>>
    <3>1. Len(line) = 0
      BY <2>1
    <3>2. s.depth = 0
      BY <2>1 DEF Fits
    <3>3. QED BY <1>2, <3>1, <3>2
  <2>2. CASE line # <<>>
    <3>1. 1 \in 1..Len(line)
      BY <2>2
    <3>2. QED BY <1>2, <2>2, <3>1 DEF Nested
  <2>3. QED BY <2>1, <2>2
<1>6. ASSUME NEW i \in 1..Len(more) - 1
      PROVE  \/ more[i + 1].depth <= more[i].depth
             \/ more[i + 1].depth = more[i].depth + 1 /\ ~IsBlank(more, i)
  <2>1. CASE i < Len(line)
    <3>1. more[i + 1] = line[i + 1] /\ more[i] = line[i] /\ i \in 1..Len(line) - 1
      BY <1>2, <2>1
    <3>2. IsBlank(more, i) <=> IsBlank(line, i)
      BY <3>1 DEF IsBlank
    <3>3. QED BY <3>1, <3>2 DEF Nested
  <2>2. CASE i = Len(line)
    <3>1. more[i] = line[i] /\ more[i + 1] = s /\ line[i].depth \in Nat /\ line # <<>>
      BY <1>2, <1>4, <2>2
    <3>2. \/ s.depth = 0 \/ s.depth <= line[i].depth
          \/ s.depth = line[i].depth + 1 /\ line[i].runs \in {"shell", "other"}
      BY <2>2 DEF Fits, Last
    <3>3. line[i].runs \in {"shell", "other"} => ~IsBlank(more, i)
      BY <3>1 DEF IsBlank
    <3>4. QED BY <1>4, <3>1, <3>2, <3>3
  <2>3. QED BY <1>2, <2>1, <2>2
<1>7. QED BY <1>1, <1>2, <1>5, <1>6 DEF Nested

\* One field of a call is written.
LEMMA CallsWith ==
    ASSUME NEW c \in Calls
    PROVE  /\ \A line \in Seq(Segments) : [c EXCEPT !.line = line] \in Calls
           /\ [c EXCEPT !.long = TRUE] \in Calls
           /\ \A sql \in Seq(Statements) : [c EXCEPT !.sql = sql] \in Calls
           /\ \A urls \in Seq([says: Finds, over: BOOLEAN]) : [c EXCEPT !.urls = urls] \in Calls
           /\ [c EXCEPT !.crowd = TRUE] \in Calls
           /\ \A t \in {"medium", "high"} : [c EXCEPT !.least = t] \in Calls
<1>1. \A line \in Seq(Segments) : [c EXCEPT !.line = line] \in Calls
  BY Zenon DEF Calls
<1>2. TRUE \in BOOLEAN
  OBVIOUS
<1>3. [c EXCEPT !.long = TRUE] \in Calls
  BY <1>2, Zenon DEF Calls
<1>4. \A sql \in Seq(Statements) : [c EXCEPT !.sql = sql] \in Calls
  BY Zenon DEF Calls
<1>5. \A urls \in Seq([says: Finds, over: BOOLEAN]) : [c EXCEPT !.urls = urls] \in Calls
  BY Zenon DEF Calls
<1>6. [c EXCEPT !.crowd = TRUE] \in Calls
  BY <1>2, Zenon DEF Calls
<1>7. \A t \in {"medium", "high"} : [c EXCEPT !.least = t] \in Calls
  <2>1. \A t \in {"medium", "high"} : t \in {NONE, "medium", "high"}
    OBVIOUS
  <2>2. QED BY <2>1, Zenon DEF Calls
<1>8. QED BY <1>1, <1>3, <1>4, <1>5, <1>6, <1>7

\* A write that leaves the command alone keeps what is true of it.
LEMMA SameLine ==
    ASSUME CallInv, call' \in Calls, call'.line = call.line, call'.long = call.long
    PROVE  CallInv'
BY DEF CallInv

\* What each write leaves.
LEMMA SegmentWritten ==
    ASSUME CallInv, WriteSegment
    PROVE  \E s \in Segments :
            /\ call' = [call EXCEPT !.line = Append(call.line, s)] /\ ~call.long
            /\ call'.line = Append(call.line, s) /\ CallInv'
<1>1. call \in Calls /\ call.line \in Seq(Segments) /\ Nested(call.line)
  BY DEF CallInv, Calls
<1>2. PICK w \in Shapes : \E depth \in 0..MaxDepth + 1 :
        LET written == [w EXCEPT !.depth = depth]
        IN  /\ Parts < MaxParts /\ ~call.long /\ Fits(call.line, written)
            /\ Writing([call EXCEPT !.line = Append(@, written)])
  BY DEF WriteSegment
<1>3. PICK depth \in 0..MaxDepth + 1 :
        /\ ~call.long /\ Fits(call.line, [w EXCEPT !.depth = depth])
        /\ Writing([call EXCEPT !.line = Append(@, [w EXCEPT !.depth = depth])])
  BY <1>2
<1>4. PICK s : s = [w EXCEPT !.depth = depth]
  OBVIOUS
<1>5. s \in Segments
  <2>1. w \in Segments /\ depth \in Nat
    BY DecisionAssumption, CommandsAssumption
  <2>2. QED BY <1>4, <2>1, Zenon DEF Segments
<1>6. Append(call.line, s) \in Seq(Segments) /\ Nested(Append(call.line, s))
  BY <1>1, <1>3, <1>4, <1>5, FitsNested
<1>7. call' = [call EXCEPT !.line = Append(call.line, s)]
  BY <1>1, <1>3, <1>4 DEF Writing
<1>8. call' \in Calls
  BY <1>1, <1>6, <1>7, CallsWith
<1>9. call'.line = Append(call.line, s) /\ call'.long = call.long
  BY <1>1, <1>7 DEF Calls
<1>10. CallInv'
  BY <1>3, <1>6, <1>8, <1>9 DEF CallInv
<1>11. QED BY <1>3, <1>5, <1>7, <1>9, <1>10

LEMMA UrlWritten ==
    ASSUME CallInv, WriteUrl
    PROVE  \E u \in [says: Finds, over: BOOLEAN] :
            call' = [call EXCEPT !.urls = Append(call.urls, u)] /\ CallInv'
<1>1. call \in Calls /\ call.urls \in Seq([says: Finds, over: BOOLEAN])
  BY DEF CallInv, Calls
<1>2. PICK says \in UrlFindings : \E over \in BOOLEAN :
        Writing([call EXCEPT !.urls = Append(@, [says |-> says, over |-> over])])
  BY DEF WriteUrl
<1>3. PICK over \in BOOLEAN :
        Writing([call EXCEPT !.urls = Append(@, [says |-> says, over |-> over])])
  BY <1>2
<1>4. PICK u : u = [says |-> says, over |-> over]
  OBVIOUS
<1>5. u \in [says: Finds, over: BOOLEAN]
  BY <1>4, ImpactAssumption DEF Finds
<1>6. call' = [call EXCEPT !.urls = Append(call.urls, u)]
  BY <1>1, <1>3, <1>4 DEF Writing
<1>7. Append(call.urls, u) \in Seq([says: Finds, over: BOOLEAN])
  BY <1>1, <1>5
<1>8. call' \in Calls
  BY <1>1, <1>6, <1>7, CallsWith
<1>9. call'.line = call.line /\ call'.long = call.long
  BY <1>1, <1>6 DEF Calls
<1>10. QED BY <1>5, <1>6, <1>8, <1>9, SameLine

LEMMA StatementEnded ==
    ASSUME CallInv, ClauseInv, EndStatement
    PROVE  \E s \in Statements :
            call' = [call EXCEPT !.sql = Append(call.sql, s)] /\ CallInv'
<1>1. call \in Calls /\ call.sql \in Seq(Statements)
  BY DEF CallInv, Calls
<1>2. PICK kind \in {"mutation", "select"} :
        call' = [call EXCEPT !.sql = Append(@,
            [kind |-> kind,
             predicate |-> IF clause.is = NONE THEN "none" ELSE clause.is.reads])]
  BY DEF EndStatement
<1>3. PICK predicate : predicate = IF clause.is = NONE THEN "none" ELSE clause.is.reads
  OBVIOUS
<1>4. predicate \in Predicates
  BY <1>3 DEF ClauseInv, Clauses, Predicates
<1>5. PICK s : s = [kind |-> kind, predicate |-> predicate]
  OBVIOUS
<1>6. s \in Statements
  BY <1>4, <1>5 DEF Statements, Kinds
<1>7. call' = [call EXCEPT !.sql = Append(call.sql, s)]
  BY <1>1, <1>2, <1>3, <1>5
<1>8. Append(call.sql, s) \in Seq(Statements)
  BY <1>1, <1>6
<1>9. call' \in Calls
  BY <1>1, <1>7, <1>8, CallsWith
<1>10. call'.line = call.line /\ call'.long = call.long
  BY <1>1, <1>7 DEF Calls
<1>11. QED BY <1>6, <1>7, <1>9, <1>10, SameLine

LEMMA OverrunWritten ==
    ASSUME CallInv, Overrun
    PROVE  call' = [call EXCEPT !.long = TRUE] /\ CallInv'
<1>1. call \in Calls
  BY DEF CallInv
<1>2. call' = [call EXCEPT !.long = TRUE]
  BY DEF Overrun, Writing
<1>3. call' \in Calls /\ call'.line = call.line
  <2>1. call' \in Calls
    BY <1>1, <1>2, CallsWith
  <2>2. QED BY <1>1, <1>2, <2>1 DEF Calls
<1>4. QED BY <1>2, <1>3 DEF CallInv

LEMMA CrowdWritten ==
    ASSUME CallInv, Crowd
    PROVE  call' = [call EXCEPT !.crowd = TRUE] /\ ~call.crowd /\ ~call.deep /\ CallInv'
<1>1. call \in Calls
  BY DEF CallInv
<1>2. call' = [call EXCEPT !.crowd = TRUE] /\ ~call.crowd /\ ~call.deep
  BY DEF Crowd, Writing
<1>3. call' \in Calls
  BY <1>1, <1>2, CallsWith
<1>4. call'.line = call.line /\ call'.long = call.long
  BY <1>1, <1>2 DEF Calls
<1>5. QED BY <1>2, <1>3, <1>4, SameLine

LEMMA NestWritten ==
    ASSUME CallInv, Nest
    PROVE  call' = [call EXCEPT !.crowd = FALSE, !.deep = TRUE] /\ CallInv'
<1>1. call \in Calls
  BY DEF CallInv
<1>2. call' = [call EXCEPT !.crowd = FALSE, !.deep = TRUE]
  BY DEF Nest, Writing
<1>3. call' \in Calls
  BY <1>1, <1>2, Zenon DEF Calls
<1>4. call'.line = call.line /\ call'.long = call.long
  BY <1>1, <1>2 DEF Calls
<1>5. QED BY <1>2, <1>3, <1>4, SameLine

LEMMA KeyNamed ==
    ASSUME CallInv, NameAKey
    PROVE  \E t \in {"medium", "high"} :
            call' = [call EXCEPT !.least = t] /\ call.least = NONE /\ CallInv'
<1>1. call \in Calls
  BY DEF CallInv
<1>2. PICK t \in {"medium", "high"} : call' = [call EXCEPT !.least = t] /\ call.least = NONE
  BY DEF NameAKey, Writing
<1>3. call' \in Calls
  BY <1>1, <1>2, CallsWith
<1>4. call'.line = call.line /\ call'.long = call.long
  BY <1>1, <1>2 DEF Calls
<1>5. QED BY <1>2, <1>3, <1>4, SameLine

LEMMA CallStep ==
    ASSUME CallInv, ClauseInv, [Next]_vars
    PROVE  CallInv'
<1>1. CASE call' = call
  BY <1>1 DEF CallInv
<1>2. CASE call' = NoCall
  BY <1>2, NoCallIs DEF CallInv
<1>3. CASE Begin
  <2>1. PICK named \in Finds : call' = [NoCall EXCEPT !.named = named]
    BY <1>3, DecisionAssumption DEF Begin, Finds
  <2>2. call' \in Calls /\ call'.line = <<>> /\ ~call'.long
    <3>1. call' \in Calls
      BY <2>1, NoCallIs, Zenon DEF Calls
    <3>2. QED BY <2>1, <3>1 DEF NoCall
  <2>3. QED BY <2>2 DEF CallInv, Nested
<1>4. QED
  <2>1. CASE vars' = vars
    BY <1>1, <2>1 DEF vars
  <2>2. CASE Next
    BY <1>1, <1>2, <1>3, <2>2, SegmentWritten, UrlWritten, StatementEnded, OverrunWritten,
       CrowdWritten, NestWritten, KeyNamed
       DEF Next, Term, AndTerm, Not, WriteClause, ClassifyCall, SetPolicy, ClearPolicy, Decide,
           Decided, ScanText
  <2>3. QED BY <2>1, <2>2

LEMMA ClauseStep ==
    ASSUME ClauseInv, [Next]_vars
    PROVE  ClauseInv'
<1>1. CASE clause' = clause
  BY <1>1 DEF ClauseInv
<1>2. CASE clause' = NoClause
  BY <1>2 DEF ClauseInv, NoClause
<1>3. CASE Term
  <2>1. PICK t \in Terms :
          clause' = [is |-> IF clause.is = NONE THEN t ELSE Either(clause.is, t),
                     terms |-> clause.terms + 1]
    BY <1>3 DEF Term, WriteClause
  <2>2. clause'.is = IF clause.is = NONE THEN t ELSE Either(clause.is, t)
    BY <2>1
  <2>3. t \in Clauses
    BY TermsAre
  <2>4. QED BY <2>2, <2>3, ClausesClosed DEF ClauseInv
<1>4. CASE AndTerm
  <2>1. PICK t \in Terms :
          clause' = [is |-> Both(clause.is, t), terms |-> clause.terms + 1] /\ clause.is # NONE
    BY <1>4 DEF AndTerm, WriteClause
  <2>2. clause'.is = Both(clause.is, t) /\ t \in Clauses
    BY <2>1, TermsAre
  <2>3. QED BY <2>1, <2>2, ClausesClosed DEF ClauseInv
<1>5. CASE Not
  <2>1. clause' = [clause EXCEPT !.is = Negated(@)] /\ clause.is # NONE
    BY <1>5 DEF Not, WriteClause
  <2>2. clause'.is = Negated(clause.is) \/ clause' = clause
    BY <2>1
  <2>3. QED BY <1>1, <2>1, <2>2, ClausesClosed DEF ClauseInv
<1>6. QED
  <2>1. CASE vars' = vars
    BY <1>1, <2>1 DEF vars
  <2>2. CASE Next
    BY <1>1, <1>2, <1>3, <1>4, <1>5, <2>2
       DEF Next, Begin, WriteSegment, Overrun, WriteUrl, Crowd, Nest, NameAKey, Writing,
           EndStatement, ClassifyCall, SetPolicy, ClearPolicy, Decide, Decided, ScanText
  <2>3. QED BY <2>1, <2>2

-----------------------------------------------------------------------------
(* What is not read.                                                       *)

LEMMA DegradedIsAFault ==
    ASSUME NEW c \in Calls, NEW n \in Kept(c.line), Parse(c.line, c.long)[n].degraded
    PROVE  "command.parse_degraded" \in Bounded(c)
<1>1. c.line \in Seq(Segments)
  BY DEF Calls
<1>2. \E m \in DOMAIN Parse(c.line, c.long) : Parse(c.line, c.long)[m].degraded
  BY <1>1, ParseOf
<1>3. QED BY <1>2 DEF Bounded

LEMMA PastCapCritical ==
    ASSUME NEW c \in Calls, Len(c.sql) > MaxStatements
    PROVE  Grade(c).tier = "critical"
<1>1. c.sql \in Seq(Statements) /\ MaxStatements \in Nat
  BY ImpactAssumption DEF Calls
<1>2. PICK n : n = MaxStatements + 1
  OBVIOUS
<1>3. n \in DOMAIN ReadBatch(c.sql) /\ ReadBatch(c.sql)[n] = Unparsed
  <2>1. ReadBatch(c.sql) \in Seq(Statements) /\ Len(ReadBatch(c.sql)) = MaxStatements + 1
        /\ ReadBatch(c.sql)[MaxStatements + 1] = Unparsed
    BY <1>1, BatchOf
  <2>2. QED BY <1>1, <1>2, <2>1
<1>4. PICK f : f = SqlRule("unparsed", "none")
  OBVIOUS
<1>5. f \in Finds /\ Bad(f) <= Bad(ClassifySql(c.sql)) /\ ClassifySql(c.sql) \in Finds
  <2>1. ReadBatch(c.sql)[n].kind = "unparsed" /\ ReadBatch(c.sql)[n].predicate = "none"
    BY <1>3 DEF Unparsed
  <2>2. QED BY <1>1, <1>3, <1>4, <2>1, SqlOf
<1>6. f.tier = "critical"
  BY <1>4, DecisionAssumption
<1>7. Bad(ClassifySql(c.sql)) = Raised(c)[2]
  BY DEF Raised
<1>8. f \in Findings => Bad(f) = 3
  BY <1>6, FoundIs DEF Bad
<1>10. f \in Findings
  <2>1. f \in [class: Classes, tier: {"critical"}]
    BY <1>4, DecisionAssumption
  <2>2. QED BY <2>1 DEF Findings, Tiers
<1>11. Order(Grade(c).tier) \in 0..3 /\ Raised(c)[2] \in -1..3
       /\ Raised(c)[2] <= Order(Grade(c).tier) /\ Grade(c) \in Graded
  BY GradeOf, KnownIs
<1>12. Order(Grade(c).tier) = 3
  BY <1>5, <1>7, <1>8, <1>10, <1>11
<1>13. QED BY <1>11, <1>12, KnownIs

LEMMA CommandFindings ==
    ASSUME NEW c \in Calls, NEW f \in Findable(c.line, c.long, Findings) \ {NONE}
    PROVE  Order(ClassifyCommand(c.line, c.long).tier) >= Order(f.tier)
<1>1. c.line \in Seq(Segments)
  BY DEF Calls
<1>2. PICK cc : cc = ClassifyCommand(c.line, c.long)
  OBVIOUS
<1>3. PICK clean : clean = Clean(Parse(c.line, c.long))
  OBVIOUS
<1>4. /\ cc \in Finds
      /\ \A i \in DOMAIN clean : Bad(clean[i].seg.says) <= Bad(cc)
      /\ \A d \in CombosIn(clean) : Bad(Combos[d]) <= Bad(cc)
  BY <1>1, <1>2, <1>3, CommandOf
<1>5. f \in Findings /\ (\/ \E n \in DOMAIN clean : f = clean[n].seg.says
                         \/ \E d \in CombosIn(clean) : f = Combos[d])
  BY <1>3 DEF Findable
<1>6. Bad(f) <= Bad(cc)
  BY <1>4, <1>5
<1>7. Bad(f) = Order(f.tier) /\ Order(f.tier) \in 0..3
  BY <1>5, FoundIs DEF Bad
<1>8. Bad(cc) \in -1..3 /\ (Bad(cc) = -1 <=> cc = NONE)
  BY <1>4, BadIs
<1>9. cc # NONE /\ Bad(cc) = Order(cc.tier)
  BY <1>6, <1>7, <1>8 DEF Bad
<1>10. QED BY <1>2, <1>6, <1>7, <1>9

LEMMA ArgumentFindings ==
    ASSUME NEW c \in Calls,
           NEW f \in FindableSql(c.sql, Findings) \cup FindableUrls(c.urls, Findings)
    PROVE  Order(Grade(c).tier) >= Order(f.tier)
<1>1. c.sql \in Seq(Statements) /\ c.urls \in Seq([says: Finds, over: BOOLEAN])
  BY DEF Calls
<1>2. f \in Findings
  BY DEF FindableSql, FindableUrls
<1>3. Bad(f) = Order(f.tier) /\ Order(f.tier) \in 0..3
  BY <1>2, FoundIs DEF Bad
<1>4. /\ Raised(c)[2] = Bad(ClassifySql(c.sql)) /\ Raised(c)[3] = Bad(UrlsSay(c.urls))
  BY DEF Raised
<1>5. /\ \A n \in {2, 3} : Raised(c)[n] \in -1..3 /\ Raised(c)[n] <= Order(Grade(c).tier)
      /\ Order(Grade(c).tier) \in 0..3
  BY GradeOf, KnownIs
<1>6. CASE f \in FindableSql(c.sql, Findings)
  <2>1. PICK n \in DOMAIN ReadBatch(c.sql) :
            f = SqlRule(ReadBatch(c.sql)[n].kind, ReadBatch(c.sql)[n].predicate)
    BY <1>6 DEF FindableSql, ToSet
  <2>2. Bad(f) <= Bad(ClassifySql(c.sql))
    BY <1>1, <2>1, SqlOf
  <2>3. QED BY <1>3, <1>4, <1>5, <2>2
<1>7. CASE f \in FindableUrls(c.urls, Findings)
  <2>1. PICK n \in DOMAIN c.urls : f = c.urls[n].says
    BY <1>7 DEF FindableUrls, ToSet
  <2>2. Bad(f) <= Bad(UrlsSay(c.urls))
    BY <1>1, <2>1, UrlsOf
  <2>3. QED BY <1>3, <1>4, <1>5, <2>2
<1>8. QED BY <1>6, <1>7

\* Nothing a reader did not read, or could not settle, passes for harmless, as
\* long as the spellings of one address agree.
THEOREM NothingUnread == ASSUME SpellingsAgree PROVE Spec => []NothingPassesUnread
<1>1. Init => CallInv /\ ClauseInv
  BY InspectInit
<1>2. CallInv /\ ClauseInv /\ [Next]_vars => CallInv' /\ ClauseInv'
  BY CallStep, ClauseStep
<1>3. CallInv /\ ClauseInv => NothingPassesUnread
  <2> SUFFICES ASSUME CallInv, ClauseInv
               PROVE  NothingPassesUnread
    OBVIOUS
  <2>1. call \in Calls /\ call.line \in Seq(Segments) /\ call.long \in BOOLEAN
    BY DEF CallInv, Calls
  <2>2. /\ call.deep => "arguments.walk_truncated" \in BoundFaults(call)
        /\ ~call.deep /\ ~Silent(call.line, call.long)
              => "command.parse_degraded" \in BoundFaults(call)
    <3>1. ~Silent(call.line, call.long) => "command.parse_degraded" \in Bounded(call)
      BY <2>1, UnreadIsSaid, DegradedIsAFault DEF CallInv
    <3>2. QED BY <3>1, ClassifyIs
  <2>3. ~call.deep /\ Len(call.sql) > MaxStatements => Classify(call).tier = "critical"
    BY <2>1, PastCapCritical, ClassifyIs
  <2>4. clause.is # NONE =>
            /\ clause.is.reads = "tautology" => clause.is.rows = Rows
            /\ clause.is.reads = "bounded" => clause.is.column
    BY DEF ClauseInv, Clauses
  <2>5. \A f \in Findable(call.line, call.long, Findings) \ {NONE} :
            Order(ClassifyCommand(call.line, call.long).tier) >= Order(f.tier)
    BY <2>1, CommandFindings
  <2>6. ~call.deep =>
            \A f \in FindableSql(call.sql, Findings) \cup FindableUrls(call.urls, Findings) :
                Order(Classify(call).tier) >= Order(f.tier)
    BY <2>1, ArgumentFindings, ClassifyIs
  <2>7. QED BY <2>2, <2>3, <2>4, <2>5, <2>6 DEF NothingPassesUnread
<1>4. QED BY <1>1, <1>2, <1>3, PTL DEF Spec

-----------------------------------------------------------------------------
(* What is written more.                                                   *)

\* What is kept of a line is kept of a longer one.
LEMMA KeptGrows ==
    ASSUME NEW line \in Seq(Segments), NEW s \in Segments
    PROVE  /\ Kept(line) \subseteq Kept(Append(line, s))
           /\ \A i \in Kept(line) : Append(line, s)[i] = line[i]
<1>1. PICK more : more = Append(line, s)
  OBVIOUS
<1>2. /\ DOMAIN line = 1..Len(line) /\ Len(line) \in Nat
      /\ DOMAIN more = 1..Len(line) + 1
      /\ \A i \in DOMAIN line : more[i] = line[i]
  BY <1>1
<1>3. ASSUME NEW i \in Kept(line)
      PROVE  i \in Kept(more) /\ more[i] = line[i]
  <2>1. i \in DOMAIN line /\ Parsed(line, i) /\ Earlier(line, i) < MaxSegments
    BY DEF Kept
  <2>2. ASSUME NEW j \in DOMAIN line
        PROVE  Parsed(more, j) <=> Parsed(line, j)
    <3>1. \A k \in DOMAIN line : Before(more, k) = Before(line, k)
      BY <1>2 DEF Before
    <3>2. \A k \in DOMAIN line : Holders(more, k) = Holders(line, k)
      BY <1>2 DEF Holders
    <3>3. \A k \in DOMAIN line : IsBlank(more, k) <=> IsBlank(line, k)
      BY <1>2 DEF IsBlank
    <3>4. ASSUME NEW k \in DOMAIN line
          PROVE  Glued(more, k) <=> Glued(line, k)
      <4>1. Before(line, k) \subseteq DOMAIN line
        BY <1>2 DEF Before
      <4>2. QED BY <3>1, <3>3, <4>1 DEF Glued
    <3>5. Swallowed(more, j) <=> Swallowed(line, j)
      <4>1. Holders(line, j) \cup {j} \subseteq DOMAIN line
        BY <1>2 DEF Holders
      <4>2. QED BY <3>2, <3>4, <4>1 DEF Swallowed
    <3>6. Reached(more, j) <=> Reached(line, j)
      BY <1>2 DEF Reached
    <3>7. QED BY <3>3, <3>5, <3>6 DEF Parsed
  <2>3. {j \in 1..i - 1 : Parsed(more, j)} = {j \in 1..i - 1 : Parsed(line, j)}
    <3>1. 1..i - 1 \subseteq DOMAIN line
      BY <1>2, <2>1
    <3>2. QED BY <2>2, <3>1
  <2>4. Earlier(more, i) = Earlier(line, i)
    BY <2>3 DEF Earlier
  <2>5. i \in DOMAIN more
    BY <1>2, <2>1
  <2>6. QED BY <1>2, <2>1, <2>2, <2>4, <2>5 DEF Kept
<1>4. QED BY <1>1, <1>3

\* A command that grows, and is read to its end, is found to do no less.
LEMMA CommandGrows ==
    ASSUME NEW line \in Seq(Segments), NEW s \in Segments, NEW long,
           \A n \in Kept(Append(line, s)) : ~Parse(Append(line, s), long)[n].degraded
    PROVE  Bad(ClassifyCommand(line, long)) <= Bad(ClassifyCommand(Append(line, s), long))
<1>1. PICK more : more = Append(line, s)
  OBVIOUS
<1>2. more \in Seq(Segments)
  BY <1>1
<1>3. PICK old : old = Parse(line, long)
  OBVIOUS
<1>4. PICK new : new = Parse(more, long)
  OBVIOUS
<1>5. /\ Read(old) /\ Read(new) /\ DOMAIN old = Kept(line) /\ DOMAIN new = Kept(more)
      /\ \A n \in Kept(line) : old[n].seg = line[n]
      /\ \A n \in Kept(more) : new[n].seg = more[n]
  BY <1>2, <1>3, <1>4, ParseOf
<1>6. Kept(line) \subseteq Kept(more) /\ \A i \in Kept(line) : more[i] = line[i]
  BY <1>1, KeptGrows
<1>7. Bad(Worst(old)) <= Bad(Worst(new))
  BY <1>5, <1>6, WorstGrows
<1>8. ClassifyCommand(more, long) = Worst(new)
  <2>1. \A i \in DOMAIN new : ~new[i].degraded
    BY <1>1, <1>4, <1>5
  <2>2. QED BY <1>2, <1>4, <2>1, CommandOf
<1>9. Bad(ClassifyCommand(line, long)) <= Bad(Worst(old))
      /\ ClassifyCommand(line, long) \in Finds
  BY <1>3, CommandOf
<1>10. Worst(old) \in Finds /\ Worst(new) \in Finds
  BY <1>5, WorstOf
<1>11. QED BY <1>1, <1>7, <1>8, <1>9, <1>10, BadIs

\* Past the cap of the input there is a fault, or nothing was read at all.
LEMMA OverrunRaises ==
    ASSUME CallInv, Overrun, "command.parse_degraded" \notin Bounded(call')
    PROVE  Grade(call') = Grade(call)
<1>1. call' = [call EXCEPT !.long = TRUE] /\ CallInv'
  BY OverrunWritten
<1>2. call' \in Calls /\ call'.line \in Seq(Segments) /\ Nested(call'.line) /\ call \in Calls
  BY <1>1 DEF CallInv, Calls
<1>3. /\ call'.long /\ call'.long \in BOOLEAN /\ call'.line = call.line
      /\ call'.named = call.named /\ call'.sql = call.sql /\ call'.urls = call.urls
      /\ call'.crowd = call.crowd /\ call'.least = call.least
  BY <1>1, <1>2 DEF Calls
<1>4. \A i \in DOMAIN call.line : IsBlank(call.line, i)
  <2>1. Silent(call'.line, call'.long)
    BY <1>2, <1>3, UnreadIsSaid, DegradedIsAFault
  <2>2. QED BY <1>3, <2>1 DEF Silent
<1>5. Kept(call.line) = {}
  BY <1>4 DEF Kept, Parsed
<1>6. Parse(call.line, call.long) = Parse(call'.line, call'.long)
  BY <1>3, <1>5 DEF Parse
<1>7. ClassifyCommand(call'.line, call'.long) = ClassifyCommand(call.line, call.long)
  BY <1>6 DEF ClassifyCommand
<1>8. ByName(call') = ByName(call)
  BY <1>3, <1>7 DEF ByName
<1>9. QED BY <1>3, <1>8 DEF Grade, ByEscalation, ByCrowd, ByUrls, BySql

\* The other parts of a call than its command.
LEMMA PartsRaise ==
    ASSUME CallInv, ClauseInv, WriteUrl \/ Crowd \/ NameAKey \/ EndStatement
    PROVE  Order(Grade(call').tier) >= Order(Grade(call).tier)
<1>1. call \in Calls /\ call' \in Calls
  BY UrlWritten, CrowdWritten, KeyNamed, StatementEnded DEF CallInv
<1>2. \A n \in 1..5 : Raised(call)[n] \in -1..3 /\ Raised(call')[n] \in -1..3
  BY <1>1, GradeOf
<1>3. \A n \in 1..5 : Raised(call)[n] <= Raised(call)[n]
  BY <1>2
<1>4. /\ Raised(call)[1] = Order(ByName(call).tier) /\ Raised(call)[2] = Bad(ClassifySql(call.sql))
      /\ Raised(call)[3] = Bad(UrlsSay(call.urls)) /\ Raised(call)[4] = Bad(CrowdSays(call))
      /\ Raised(call)[5] = IF call.least = NONE THEN -1 ELSE Order(call.least)
      /\ Raised(call')[1] = Order(ByName(call').tier) /\ Raised(call')[2] = Bad(ClassifySql(call'.sql))
      /\ Raised(call')[3] = Bad(UrlsSay(call'.urls)) /\ Raised(call')[4] = Bad(CrowdSays(call'))
      /\ Raised(call')[5] = IF call'.least = NONE THEN -1 ELSE Order(call'.least)
  BY DEF Raised
<1>5. ASSUME NEW n \in 1..5
      PROVE  Raised(call)[n] <= Raised(call')[n]
  <2>1. CASE WriteUrl
    <3>1. PICK u \in [says: Finds, over: BOOLEAN] : call' = [call EXCEPT !.urls = Append(call.urls, u)]
      BY <2>1, UrlWritten
    <3>2. /\ call'.named = call.named /\ call'.line = call.line /\ call'.long = call.long
          /\ call'.sql = call.sql /\ call'.crowd = call.crowd /\ call'.least = call.least
          /\ call'.urls = Append(call.urls, u) /\ call.urls \in Seq([says: Finds, over: BOOLEAN])
      BY <1>1, <3>1 DEF Calls
    <3>3. ByName(call') = ByName(call) /\ CrowdSays(call') = CrowdSays(call)
      BY <3>2 DEF ByName, CrowdSays
    <3>4. Bad(UrlsSay(call.urls)) <= Bad(UrlsSay(call'.urls))
      BY <3>2, UrlsGrow
    <3>5. CASE n = 3
      BY <1>4, <3>4, <3>5
    <3>6. CASE n # 3
      <4>1. Raised(call')[n] = Raised(call)[n]
        BY <1>4, <3>2, <3>3, <3>6
      <4>2. QED BY <1>3, <4>1
    <3>7. QED BY <3>5, <3>6
  <2>2. CASE Crowd
    <3>1. call' = [call EXCEPT !.crowd = TRUE] /\ ~call.crowd
      BY <2>2, CrowdWritten
    <3>2. /\ call'.named = call.named /\ call'.line = call.line /\ call'.long = call.long
          /\ call'.sql = call.sql /\ call'.urls = call.urls /\ call'.least = call.least
      BY <1>1, <3>1 DEF Calls
    <3>3. ByName(call') = ByName(call)
      BY <3>2 DEF ByName
    <3>4. Raised(call)[4] = -1
      BY <1>4, <3>1 DEF CrowdSays, Bad
    <3>5. CASE n = 4
      BY <1>2, <3>4, <3>5
    <3>6. CASE n # 4
      <4>1. Raised(call')[n] = Raised(call)[n]
        BY <1>4, <3>2, <3>3, <3>6
      <4>2. QED BY <1>3, <4>1
    <3>7. QED BY <3>5, <3>6
  <2>3. CASE NameAKey
    <3>1. PICK t \in {"medium", "high"} : call' = [call EXCEPT !.least = t] /\ call.least = NONE
      BY <2>3, KeyNamed
    <3>2. /\ call'.named = call.named /\ call'.line = call.line /\ call'.long = call.long
          /\ call'.sql = call.sql /\ call'.urls = call.urls /\ call'.crowd = call.crowd
      BY <1>1, <3>1 DEF Calls
    <3>3. ByName(call') = ByName(call) /\ CrowdSays(call') = CrowdSays(call)
      BY <3>2 DEF ByName, CrowdSays
    <3>4. Raised(call)[5] = -1
      BY <1>4, <3>1
    <3>5. CASE n = 5
      BY <1>2, <3>4, <3>5
    <3>6. CASE n # 5
      <4>1. Raised(call')[n] = Raised(call)[n]
        BY <1>4, <3>2, <3>3, <3>6
      <4>2. QED BY <1>3, <4>1
    <3>7. QED BY <3>5, <3>6
  <2>4. CASE EndStatement
    <3>1. PICK s \in Statements : call' = [call EXCEPT !.sql = Append(call.sql, s)]
      BY <2>4, StatementEnded
    <3>2. /\ call'.named = call.named /\ call'.line = call.line /\ call'.long = call.long
          /\ call'.urls = call.urls /\ call'.crowd = call.crowd /\ call'.least = call.least
          /\ call'.sql = Append(call.sql, s) /\ call.sql \in Seq(Statements)
      BY <1>1, <3>1 DEF Calls
    <3>3. ByName(call') = ByName(call) /\ CrowdSays(call') = CrowdSays(call)
      BY <3>2 DEF ByName, CrowdSays
    <3>4. Bad(ClassifySql(call.sql)) <= Bad(ClassifySql(call'.sql))
      BY <3>2, SqlGrows
    <3>5. CASE n = 2
      BY <1>4, <3>4, <3>5
    <3>6. CASE n # 2
      <4>1. Raised(call')[n] = Raised(call)[n]
        BY <1>4, <3>2, <3>3, <3>6
      <4>2. QED BY <1>3, <4>1
    <3>7. QED BY <3>5, <3>6
  <2>5. QED BY <2>1, <2>2, <2>3, <2>4
<1>6. QED BY <1>1, <1>5, NoneLess

LEMMA SegmentRaises ==
    ASSUME CallInv, WriteSegment, "command.parse_degraded" \notin Bounded(call'), ~FirstReading
    PROVE  Order(Grade(call').tier) >= Order(Grade(call).tier)
<1>1. PICK s \in Segments :
        /\ call' = [call EXCEPT !.line = Append(call.line, s)] /\ ~call.long
        /\ call'.line = Append(call.line, s) /\ CallInv'
  BY SegmentWritten
<1>2. call \in Calls /\ call' \in Calls /\ call.line \in Seq(Segments) /\ call'.line \in Seq(Segments)
  BY <1>1 DEF CallInv, Calls
<1>3. /\ call'.named = call.named /\ call'.long = call.long /\ call'.least = call.least
      /\ call'.sql = call.sql /\ call'.urls = call.urls /\ call'.crowd = call.crowd
      /\ call.named \in Finds
  BY <1>1, <1>2 DEF Calls
<1>4. PICK cc : cc = ClassifyCommand(call.line, call.long)
  OBVIOUS
<1>5. PICK dd : dd = ClassifyCommand(call'.line, call'.long)
  OBVIOUS
<1>6. cc \in Finds /\ dd \in Finds
  BY <1>2, <1>4, <1>5, CommandOf
<1>7. Bad(cc) <= Bad(dd)
  <2>1. \A n \in Kept(call'.line) : ~Parse(call'.line, call'.long)[n].degraded
    BY <1>2, DegradedIsAFault
  <2>2. QED BY <1>1, <1>2, <1>3, <1>4, <1>5, <2>1, CommandGrows
<1>8. Order(ByName(call).tier) <= Order(ByName(call').tier)
  <2>0. Order(ByName(call).tier) \in 0..3 /\ Order(ByName(call').tier) \in 0..3
    BY <1>2, ByNameIs, KnownIs
  <2>1. CASE call.named # NONE
    <3>1. ByName(call') = ByName(call)
      BY <1>3, <2>1 DEF ByName
    <3>2. QED BY <2>0, <3>1
  <2>2. CASE call.named = NONE /\ cc # NONE
    <3>1. dd # NONE
      BY <1>6, <1>7, <2>2, BadIs
    <3>2. ByName(call) = cc /\ ByName(call') = dd
      BY <1>3, <1>4, <1>5, <2>2, <3>1 DEF ByName
    <3>3. QED BY <1>7, <2>2, <3>1, <3>2 DEF Bad
  <2>3. CASE call.named = NONE /\ cc = NONE /\ dd = NONE
    <3>1. ByName(call) = Default /\ ByName(call') = Default
      BY <1>3, <1>4, <1>5, <2>3 DEF ByName
    <3>2. QED BY <2>0, <3>1
  <2>4. CASE call.named = NONE /\ cc = NONE /\ dd # NONE
    <3>1. ByName(call) = Default /\ ByName(call') = dd
      BY <1>3, <1>4, <1>5, <2>4 DEF ByName
    <3>2. dd.tier # "low"
      BY <1>4, <1>5, <2>4 DEF FirstReading
    <3>3. Order(dd.tier) \in 1..3
      <4>1. dd \in Findings
        BY <1>6, <2>4 DEF Finds
      <4>2. QED BY <3>2, <4>1, FoundIs
    <3>4. Order(Default.tier) = 1
      BY DEF Default, Order
    <3>5. QED BY <3>1, <3>3, <3>4
  <2>5. QED BY <2>1, <2>2, <2>3, <2>4
<1>9. CrowdSays(call') = CrowdSays(call)
  BY <1>3 DEF CrowdSays
<1>10. /\ Raised(call)[1] = Order(ByName(call).tier) /\ Raised(call)[2] = Bad(ClassifySql(call.sql))
       /\ Raised(call)[3] = Bad(UrlsSay(call.urls)) /\ Raised(call)[4] = Bad(CrowdSays(call))
       /\ Raised(call)[5] = IF call.least = NONE THEN -1 ELSE Order(call.least)
       /\ Raised(call')[1] = Order(ByName(call').tier) /\ Raised(call')[2] = Bad(ClassifySql(call'.sql))
       /\ Raised(call')[3] = Bad(UrlsSay(call'.urls)) /\ Raised(call')[4] = Bad(CrowdSays(call'))
       /\ Raised(call')[5] = IF call'.least = NONE THEN -1 ELSE Order(call'.least)
  BY DEF Raised
<1>11. ASSUME NEW n \in 1..5
       PROVE  Raised(call)[n] <= Raised(call')[n]
  <2>1. CASE n = 1
    BY <1>8, <1>10, <2>1
  <2>2. CASE n # 1
    <3>1. Raised(call')[n] = Raised(call)[n]
      BY <1>3, <1>9, <1>10, <2>2
    <3>2. Raised(call)[n] \in -1..3
      BY <1>2, GradeOf
    <3>3. QED BY <3>1, <3>2
  <2>3. QED BY <2>1, <2>2
<1>12. QED BY <1>2, <1>11, NoneLess

\* What is nested too deep stays so while the call is written.
LEMMA DeepStays ==
    ASSUME CallInv, ClauseInv, call.deep,
           WriteSegment \/ Overrun \/ WriteUrl \/ Crowd \/ Nest \/ NameAKey \/ EndStatement
    PROVE  call'.deep
<1>1. call \in Calls
  BY DEF CallInv
<1>2. CASE WriteSegment
  <2>1. PICK s \in Segments : call' = [call EXCEPT !.line = Append(call.line, s)]
    BY <1>2, SegmentWritten
  <2>2. QED BY <1>1, <2>1 DEF Calls
<1>3. CASE Overrun
  <2>1. call' = [call EXCEPT !.long = TRUE]
    BY <1>3, OverrunWritten
  <2>2. QED BY <1>1, <2>1 DEF Calls
<1>4. CASE WriteUrl
  <2>1. PICK u \in [says: Finds, over: BOOLEAN] : call' = [call EXCEPT !.urls = Append(call.urls, u)]
    BY <1>4, UrlWritten
  <2>2. QED BY <1>1, <2>1 DEF Calls
<1>5. CASE Crowd
  BY <1>5, CrowdWritten
<1>6. CASE Nest
  BY <1>6 DEF Nest
<1>7. CASE NameAKey
  <2>1. PICK t \in {"medium", "high"} : call' = [call EXCEPT !.least = t]
    BY <1>7, KeyNamed
  <2>2. QED BY <1>1, <2>1 DEF Calls
<1>8. CASE EndStatement
  <2>1. PICK s \in Statements : call' = [call EXCEPT !.sql = Append(call.sql, s)]
    BY <1>8, StatementEnded
  <2>2. QED BY <1>1, <2>1 DEF Calls
<1>9. QED BY <1>2, <1>3, <1>4, <1>5, <1>6, <1>7, <1>8

\* More to inspect never makes a call look less in silence.
THEOREM InspectionRaises == Spec => InspectionOnlyRaises
<1>1. Init => CallInv /\ ClauseInv
  BY InspectInit
<1>2. CallInv /\ ClauseInv /\ [Next]_vars => CallInv' /\ ClauseInv'
  BY CallStep, ClauseStep
<1>3. CallInv /\ ClauseInv /\ [Next]_vars =>
        [Inspected => \/ Order(Classify(call').tier) >= Order(Classify(call).tier)
                      \/ "command.parse_degraded" \in BoundFaults(call')
                      \/ call'.deep /\ "arguments.walk_truncated" \in BoundFaults(call')
                      \/ FirstReading]_vars
  <2> SUFFICES ASSUME CallInv, ClauseInv, Next, Inspected
               PROVE  \/ Order(Classify(call').tier) >= Order(Classify(call).tier)
                      \/ "command.parse_degraded" \in BoundFaults(call')
                      \/ call'.deep /\ "arguments.walk_truncated" \in BoundFaults(call')
                      \/ FirstReading
    OBVIOUS
  <2>1. CASE call'.deep
    BY <2>1, ClassifyIs
  <2>2. CASE ~call'.deep
    <3>1. \/ WriteSegment \/ Overrun \/ WriteUrl \/ Crowd \/ Nest \/ NameAKey \/ EndStatement
          \/ call' = call
      BY DEF Next, Inspected, Begin, Term, AndTerm, Not, WriteClause, ClassifyCall, SetPolicy,
             ClearPolicy, Decide, Decided, ScanText
    <3>2. ~call.deep
      BY <2>2, <3>1, DeepStays
    <3>3. /\ Classify(call) = Grade(call) /\ Classify(call') = Grade(call')
          /\ BoundFaults(call') = Bounded(call')
      BY <2>2, <3>2, ClassifyIs
    <3>4. Order(Grade(call).tier) \in 0..3
      BY GradeOf, KnownIs DEF CallInv
    <3>5. Order(Grade(call').tier) >= Order(Grade(call).tier)
          \/ "command.parse_degraded" \in Bounded(call') \/ FirstReading
      <4>1. CASE call' = call
        BY <3>4, <4>1
      <4>2. CASE WriteSegment
        BY <4>2, SegmentRaises
      <4>3. CASE Overrun
        <5>1. CASE "command.parse_degraded" \notin Bounded(call')
          <6>1. Grade(call') = Grade(call)
            BY <4>3, <5>1, OverrunRaises
          <6>2. QED BY <3>4, <6>1
        <5>2. QED BY <5>1
      <4>4. CASE WriteUrl \/ Crowd \/ NameAKey \/ EndStatement
        BY <4>4, PartsRaise
      <4>5. CASE Nest
        BY <2>2, <4>5, NestWritten DEF Nest, Writing, CallInv, Calls
      <4>6. QED BY <3>1, <4>1, <4>2, <4>3, <4>4, <4>5
    <3>6. QED BY <3>3, <3>5
  <2>3. QED BY <2>1, <2>2
<1>4. QED BY <1>1, <1>2, <1>3, PTL DEF Spec, InspectionOnlyRaises
===============================================================================
