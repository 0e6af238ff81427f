---------------------------- MODULE Messages_proofs ----------------------------
(***************************************************************************)
(* Proofs about what passes between agents: the messages (A2A) and the     *)
(* headers that carry a flow (Delegation).                                 *)
(*                                                                         *)
(* Part 1 is about A2A, for any bodies and replies, any ids and any        *)
(* limits.  What the model takes from a set or a sequence in order is      *)
(* shown to be all of it, each once (EachHasAPlace); then the tracker and  *)
(* the walk have an invariant each.  TrackerInv: a store is true to the    *)
(* times at which ids were issued, and holds every live id that has fewer  *)
(* rivals than there are places.  WalkInv: what was seen is listed or on   *)
(* the stack and what is below the listed objects was seen, unless a       *)
(* bound was reported.  OnceInv: nothing is listed or stacked twice.       *)
(*                                                                         *)
(* Part 2 is about Delegation, for any threads, agents, tiers and          *)
(* principals: the tiers of a chain are the ones its agents declared, the  *)
(* ceiling bounds an agent by every agent upstream of it, and losing       *)
(* headers never loosens the ceiling of the reader.  None of the three is  *)
(* inductive.  ChainInv says of every context, and of the headers each     *)
(* call was sent with, that the chain and the list of tiers have the same  *)
(* length, hop by hop agree on the agent, and name every agent of the      *)
(* lineage; that an idle thread holds no flow; and that the flow of a      *)
(* thread which has just read a call is what extract_context makes of      *)
(* that call's headers less the lost ones.  RemovalTightens, which a run   *)
(* refutes, does not follow from it: a lost chain header takes the agents  *)
(* it named out of the lineage.                                            *)
(***************************************************************************)
EXTENDS A2A, Delegation, FiniteSetTheorems, NaturalsInduction, SequenceTheorems,
        WellFoundedInduction, TLAPS

-----------------------------------------------------------------------------
(* Part 1: messages.  Order.                                               *)

\* In a finite set with a total order, each element has a place of its own,
\* and each place an element.
LEMMA EachHasAPlace ==
    ASSUME NEW S, IsFiniteSet(S), NEW R,
           \A x \in S : <<x, x>> \notin R,
           \A x, y, z \in S : <<x, y>> \in R /\ <<y, z>> \in R => <<x, z>> \in R,
           \A x, y \in S : x # y => <<x, y>> \in R \/ <<y, x>> \in R
    PROVE  /\ Cardinality(S) \in Nat
           /\ \A k \in 1..Cardinality(S) : \E x \in S :
                Cardinality({y \in S : <<y, x>> \in R}) = k - 1
           /\ \A x \in S : Cardinality({y \in S : <<y, x>> \in R}) \in 0..(Cardinality(S) - 1)
           /\ \A x, y \in S : Cardinality({z \in S : <<z, x>> \in R})
                                = Cardinality({z \in S : <<z, y>> \in R}) => x = y
<1> DEFINE N == Cardinality(S)
           prior(x) == {y \in S : <<y, x>> \in R}
           rank == [x \in S |-> Cardinality(prior(x))]
<1>1. N \in Nat
  BY FS_CardinalityType
<1>2. ASSUME NEW x \in S
      PROVE  IsFiniteSet(prior(x)) /\ Cardinality(prior(x)) \in Nat
             /\ Cardinality(prior(x)) <= N - 1
  <2>1. prior(x) \in SUBSET (S \ {x})
    OBVIOUS
  <2>2. IsFiniteSet(S \ {x}) /\ Cardinality(S \ {x}) = N - 1
    BY FS_RemoveElement
  <2>3. IsFiniteSet(prior(x)) /\ Cardinality(prior(x)) <= N - 1
    <3> HIDE DEF prior, N
    <3> QED BY <2>1, <2>2, FS_Subset
  <2>4. QED BY <2>3, FS_CardinalityType
<1>3. ASSUME NEW x \in S, NEW y \in S, <<x, y>> \in R
      PROVE  Cardinality(prior(x)) < Cardinality(prior(y))
  <2>1. prior(x) \cup {x} \in SUBSET prior(y)
    BY <1>3
  <2>2. x \notin prior(x)
    OBVIOUS
  <2>3. Cardinality(prior(x) \cup {x}) = Cardinality(prior(x)) + 1
    <3> HIDE DEF prior
    <3> QED BY <1>2, <2>2, FS_AddElement
  <2>4. Cardinality(prior(x) \cup {x}) <= Cardinality(prior(y))
    <3> HIDE DEF prior
    <3> QED BY <1>2, <2>1, FS_Subset
  <2>5. Cardinality(prior(x)) \in Nat /\ Cardinality(prior(y)) \in Nat
    BY <1>2
  <2> HIDE DEF prior
  <2>6. QED BY <2>3, <2>4, <2>5
<1>4. \A x, y \in S : Cardinality(prior(x)) = Cardinality(prior(y)) => x = y
  <2>1. SUFFICES ASSUME NEW x \in S, NEW y \in S, x # y
                 PROVE  Cardinality(prior(x)) # Cardinality(prior(y))
    OBVIOUS
  <2>2. <<x, y>> \in R \/ <<y, x>> \in R
    BY <2>1
  <2>3. Cardinality(prior(x)) \in Nat /\ Cardinality(prior(y)) \in Nat
    BY <1>2
  <2> HIDE DEF prior
  <2>4. QED BY <2>2, <2>3, <1>3
<1>5. rank \in Injection(S, 0..(N - 1))
  <2>1. \A x \in S : rank[x] = Cardinality(prior(x)) /\ rank[x] \in 0..(N - 1)
    <3>1. \A x \in S : rank[x] = Cardinality(prior(x))
      OBVIOUS
    <3> HIDE DEF prior, rank, N
    <3>2. QED BY <3>1, <1>1, <1>2
  <2>2. rank \in [S -> 0..(N - 1)]
    BY <2>1
  <2>3. \A x, y \in S : rank[x] = rank[y] => x = y
    <3> HIDE DEF prior, rank
    <3> QED BY <1>4, <2>1
  <2> HIDE DEF rank
  <2>4. QED BY <2>2, <2>3 DEF Injection, IsInjective
<1>6. rank \in Surjection(S, 0..(N - 1))
  <2>1. IsFiniteSet(0..(N - 1)) /\ Cardinality(0..(N - 1)) = N
    <3> HIDE DEF N
    <3>1. 0 \in Int /\ N - 1 \in Int /\ (0 > N - 1 => N = 0)
      BY <1>1
    <3>2. QED BY <1>1, <3>1, FS_Interval
  <2> HIDE DEF rank
  <2>2. QED BY <1>5, <2>1, FS_Injection
<1>7. ASSUME NEW k \in 1..N
      PROVE  \E x \in S : Cardinality(prior(x)) = k - 1
  <2>1. k - 1 \in 0..(N - 1)
    BY <1>1
  <2>2. \E x \in S : rank[x] = k - 1
    <3> HIDE DEF rank, N
    <3> QED BY <1>6, <2>1 DEF Surjection
  <2>3. QED BY <2>2
<1>8. \A x \in S : Cardinality(prior(x)) \in 0..(N - 1)
  <2> HIDE DEF prior, N
  <2>1. QED BY <1>1, <1>2
<1>9. QED BY <1>1, <1>4, <1>7, <1>8

\* Positions in ascending order are all the positions, each once.
LEMMA AscendingOf ==
    ASSUME NEW at \in SUBSET Nat, IsFiniteSet(at)
    PROVE  /\ Cardinality(at) \in Nat
           /\ Ascending(at) \in [1..Cardinality(at) -> at]
           /\ \A j, k \in 1..Cardinality(at) : Ascending(at)[j] = Ascending(at)[k] => j = k
           /\ \A i \in at : \E k \in 1..Cardinality(at) : Ascending(at)[k] = i
<1> DEFINE R == {p \in at \X at : p[1] < p[2]}
           prior(i) == {j \in at : <<j, i>> \in R}
           N == Cardinality(at)
           order == [k \in 1..N |-> CHOOSE i \in at : Cardinality(prior(i)) = k - 1]
<1>1. \A i, j \in at : <<i, j>> \in R <=> i < j
  OBVIOUS
<1>2. /\ N \in Nat
      /\ \A k \in 1..N : \E i \in at : Cardinality(prior(i)) = k - 1
      /\ \A i \in at : Cardinality(prior(i)) \in 0..(N - 1)
      /\ \A i, j \in at : Cardinality(prior(i)) = Cardinality(prior(j)) => i = j
  <2>1. \A i \in at : <<i, i>> \notin R
    BY <1>1
  <2>2. \A i, j, k \in at : <<i, j>> \in R /\ <<j, k>> \in R => <<i, k>> \in R
    BY <1>1
  <2>3. \A i, j \in at : i # j => <<i, j>> \in R \/ <<j, i>> \in R
    BY <1>1
  <2> HIDE DEF R
  <2>4. QED BY <2>1, <2>2, <2>3, EachHasAPlace
<1>3. \A i \in at : prior(i) = {j \in at : j < i}
  BY <1>1
<1>4. Ascending(at) = order
  <2>1. Ascending(at) = [k \in 1..N |-> CHOOSE i \in at : Cardinality({j \in at : j < i}) = k - 1]
    BY DEF Ascending, InOrder
  <2>2. ASSUME NEW k \in 1..N
        PROVE  (CHOOSE i \in at : Cardinality({j \in at : j < i}) = k - 1)
                 = CHOOSE i \in at : Cardinality(prior(i)) = k - 1
    <3> HIDE DEF prior
    <3> QED BY <1>3
  <2> HIDE DEF prior
  <2>3. QED BY <2>1, <2>2
<1>5. \A k \in 1..N : order[k] \in at /\ Cardinality(prior(order[k])) = k - 1
  <2> SUFFICES ASSUME NEW k \in 1..N
               PROVE  order[k] \in at /\ Cardinality(prior(order[k])) = k - 1
    OBVIOUS
  <2>1. order[k] = CHOOSE i \in at : Cardinality(prior(i)) = k - 1
    OBVIOUS
  <2> HIDE DEF order, prior
  <2>2. QED BY <2>1, <1>2
<1>6. DOMAIN order = 1..N /\ order \in [1..N -> at]
  <2>1. \A k \in 1..N : (CHOOSE i \in at : Cardinality(prior(i)) = k - 1) \in at
    BY <1>5
  <2>2. QED BY <2>1
<1>8. \A j, k \in 1..N : order[j] = order[k] => j = k
  <2> HIDE DEF order, prior
  <2>1. QED BY <1>5, <1>2
<1>9. ASSUME NEW i \in at
      PROVE  \E k \in 1..N : order[k] = i
  <2>1. PICK r \in 0..(N - 1) : Cardinality(prior(i)) = r
    BY <1>2
  <2>2. r + 1 \in 1..N /\ (r + 1) - 1 = r
    BY <1>2
  <2> HIDE DEF order, prior
  <2>3. QED BY <1>2, <1>5, <2>1, <2>2
<1> HIDE DEF order
<1>10. QED BY <1>2, <1>4, <1>6, <1>8, <1>9

-----------------------------------------------------------------------------
(* The stores.                                                             *)

StoreEntry == [id: Ids, exp: Int]
Stamps == [Ids -> Int]

\* A store is true to the stamps (when each id was last issued): it holds an
\* id once, and only with the expiry that its stamp gives.
Truthful(store, at) ==
    /\ store \in Seq(StoreEntry)
    /\ \A i, j \in DOMAIN store : store[i].id = store[j].id => i = j
    /\ \A i \in DOMAIN store :
          at[store[i].id] # -1 /\ store[i].exp = at[store[i].id] + Ttl

\* The ids that a live id competes with for a place, and a store that holds
\* whatever has fewer of them than there are places.
Rivals(at, id) == {other \in Ids \ {id} : at[other] >= at[id]}
Live(at, id, now) == at[id] # -1 /\ now < at[id] + Ttl
Ample(store, at, now) ==
    \A id \in Ids : Live(at, id, now) /\ Cardinality(Rivals(at, id)) < MaxSize
                        => Holds(store, id)

LEMMA PickedTruthful ==
    ASSUME NEW store, NEW stamps \in Stamps, Truthful(store, stamps), NEW at \in SUBSET DOMAIN store
    PROVE  /\ Truthful(Picked(store, at), stamps)
           /\ \A i \in at : Holds(Picked(store, at), store[i].id)
           /\ Len(Picked(store, at)) = Cardinality(at) /\ Cardinality(at) <= Len(store)
<1>1. store \in Seq(StoreEntry) /\ DOMAIN store = 1..Len(store) /\ Len(store) \in Nat
  BY DEF Truthful
<1>2. at \in SUBSET Nat /\ IsFiniteSet(at)
  <2>1. IsFiniteSet(1..Len(store))
    BY <1>1, FS_Interval
  <2>2. QED BY <1>1, <2>1, FS_Subset
<1> DEFINE N == Cardinality(at)
           p == Picked(store, at)
           order == Ascending(at)
<1>3. /\ N \in Nat /\ order \in [1..N -> at]
      /\ \A j, k \in 1..N : order[j] = order[k] => j = k
      /\ \A i \in at : \E k \in 1..N : order[k] = i
  BY <1>2, AscendingOf
<1>4. p = [k \in 1..N |-> store[order[k]]]
  BY DEF Picked
<1> HIDE DEF N, p, order
<1>5. \A k \in 1..N : p[k] = store[order[k]] /\ order[k] \in DOMAIN store /\ p[k] \in StoreEntry
  BY <1>1, <1>3, <1>4
<1>6. p \in Seq(StoreEntry) /\ DOMAIN p = 1..N
  <2>1. p = [k \in 1..N |-> store[order[k]]]
    BY <1>3, <1>4
  <2>2. \A k \in 1..N : store[order[k]] \in StoreEntry
    BY <1>5
  <2>3. QED BY <1>3, <2>1, <2>2
<1>7. Truthful(p, stamps)
  <2>1. \A i, j \in DOMAIN p : p[i].id = p[j].id => i = j
    BY <1>3, <1>4, <1>5, <1>6 DEF Truthful
  <2>2. \A i \in DOMAIN p : stamps[p[i].id] # -1 /\ p[i].exp = stamps[p[i].id] + Ttl
    BY <1>5, <1>6 DEF Truthful
  <2>3. QED BY <1>6, <2>1, <2>2 DEF Truthful
<1>8. \A i \in at : Holds(p, store[i].id)
  BY <1>3, <1>4, <1>5, <1>6 DEF Holds
<1>9. Len(p) = N
  BY <1>3, <1>6
<1>10. N <= Len(store)
  <2>1. PICK L \in Nat : L = Len(store)
    BY <1>1
  <2>2. 1 \in Int /\ L \in Int /\ (1 > L => L = 0)
    OBVIOUS
  <2>3. IsFiniteSet(1..L) /\ Cardinality(1..L) = L
    BY <2>2, FS_Interval
  <2>4. at \in SUBSET (1..L)
    BY <1>1, <2>1
  <2>5. Cardinality(at) <= Cardinality(1..L)
    BY <2>3, <2>4, FS_Subset
  <2>6. QED BY <2>1, <2>3, <2>5 DEF N
<1>11. QED BY <1>7, <1>8, <1>9, <1>10 DEF p, N

LEMMA PurgedKeeps ==
    ASSUME NEW store, NEW stamps \in Stamps, NEW now \in Int,
           Truthful(store, stamps), Ample(store, stamps, now)
    PROVE  /\ Truthful(Purged(store, now), stamps) /\ Ample(Purged(store, now), stamps, now)
           /\ Len(Purged(store, now)) <= Len(store)
<1> DEFINE at == {i \in DOMAIN store : store[i].exp > now}
<1>1. at \in SUBSET DOMAIN store
  OBVIOUS
<1>2. Purged(store, now) = Picked(store, at)
  BY DEF Purged
<1>3. /\ Truthful(Picked(store, at), stamps)
      /\ \A i \in at : Holds(Picked(store, at), store[i].id)
      /\ Len(Picked(store, at)) <= Len(store)
  <2> HIDE DEF at
  <2>1. QED BY <1>1, PickedTruthful
<1>4. ASSUME NEW id \in Ids, Live(stamps, id, now), Cardinality(Rivals(stamps, id)) < MaxSize
      PROVE  Holds(Picked(store, at), id)
  <2>1. PICK i \in DOMAIN store : store[i].id = id
    BY <1>4 DEF Ample, Holds
  <2>2. store[i].exp = stamps[id] + Ttl
    BY <2>1 DEF Truthful
  <2>3. i \in at
    BY <2>1, <2>2, <1>4 DEF Live
  <2> HIDE DEF at
  <2>4. QED BY <1>3, <2>1, <2>3
<1> HIDE DEF at
<1>5. QED BY <1>2, <1>3, <1>4 DEF Ample

\* A store that takes the ids of a response.
LEMMA PutAllKeeps ==
    ASSUME NEW store, NEW stamps \in Stamps, NEW now \in Nat, NEW ids \in SUBSET Ids,
           Truthful(store, stamps), NEW order \in SetToSeqs(Unheld(store, ids)),
           NEW new \in Stamps, \A id \in Ids : new[id] = IF id \in ids THEN now ELSE stamps[id]
    PROVE  /\ Truthful(PutAll(store, ids, order, now + Ttl), new)
           /\ \A id \in Ids : id \in ids \/ Holds(store, id)
                => Holds(PutAll(store, ids, order, now + Ttl), id)
<1> DEFINE exp == now + Ttl
           fresh == Unheld(store, ids)
           old == [i \in DOMAIN store |->
                    IF store[i].id \in ids THEN Put(store[i].id, exp) ELSE store[i]]
           added == [k \in DOMAIN order |-> Put(order[k], exp)]
           full == PutAll(store, ids, order, exp)
           n == Cardinality(fresh)
<1>1. /\ store \in Seq(StoreEntry) /\ DOMAIN store = 1..Len(store) /\ Len(store) \in Nat
      /\ \A i \in DOMAIN store : store[i] \in StoreEntry
  BY DEF Truthful
<1>2. Ttl \in Nat \ {0} /\ exp \in Int
  BY ConstAssumption
<1>3. fresh \in SUBSET Ids /\ IsFiniteSet(fresh) /\ n \in Nat
  <2>1. fresh \in SUBSET Ids
    BY DEF Unheld
  <2>2. IsFiniteSet(Ids)
    BY ConstAssumption
  <2>3. IsFiniteSet(fresh)
    <3> HIDE DEF fresh
    <3> QED BY <2>1, <2>2, FS_Subset
  <2>4. QED BY <2>1, <2>3, FS_CardinalityType
<1> HIDE DEF fresh, exp
<1>4. /\ order \in [1..n -> fresh] /\ DOMAIN order = 1..n
      /\ \A i, j \in 1..n : order[i] = order[j] => i = j
  BY DEF SetToSeqs, fresh
<1>5. \A id \in fresh : \E k \in 1..n : order[k] = id
  <2>1. order \in Injection(1..n, fresh)
    BY <1>4 DEF Injection, IsInjective
  <2>2. IsFiniteSet(1..n) /\ Cardinality(1..n) = n
    BY <1>3, FS_Interval
  <2>3. order \in Surjection(1..n, fresh)
    BY <1>3, <2>1, <2>2, FS_Injection
  <2>4. QED BY <2>3 DEF Surjection
<1>6. /\ old \in Seq(StoreEntry) /\ Len(old) = Len(store)
      /\ \A i \in DOMAIN store :
            /\ old[i].id = store[i].id
            /\ old[i].exp = new[store[i].id] + Ttl /\ new[store[i].id] # -1
  <2>1. ASSUME NEW i \in DOMAIN store
        PROVE  /\ old[i] \in StoreEntry /\ old[i].id = store[i].id
               /\ old[i].exp = new[store[i].id] + Ttl /\ new[store[i].id] # -1
    <3>1. old[i] = IF store[i].id \in ids THEN Put(store[i].id, exp) ELSE store[i]
      OBVIOUS
    <3>2. store[i].id \in Ids
      BY <1>1 DEF StoreEntry
    <3> HIDE DEF old
    <3>3. CASE store[i].id \in ids
      BY <3>1, <3>2, <3>3, <1>2 DEF Put, exp, StoreEntry
    <3>4. CASE store[i].id \notin ids
      BY <3>1, <3>2, <3>4, <1>1 DEF Truthful
    <3>5. QED BY <3>3, <3>4
  <2>2. DOMAIN old = 1..Len(store)
    BY <1>1
  <2>3. old \in Seq(StoreEntry)
    <3>1. \A i \in 1..Len(store) : old[i] \in StoreEntry
      BY <1>1, <2>1
    <3>2. QED BY <1>1, <3>1
  <2>4. Len(old) = Len(store)
    BY <1>1
  <2> HIDE DEF old
  <2>5. QED BY <2>1, <2>3, <2>4
<1>7. /\ added \in Seq(StoreEntry) /\ Len(added) = n
      /\ \A k \in 1..n : added[k].id = order[k] /\ added[k].exp = exp
  <2>1. \A k \in 1..n : Put(order[k], exp) \in StoreEntry
                        /\ Put(order[k], exp).id = order[k] /\ Put(order[k], exp).exp = exp
    BY <1>2, <1>3, <1>4 DEF Put, StoreEntry
  <2>2. added = [k \in 1..n |-> Put(order[k], exp)]
    BY <1>4
  <2> HIDE DEF added
  <2>3. QED BY <1>3, <2>1, <2>2
<1>8. full = old \o added
  BY DEF PutAll, exp
<1> DEFINE L == Len(store)
<1> HIDE DEF old, added, full, n
<1>9. /\ full \in Seq(StoreEntry) /\ DOMAIN full = 1..(L + n) /\ Len(full) = L + n
      /\ \A i \in 1..L : full[i] = old[i]
      /\ \A k \in 1..n : full[L + k] = added[k]
  <2>1. L \in Nat /\ n \in Nat /\ Len(old) = L /\ Len(added) = n
    BY <1>1, <1>3, <1>6, <1>7
  <2>2. old \in Seq(StoreEntry) /\ added \in Seq(StoreEntry)
    BY <1>6, <1>7
  <2> HIDE DEF L
  <2>3. full \in Seq(StoreEntry) /\ Len(full) = L + n
    BY <1>8, <2>1, <2>2, ConcatProperties
  <2>4. \A i \in 1..L : full[i] = old[i]
    BY <1>8, <2>1, <2>2
  <2>5. \A k \in 1..n : full[L + k] = added[k]
    BY <1>8, <2>1, <2>2
  <2>6. QED BY <2>3, <2>4, <2>5
<1>10. \A i \in 1..L : full[i].id = store[i].id /\ full[i].exp = new[store[i].id] + Ttl
                       /\ new[store[i].id] # -1
  BY <1>1, <1>6, <1>9
<1>11. \A k \in 1..n : full[L + k].id = order[k] /\ full[L + k].exp = exp
  BY <1>7, <1>9
<1>12. \A i \in DOMAIN full : i \in 1..L \/ \E k \in 1..n : i = L + k
  <2>1. \A i \in 1..(L + n) : i \in 1..L \/ (i - L \in 1..n /\ i = L + (i - L))
    BY <1>1, <1>3
  <2>2. QED BY <1>9, <2>1
<1>13. \A i \in 1..L, k \in 1..n : full[i].id # full[L + k].id
  <2>1. \A k \in 1..n : ~Holds(store, order[k])
    BY <1>4 DEF fresh, Unheld
  <2>2. \A i \in 1..L : Holds(store, store[i].id)
    BY <1>1 DEF Holds
  <2>3. QED BY <1>10, <1>11, <2>1, <2>2
<1>14. \A i, j \in DOMAIN full : full[i].id = full[j].id => i = j
  <2> SUFFICES ASSUME NEW i \in DOMAIN full, NEW j \in DOMAIN full, full[i].id = full[j].id
               PROVE  i = j
    OBVIOUS
  <2>1. CASE i \in 1..L /\ j \in 1..L
    BY <2>1, <1>1, <1>10 DEF Truthful
  <2>2. ASSUME NEW k \in 1..n, NEW m \in 1..n, i = L + k, j = L + m
        PROVE  i = j
    <3>1. order[k] = order[m]
      BY <2>2, <1>11
    <3>2. QED BY <3>1, <2>2, <1>4
  <2>3. QED BY <1>12, <1>13, <2>1, <2>2
<1>15. \A i \in DOMAIN full : new[full[i].id] # -1 /\ full[i].exp = new[full[i].id] + Ttl
  <2>1. \A i \in 1..L : new[full[i].id] # -1 /\ full[i].exp = new[full[i].id] + Ttl
    BY <1>10
  <2>2. \A k \in 1..n : order[k] \in ids /\ order[k] \in Ids
    BY <1>4, <1>3 DEF fresh, Unheld
  <2>3. \A k \in 1..n : new[full[L + k].id] = now
    BY <1>11, <2>2
  <2>4. now # -1
    OBVIOUS
  <2>5. QED BY <1>11, <1>12, <2>1, <2>3, <2>4 DEF exp
<1>16. Truthful(full, new)
  BY <1>9, <1>14, <1>15 DEF Truthful
<1>17. ASSUME NEW id \in Ids, id \in ids \/ Holds(store, id)
       PROVE  Holds(full, id)
  <2>1. CASE Holds(store, id)
    <3>1. PICK i \in DOMAIN store : store[i].id = id
      BY <2>1 DEF Holds
    <3>2. i \in DOMAIN full /\ full[i].id = id
      <4>1. i \in 1..L
        BY <1>1
      <4>2. i \in 1..(L + n)
        BY <4>1, <1>1, <1>3
      <4>3. QED BY <3>1, <4>1, <4>2, <1>9, <1>10
    <3>3. QED BY <3>2 DEF Holds
  <2>2. CASE ~Holds(store, id)
    <3>1. id \in fresh
      BY <1>17, <2>2 DEF fresh, Unheld
    <3>2. PICK k \in 1..n : order[k] = id
      BY <3>1, <1>5
    <3>3. L + k \in DOMAIN full /\ full[L + k].id = id
      <4>1. L + k \in 1..(L + n)
        BY <1>1, <1>3
      <4>2. QED BY <3>2, <4>1, <1>9, <1>11
    <3>4. QED BY <3>3 DEF Holds
  <2>3. QED BY <2>1, <2>2
<1>18. QED BY <1>16, <1>17 DEF full, exp

LEMMA RivalsFinite ==
    ASSUME NEW stamps, NEW id
    PROVE  /\ IsFiniteSet(Rivals(stamps, id)) /\ Cardinality(Rivals(stamps, id)) \in Nat
           /\ Rivals(stamps, id) \in SUBSET Ids
<1>1. Rivals(stamps, id) \in SUBSET Ids
  BY DEF Rivals
<1>2. IsFiniteSet(Ids)
  BY ConstAssumption
<1>3. IsFiniteSet(Rivals(stamps, id))
  BY <1>1, <1>2, FS_Subset
<1>4. QED BY <1>1, <1>3, FS_CardinalityType

\* The cap takes the soonest to expire: what goes has as many rivals as there
\* are places.
\* No more than MaxSize entries have a rank that is kept: ranks differ.
LEMMA CapHolds ==
    ASSUME NEW store \in Seq(StoreEntry)
    PROVE  Cardinality({i \in DOMAIN store : Rank(store, i) >= Len(store) - MaxSize}) <= MaxSize
<1> DEFINE S == DOMAIN store
           R == {pair \in S \X S : Sooner(store, pair[1], pair[2])}
           prior(i) == {j \in S : <<j, i>> \in R}
           at == {i \in S : Rank(store, i) >= Len(store) - MaxSize}
           rank == [i \in at |-> Rank(store, i)]
<1>1. PICK L \in Nat : L = Len(store) /\ S = 1..L
  OBVIOUS
<1>2. \A i \in S : store[i].exp \in Int /\ i \in Nat
  <2>1. \A i \in S : store[i] \in StoreEntry /\ i \in Nat
    OBVIOUS
  <2>2. \A e \in StoreEntry : e.exp \in Int
    BY DEF StoreEntry
  <2> HIDE DEF S
  <2>3. QED BY <2>1, <2>2
<1>3. \A i, j \in S : <<i, j>> \in R <=> Sooner(store, i, j)
  OBVIOUS
<1>4. IsFiniteSet(S) /\ Cardinality(S) = L
  <2>1. 1 \in Int /\ L \in Int /\ (1 > L => L = 0)
    OBVIOUS
  <2>2. IsFiniteSet(1..L) /\ Cardinality(1..L) = L
    BY <2>1, FS_Interval
  <2>3. QED BY <1>1, <2>2
<1>5. /\ \A i \in S : Cardinality(prior(i)) \in 0..(Cardinality(S) - 1)
      /\ \A i, j \in S : Cardinality(prior(i)) = Cardinality(prior(j)) => i = j
  <2>1. \A i \in S : <<i, i>> \notin R
    BY <1>2, <1>3 DEF Sooner
  <2>2. \A i, j, k \in S : <<i, j>> \in R /\ <<j, k>> \in R => <<i, k>> \in R
    <3>1. \A i, j, k \in S : Sooner(store, i, j) /\ Sooner(store, j, k) => Sooner(store, i, k)
      BY <1>2 DEF Sooner
    <3> HIDE DEF R, S
    <3>2. QED BY <1>3, <3>1
  <2>3. \A i, j \in S : i # j => <<i, j>> \in R \/ <<j, i>> \in R
    <3>1. \A i, j \in S : i # j => Sooner(store, i, j) \/ Sooner(store, j, i)
      BY <1>2 DEF Sooner
    <3> HIDE DEF R, S
    <3>2. QED BY <1>3, <3>1
  <2> HIDE DEF R, S
  <2>4. QED BY <1>4, <2>1, <2>2, <2>3, EachHasAPlace
<1>6. \A i \in S : Rank(store, i) = Cardinality(prior(i))
  <2> SUFFICES ASSUME NEW i \in S
               PROVE  Rank(store, i) = Cardinality(prior(i))
    OBVIOUS
  <2>1. prior(i) = {j \in S : Sooner(store, j, i)}
    <3> HIDE DEF R
    <3> QED BY <1>3
  <2> HIDE DEF prior
  <2>2. QED BY <2>1 DEF Rank
<1> HIDE DEF prior, R, S
<1>7. /\ \A i \in S : Rank(store, i) \in 0..(L - 1)
      /\ \A i, j \in S : Rank(store, i) = Rank(store, j) => i = j
  BY <1>4, <1>5, <1>6
<1>8. MaxSize \in Nat \ {0}
  BY ConstAssumption
<1>9. PICK low \in Int : low = L - MaxSize
  BY <1>8
<1>10. \A i \in at : rank[i] \in low..(L - 1)
  BY <1>1, <1>7, <1>8, <1>9
<1>11. at \in SUBSET S /\ IsFiniteSet(at)
  <2>1. at \in SUBSET S
    OBVIOUS
  <2> HIDE DEF at
  <2>2. QED BY <1>4, <2>1, FS_Subset
<1>12. rank \in Injection(at, low..(L - 1))
  <2>1. rank \in [at -> low..(L - 1)]
    BY <1>10
  <2>2. \A i, j \in at : rank[i] = rank[j] => i = j
    BY <1>7
  <2> HIDE DEF rank, at
  <2>3. QED BY <2>1, <2>2 DEF Injection, IsInjective
<1>13. Cardinality(low..(L - 1)) = MaxSize
  <2>1. PICK high \in Int : high = L - 1
    OBVIOUS
  <2>2. ~(low > high) /\ high - low + 1 = MaxSize
    BY <1>8, <1>9, <2>1
  <2>3. Cardinality(low..high) = IF low > high THEN 0 ELSE high - low + 1
    BY FS_Interval
  <2>4. QED BY <2>1, <2>2, <2>3
<1>14. IsFiniteSet(low..(L - 1))
  <2>1. PICK high \in Int : high = L - 1
    OBVIOUS
  <2>2. IsFiniteSet(low..high)
    BY FS_Interval
  <2>3. QED BY <2>1, <2>2
<1>15. Cardinality(at) <= Cardinality(low..(L - 1))
  <2> HIDE DEF at, rank
  <2>1. QED BY <1>11, <1>12, <1>14, FS_Injection
<1>16. QED BY <1>13, <1>15 DEF S

LEMMA CappedKeeps ==
    ASSUME NEW store, NEW stamps \in Stamps, NEW now \in Int,
           Truthful(store, stamps), Ample(store, stamps, now)
    PROVE  /\ Truthful(Capped(store), stamps) /\ Ample(Capped(store), stamps, now)
           /\ Len(Capped(store)) <= MaxSize
<1> DEFINE at == {i \in DOMAIN store : Rank(store, i) >= Len(store) - MaxSize}
           L == Len(store)
<1>1. /\ store \in Seq(StoreEntry) /\ DOMAIN store = 1..L /\ L \in Nat
      /\ \A i \in DOMAIN store : store[i].id \in Ids /\ store[i].exp \in Int
                                 /\ store[i].exp = stamps[store[i].id] + Ttl
  <2>1. store \in Seq(StoreEntry)
    BY DEF Truthful
  <2>2. DOMAIN store = 1..L /\ L \in Nat /\ \A i \in DOMAIN store : store[i] \in StoreEntry
    BY <2>1
  <2>3. \A i \in DOMAIN store : store[i].exp = stamps[store[i].id] + Ttl
    BY DEF Truthful
  <2>4. \A e \in StoreEntry : e.id \in Ids /\ e.exp \in Int
    BY DEF StoreEntry
  <2>5. QED BY <2>1, <2>2, <2>3, <2>4
<1>2. at \in SUBSET DOMAIN store /\ Capped(store) = Picked(store, at)
  BY DEF Capped
<1>3. /\ Truthful(Picked(store, at), stamps)
      /\ \A i \in at : Holds(Picked(store, at), store[i].id)
      /\ Len(Picked(store, at)) = Cardinality(at)
  <2> HIDE DEF at
  <2>1. QED BY <1>2, PickedTruthful
<1>4. MaxSize \in Nat /\ Ttl \in Nat
  BY ConstAssumption
<1>5. ASSUME NEW id \in Ids, Live(stamps, id, now), Cardinality(Rivals(stamps, id)) < MaxSize
      PROVE  Holds(Picked(store, at), id)
  <2>1. PICK i \in DOMAIN store : store[i].id = id
    BY <1>5 DEF Ample, Holds
  <2> DEFINE before == {j \in DOMAIN store : Sooner(store, j, i)}
             after == (DOMAIN store) \ (before \cup {i})
             f == [j \in after |-> store[j].id]
  <2>2. IsFiniteSet(DOMAIN store) /\ Cardinality(DOMAIN store) = L
    <3> HIDE DEF L
    <3>1. 1 \in Int /\ L \in Int /\ (1 > L => L = 0)
      BY <1>1
    <3>2. IsFiniteSet(1..L) /\ Cardinality(1..L) = L
      BY <3>1, FS_Interval
    <3>3. QED BY <1>1, <3>2
  <2>3. before \in SUBSET DOMAIN store /\ i \notin before
    BY <2>1, <1>1 DEF Sooner
  <2>4. IsFiniteSet(before) /\ Cardinality(before) \in Nat
    <3> HIDE DEF before
    <3>1. IsFiniteSet(before)
      BY <2>2, <2>3, FS_Subset
    <3>2. QED BY <3>1, FS_CardinalityType
  <2>5. Cardinality(before \cup {i}) = Cardinality(before) + 1 /\ IsFiniteSet(before \cup {i})
    <3> HIDE DEF before
    <3> QED BY <2>3, <2>4, FS_AddElement
  <2>6. IsFiniteSet(after) /\ Cardinality(after) = L - (Cardinality(before) + 1)
    <3>1. (DOMAIN store) \cap (before \cup {i}) = before \cup {i}
      BY <2>1, <2>3
    <3> HIDE DEF before
    <3>2. /\ IsFiniteSet((DOMAIN store) \ (before \cup {i}))
          /\ Cardinality((DOMAIN store) \ (before \cup {i}))
               = Cardinality(DOMAIN store) - Cardinality((DOMAIN store) \cap (before \cup {i}))
      BY <2>2, FS_Difference
    <3>3. QED BY <3>1, <3>2, <2>2, <2>5
  <2>7. \A j \in after : store[j].id \in Rivals(stamps, id)
    <3> SUFFICES ASSUME NEW j \in after
                 PROVE  store[j].id \in Rivals(stamps, id)
      OBVIOUS
    <3>1. j \in DOMAIN store /\ j # i /\ ~Sooner(store, j, i)
      OBVIOUS
    <3>2. store[j].exp >= store[i].exp
      BY <3>1, <2>1, <1>1 DEF Sooner
    <3>3. stamps[store[j].id] \in Int /\ stamps[id] \in Int /\ store[j].id \in Ids
      BY <3>1, <1>1 DEF Stamps
    <3>4. stamps[store[j].id] >= stamps[id]
      BY <3>1, <3>2, <3>3, <2>1, <1>1, <1>4
    <3>5. store[j].id # id
      BY <3>1, <2>1 DEF Truthful
    <3>6. QED BY <3>3, <3>4, <3>5 DEF Rivals
  <2>8. f \in Injection(after, Rivals(stamps, id))
    <3>1. f \in [after -> Rivals(stamps, id)]
      BY <2>7
    <3>2. \A j, k \in after : f[j] = f[k] => j = k
      BY DEF Truthful
    <3> HIDE DEF f, after
    <3>3. QED BY <3>1, <3>2 DEF Injection, IsInjective
  <2>9. Cardinality(after) <= Cardinality(Rivals(stamps, id))
    <3> HIDE DEF f, after
    <3> QED BY <2>8, RivalsFinite, FS_Injection
  <2>10. Cardinality(before) >= L - MaxSize
    <3>1. Cardinality(Rivals(stamps, id)) \in Nat
      BY RivalsFinite
    <3> HIDE DEF before, after, L
    <3>2. QED BY <3>1, <2>4, <2>6, <2>9, <1>1, <1>4, <1>5
  <2>11. i \in at
    BY <2>1, <2>10 DEF Rank
  <2> HIDE DEF at
  <2>12. QED BY <1>3, <2>1, <2>11
<1>6. Cardinality(at) <= MaxSize
  BY <1>1, CapHolds
<1> HIDE DEF at
<1>7. QED BY <1>2, <1>3, <1>5, <1>6 DEF Ample

\* What an outsider can issue.
\* A field holds objects of the body.
LEMMA AtIn ==
    ASSUME NEW b, IsBody(b), NEW n \in DOMAIN b, NEW field
    PROVE  /\ At(b, n, field) \in Seq(DOMAIN b)
           /\ \A j \in DOMAIN At(b, n, field) : At(b, n, field)[j] \in DOMAIN b
<1>1. At(b, n, field) \in Seq(DOMAIN b)
  <2>1. \A f \in DOMAIN b[n].fields : b[n].fields[f].items \in Seq(DOMAIN b)
    BY DEF IsBody
  <2>2. CASE field \in DOMAIN b[n].fields /\ b[n].fields[field].list = (field \in Lists)
    <3>1. At(b, n, field) = b[n].fields[field].items
      BY <2>2 DEF At
    <3>2. QED BY <2>1, <2>2, <3>1
  <2>3. CASE ~(field \in DOMAIN b[n].fields /\ b[n].fields[field].list = (field \in Lists))
    <3>1. At(b, n, field) = <<>>
      BY <2>3 DEF At
    <3>2. QED BY <3>1
  <2>4. QED BY <2>2, <2>3
<1>2. QED BY <1>1

LEMMA OneIs ==
    ASSUME NEW b, IsBody(b), NEW n \in DOMAIN b, NEW field
    PROVE  One(b, n, field) \in {0} \cup DOMAIN b
           /\ ToSet(At(b, n, field)) \in SUBSET DOMAIN b
<1>1. /\ At(b, n, field) \in Seq(DOMAIN b)
      /\ \A j \in DOMAIN At(b, n, field) : At(b, n, field)[j] \in DOMAIN b
  BY AtIn
<1>2. PICK items \in Seq(DOMAIN b) : items = At(b, n, field)
  BY <1>1
<1>3. items # <<>> => items[1] \in DOMAIN b
  OBVIOUS
<1>4. ToSet(items) \in SUBSET DOMAIN b
  BY DEF ToSet
<1>5. QED BY <1>2, <1>3, <1>4 DEF One

LEMMA CollectedIds ==
    ASSUME NEW b, IsBody(b), NEW kind
    PROVE  Collected(b, kind) \in SUBSET Ids
<1>1. 1 \in DOMAIN b
  BY DEF IsBody
<1>2. \A n \in {0} \cup DOMAIN b, own \in BOOLEAN : IdsOn(b, n, own, kind) \in SUBSET Ids
  BY DEF IsBody, IdsOn, Names
<1>3. PICK result : result = One(b, 1, "result")
  OBVIOUS
<1>4. PICK params : params = One(b, 1, "params")
  OBVIOUS
<1>5. result \in {0} \cup DOMAIN b /\ params \in {0} \cup DOMAIN b
  BY <1>1, <1>3, <1>4, OneIs
<1>6. CASE result = 0
  <2>1. Collected(b, kind) = IdsOn(b, params, FALSE, kind)
    BY <1>3, <1>4, <1>6 DEF Collected
  <2>2. QED BY <1>2, <1>5, <2>1
<1>7. CASE result # 0
  <2>1. PICK status \in {0} \cup DOMAIN b : status = One(b, result, "status")
    BY <1>5, <1>7, OneIs
  <2>2. PICK task \in {0} \cup DOMAIN b : task = One(b, result, "task")
    BY <1>5, <1>7, OneIs
  <2>3. PICK artifacts \in SUBSET DOMAIN b : artifacts = ToSet(At(b, result, "artifacts"))
    BY <1>5, <1>7, OneIs
  <2>4. Collected(b, kind) = IdsOn(b, params, FALSE, kind)
            \cup (IdsOn(b, result, TRUE, kind) \cup IdsOn(b, status, TRUE, kind)
                  \cup IdsOn(b, task, TRUE, kind)
                  \cup UNION {IdsOn(b, a, FALSE, kind) : a \in artifacts})
    BY <1>3, <1>4, <1>7, <2>1, <2>2, <2>3 DEF Collected
  <2>5. UNION {IdsOn(b, a, FALSE, kind) : a \in artifacts} \in SUBSET Ids
    BY <1>2
  <2>6. QED BY <1>2, <1>5, <2>4, <2>5
<1>8. QED BY <1>6, <1>7

-----------------------------------------------------------------------------
(* The tracker.                                                            *)

TrackerInv ==
    /\ clock \in Nat /\ clock <= MaxClock
    /\ issued \in [Kinds -> Stamps]
    /\ DOMAIN known = Kinds
    /\ \A kind \in Kinds :
          /\ \A id \in Ids : issued[kind][id] <= clock /\ issued[kind][id] >= -1
          /\ Len(known[kind]) <= MaxSize
          /\ Truthful(known[kind], issued[kind])
          /\ Ample(known[kind], issued[kind], clock)

LEMMA TrackerInit == Init => TrackerInv
<1> SUFFICES ASSUME Init
             PROVE  TrackerInv
  OBVIOUS
<1>0. MaxClock \in Nat /\ MaxSize \in Nat
  BY ConstAssumption
<1>1. clock \in Nat /\ issued \in [Kinds -> Stamps] /\ DOMAIN known = Kinds
  BY DEF Init, Stamps
<1>2. ASSUME NEW kind \in Kinds
      PROVE  /\ \A id \in Ids : issued[kind][id] = -1
             /\ known[kind] = <<>>
  BY DEF Init
<1>3. ASSUME NEW kind \in Kinds
      PROVE  Truthful(known[kind], issued[kind]) /\ Ample(known[kind], issued[kind], clock)
  <2>1. Truthful(<<>>, issued[kind])
    BY DEF Truthful
  <2>2. Ample(<<>>, issued[kind], clock)
    BY <1>2 DEF Ample, Live
  <2>3. QED BY <1>2, <2>1, <2>2
<1>4. clock = 0
  BY DEF Init
<1>5. QED BY <1>0, <1>1, <1>2, <1>3, <1>4 DEF TrackerInv

\* A response leaves each store true to the new stamps, and none of the live
\* ids without a place.
LEMMA RecordedKeeps ==
    ASSUME TrackerInv, NEW kind \in Kinds, NEW ids \in SUBSET Ids,
           NEW store \in Recorded(kind, ids), NEW new \in Stamps,
           \A id \in Ids : new[id] = IF id \in ids THEN clock ELSE issued[kind][id]
    PROVE  Truthful(store, new) /\ Ample(store, new, clock) /\ Len(store) <= MaxSize
<1>1. /\ clock \in Nat /\ issued[kind] \in Stamps
      /\ \A id \in Ids : issued[kind][id] <= clock
      /\ Truthful(known[kind], issued[kind]) /\ Ample(known[kind], issued[kind], clock)
  BY DEF TrackerInv
<1>2. PICK stamps \in Stamps : stamps = issued[kind]
  BY <1>1
<1>3. PICK old : old = Purged(known[kind], clock)
  OBVIOUS
<1>4. Truthful(old, stamps) /\ Ample(old, stamps, clock)
  BY <1>1, <1>2, <1>3, PurgedKeeps
<1>5. PICK order \in SetToSeqs(Unheld(old, ids)) :
        store = Capped(PutAll(old, ids, order, clock + Ttl))
  BY <1>3 DEF Recorded
<1>6. PICK full : full = PutAll(old, ids, order, clock + Ttl)
  OBVIOUS
<1>7. /\ Truthful(full, new)
      /\ \A id \in Ids : id \in ids \/ Holds(old, id) => Holds(full, id)
  BY <1>1, <1>2, <1>4, <1>6, PutAllKeeps
<1>8. ASSUME NEW id \in Ids, Live(new, id, clock), Cardinality(Rivals(new, id)) < MaxSize
      PROVE  Holds(full, id)
  <2>1. CASE id \in ids
    BY <1>7, <2>1
  <2>2. CASE id \notin ids
    <3>1. new[id] = stamps[id]
      BY <1>2, <2>2
    <3>2. Rivals(stamps, id) \in SUBSET Rivals(new, id)
      <4>1. ASSUME NEW other \in Rivals(stamps, id)
            PROVE  other \in Rivals(new, id)
        <5>1. other \in Ids /\ other # id /\ stamps[other] >= stamps[id]
          BY DEF Rivals
        <5>2. stamps[other] \in Int /\ stamps[id] \in Int /\ stamps[other] <= clock
          BY <1>1, <1>2, <5>1 DEF Stamps
        <5>3. new[other] >= new[id]
          <6>1. CASE other \in ids
            BY <6>1, <5>1, <5>2, <3>1, <1>1
          <6>2. CASE other \notin ids
            BY <6>2, <5>1, <5>2, <3>1, <1>2
          <6>3. QED BY <6>1, <6>2
        <5>4. QED BY <5>1, <5>3 DEF Rivals
      <4>2. QED BY <4>1
    <3>3. Cardinality(Rivals(stamps, id)) <= Cardinality(Rivals(new, id))
      BY <3>2, RivalsFinite, FS_Subset
    <3>4. Cardinality(Rivals(stamps, id)) < MaxSize
      <4>1. Cardinality(Rivals(stamps, id)) \in Nat /\ Cardinality(Rivals(new, id)) \in Nat
            /\ MaxSize \in Nat
        BY RivalsFinite, ConstAssumption
      <4>2. QED BY <4>1, <3>3, <1>8
    <3>5. Live(stamps, id, clock)
      BY <1>8, <3>1 DEF Live
    <3>6. QED BY <1>4, <1>7, <3>4, <3>5 DEF Ample
  <2>3. QED BY <2>1, <2>2
<1>9. Ample(full, new, clock)
  BY <1>8 DEF Ample
<1>10. QED BY <1>1, <1>5, <1>6, <1>7, <1>9, CappedKeeps

LEMMA JudgeTracker ==
    ASSUME TrackerInv, NEW content, Judge(content)
    PROVE  TrackerInv'
<1>1. /\ known' = [kind \in Kinds |-> Purged(known[kind], clock)]
      /\ clock' = clock /\ issued' = issued
  BY DEF Judge
<1>2. /\ clock \in Nat /\ clock <= MaxClock /\ issued \in [Kinds -> Stamps]
  BY DEF TrackerInv
<1>3. ASSUME NEW kind \in Kinds
      PROVE  /\ \A id \in Ids : issued'[kind][id] <= clock' /\ issued'[kind][id] >= -1
             /\ Len(known'[kind]) <= MaxSize
             /\ Truthful(known'[kind], issued'[kind])
             /\ Ample(known'[kind], issued'[kind], clock')
  <2>1. /\ Truthful(known[kind], issued[kind]) /\ Ample(known[kind], issued[kind], clock)
        /\ \A id \in Ids : issued[kind][id] <= clock /\ issued[kind][id] >= -1
        /\ Len(known[kind]) <= MaxSize
    BY DEF TrackerInv
  <2>2. known'[kind] = Purged(known[kind], clock)
    BY <1>1
  <2>3. issued[kind] \in Stamps /\ clock \in Int
    BY <1>2
  <2>4. Truthful(Purged(known[kind], clock), issued[kind])
        /\ Ample(Purged(known[kind], clock), issued[kind], clock)
        /\ Len(Purged(known[kind], clock)) <= Len(known[kind])
    BY <2>1, <2>3, PurgedKeeps
  <2>5. Len(Purged(known[kind], clock)) <= MaxSize
    <3>1. Len(known[kind]) \in Nat /\ Len(Purged(known[kind], clock)) \in Nat /\ MaxSize \in Nat
      BY <2>1, <2>4, ConstAssumption DEF Truthful
    <3>2. QED BY <2>1, <2>4, <3>1
  <2>6. QED BY <1>1, <2>1, <2>2, <2>4, <2>5
<1>4. DOMAIN known' = Kinds
  BY <1>1
<1>5. QED BY <1>1, <1>2, <1>3, <1>4 DEF TrackerInv

LEMMA RecordTracker ==
    ASSUME TrackerInv, NEW name \in DOMAIN Replies, Record(Replies[name])
    PROVE  TrackerInv'
<1>1. PICK b : b = Replies[name]
  OBVIOUS
<1>2. IsBody(b)
  BY <1>1, BodiesAssumption
<1>3. /\ issued' = [kind \in Kinds |-> [id \in Ids |->
            IF id \in Collected(b, kind) THEN clock ELSE issued[kind][id]]]
      /\ clock' = clock
      /\ DOMAIN known' = Kinds
      /\ \A kind \in Kinds : known'[kind] \in Recorded(kind, Collected(b, kind))
  BY <1>1 DEF Record
<1>4. clock \in Nat /\ clock <= MaxClock /\ issued \in [Kinds -> Stamps]
  BY DEF TrackerInv
<1>5. ASSUME NEW kind \in Kinds
      PROVE  /\ issued'[kind] \in Stamps
             /\ \A id \in Ids : issued'[kind][id] <= clock' /\ issued'[kind][id] >= -1
             /\ Len(known'[kind]) <= MaxSize
             /\ Truthful(known'[kind], issued'[kind])
             /\ Ample(known'[kind], issued'[kind], clock')
  <2>1. PICK ids \in SUBSET Ids : ids = Collected(b, kind)
    BY <1>2, CollectedIds
  <2>2. PICK stamps \in Stamps : stamps = issued[kind]
    BY <1>4
  <2>3. \A id \in Ids : stamps[id] \in Int /\ stamps[id] <= clock /\ stamps[id] >= -1
    BY <2>2 DEF TrackerInv, Stamps
  <2>4. PICK new : new = issued'[kind]
    OBVIOUS
  <2>5. new = [id \in Ids |-> IF id \in ids THEN clock ELSE stamps[id]]
    BY <1>3, <2>1, <2>2, <2>4
  <2>6. \A id \in Ids : new[id] = IF id \in ids THEN clock ELSE stamps[id]
    BY <2>5
  <2>7. new \in Stamps
    <3>1. \A id \in Ids : (IF id \in ids THEN clock ELSE stamps[id]) \in Int
      BY <2>3, <1>4
    <3>2. QED BY <2>5, <3>1 DEF Stamps
  <2>8. \A id \in Ids : new[id] <= clock /\ new[id] >= -1
    BY <2>3, <2>6, <1>4
  <2>9. known'[kind] \in Recorded(kind, ids)
    BY <1>3, <2>1
  <2>10. PICK store : store = known'[kind]
    OBVIOUS
  <2>11. Truthful(store, new) /\ Ample(store, new, clock) /\ Len(store) <= MaxSize
    BY <2>2, <2>6, <2>7, <2>9, <2>10, RecordedKeeps
  <2>12. QED BY <1>3, <2>4, <2>7, <2>8, <2>10, <2>11
<1>6. issued' \in [Kinds -> Stamps]
  <2>1. DOMAIN issued' = Kinds /\ issued' = [kind \in Kinds |-> issued'[kind]]
    BY <1>3
  <2>2. QED BY <2>1, <1>5
<1>7. QED BY <1>3, <1>4, <1>5, <1>6 DEF TrackerInv

LEMMA TickTracker ==
    ASSUME TrackerInv, Tick
    PROVE  TrackerInv'
<1>1. clock' = clock + 1 /\ clock < MaxClock /\ known' = known /\ issued' = issued /\ clock \in Nat
  BY DEF Tick, TrackerInv
<1>2. issued \in [Kinds -> Stamps] /\ DOMAIN known = Kinds
  BY DEF TrackerInv
<1>3. ASSUME NEW kind \in Kinds
      PROVE  /\ \A id \in Ids : issued[kind][id] <= clock' /\ issued[kind][id] >= -1
             /\ Len(known[kind]) <= MaxSize
             /\ Truthful(known[kind], issued[kind])
             /\ Ample(known[kind], issued[kind], clock')
  <2>1. /\ \A id \in Ids : issued[kind][id] \in Int /\ issued[kind][id] <= clock
                            /\ issued[kind][id] >= -1
        /\ Len(known[kind]) <= MaxSize
        /\ Truthful(known[kind], issued[kind])
        /\ Ample(known[kind], issued[kind], clock)
    BY <1>2 DEF TrackerInv, Stamps
  <2>2. Ttl \in Nat
    BY ConstAssumption
  <2>3. \A id \in Ids : Live(issued[kind], id, clock') => Live(issued[kind], id, clock)
    BY <1>1, <2>1, <2>2 DEF Live
  <2>4. Ample(known[kind], issued[kind], clock')
    BY <2>1, <2>3 DEF Ample
  <2>5. QED BY <1>1, <2>1, <2>4
<1>4. clock' \in Nat /\ clock' <= MaxClock
  BY <1>1, ConstAssumption
<1>5. QED BY <1>1, <1>2, <1>3, <1>4 DEF TrackerInv

LEMMA TrackerStep == TrackerInv /\ [Next]_vars => TrackerInv'
<1> SUFFICES ASSUME TrackerInv, [Next]_vars
             PROVE  TrackerInv'
  OBVIOUS
<1>1. CASE UNCHANGED <<known, clock, issued>>
  BY <1>1 DEF TrackerInv
<1>2. ASSUME NEW content, Judge(content)
      PROVE  TrackerInv'
  BY <1>2, JudgeTracker
<1>3. ASSUME NEW name \in DOMAIN Replies, Record(Replies[name])
      PROVE  TrackerInv'
  BY <1>3, RecordTracker
<1>4. CASE Tick
  BY <1>4, TickTracker
<1>5. QED BY <1>1, <1>2, <1>3, <1>4 DEF Next, Step, Receive, Visit, Return, vars

LEMMA HeldExpiry ==
    ASSUME NEW store, NEW stamps, Truthful(store, stamps), NEW id, Holds(store, id)
    PROVE  ExpiryOf(store, id) = stamps[id] + Ttl /\ stamps[id] # -1
<1>1. PICK i \in DOMAIN store : store[i].id = id
  BY DEF Holds
<1>2. store[i] \in ToSet(store)
  BY DEF ToSet
<1>3. PICK e : e = CHOOSE held \in ToSet(store) : held.id = id
  OBVIOUS
<1>4. e \in ToSet(store) /\ e.id = id
  BY <1>1, <1>2, <1>3
<1>5. PICK j \in DOMAIN store : store[j] = e
  BY <1>4 DEF ToSet
<1>6. stamps[id] # -1 /\ e.exp = stamps[id] + Ttl
  BY <1>4, <1>5 DEF Truthful
<1>7. QED BY <1>3, <1>6 DEF ExpiryOf

\* A follow-up to a live task is not called smuggling, and what is known was
\* issued within the time to live.
THEOREM IssuedKnown == Spec => []IssuedIsKnown
<1>1. Init => TrackerInv
  BY TrackerInit
<1>2. TrackerInv /\ [Next]_vars => TrackerInv'
  BY TrackerStep
<1>3. TrackerInv => IssuedIsKnown
  <2> SUFFICES ASSUME TrackerInv, NEW kind \in Kinds, NEW id \in Ids
               PROVE  LET at == issued[kind][id]
                          rivals == {other \in Ids \ {id} : issued[kind][other] >= at}
                      IN  /\ (at # -1 /\ clock < at + Ttl /\ Cardinality(rivals) < MaxSize)
                                => Classify(known[kind], id, clock) = "known"
                          /\ Classify(known[kind], id, clock) = "known"
                                => at # -1 /\ clock < at + Ttl
    BY DEF IssuedIsKnown
  <2>1. PICK stamps \in Stamps : stamps = issued[kind]
    BY DEF TrackerInv
  <2>2. PICK store : store = known[kind]
    OBVIOUS
  <2>3. Truthful(store, stamps) /\ Ample(store, stamps, clock) /\ clock \in Nat
    BY <2>1, <2>2 DEF TrackerInv
  <2>4. stamps[id] + Ttl \in Int /\ id # None
    BY ConstAssumption DEF Stamps
  <2>5. Holds(store, id) => ExpiryOf(store, id) = stamps[id] + Ttl /\ stamps[id] # -1
    BY <2>3, HeldExpiry
  <2>6. Classify(store, id, clock) = "known" <=> Holds(store, id) /\ clock < stamps[id] + Ttl
    <3>1. CASE ~Holds(store, id)
      BY <3>1 DEF Classify
    <3>2. CASE Holds(store, id)
      <4>1. Classify(store, id, clock)
              = IF stamps[id] + Ttl <= clock THEN "expired" ELSE "known"
        BY <3>2, <2>4, <2>5 DEF Classify
      <4>2. QED BY <4>1, <3>2, <2>3, <2>4
    <3>3. QED BY <3>1, <3>2
  <2>7. stamps[id] # -1 /\ clock < stamps[id] + Ttl /\ Cardinality(Rivals(stamps, id)) < MaxSize
            => Holds(store, id)
    BY <2>3 DEF Ample, Live
  <2>8. Rivals(stamps, id) = {other \in Ids \ {id} : issued[kind][other] >= issued[kind][id]}
    BY <2>1 DEF Rivals
  <2>9. QED BY <2>1, <2>2, <2>5, <2>6, <2>7, <2>8
<1>4. QED BY <1>1, <1>2, <1>3, PTL DEF Spec

-----------------------------------------------------------------------------
(* What a node leads to.                                                   *)

LEMMA EdgesOf ==
    ASSUME NEW kind
    PROVE  DOMAIN Edges(kind) \in SUBSET Nat /\ IsFiniteSet(DOMAIN Edges(kind))
<1>1. DOMAIN EnvelopeEdges = 1..2
  BY DEF EnvelopeEdges
<1>2. DOMAIN ContainerEdges = 1..7
  BY DEF ContainerEdges
<1>3. \E n \in Nat : DOMAIN Edges(kind) = 1..n
  <2>1. CASE kind = "envelope"
    BY <1>1, <2>1 DEF Edges
  <2>2. CASE kind = "container"
    BY <1>2, <2>2 DEF Edges
  <2>3. CASE kind \notin {"envelope", "container"}
    <3>1. Edges(kind) = <<>>
      BY <2>3 DEF Edges
    <3>2. DOMAIN Edges(kind) = 1..0
      BY <3>1
    <3>3. QED BY <3>2
  <2>4. QED BY <2>1, <2>2, <2>3
<1>4. PICK n \in Nat : DOMAIN Edges(kind) = 1..n
  BY <1>3
<1>5. IsFiniteSet(1..n)
  BY FS_Interval
<1>6. QED BY <1>4, <1>5

LEMMA ReadOf ==
    ASSUME NEW S, NEW items \in Seq(S)
    PROVE  /\ DOMAIN Read(items) = {j \in DOMAIN items : j <= MaxItems}
           /\ \A j \in DOMAIN Read(items) : Read(items)[j] = items[j]
           /\ DOMAIN Read(items) \in SUBSET (1..MaxItems)
<1>1. MaxItems \in Nat /\ Len(items) \in Nat /\ DOMAIN items = 1..Len(items)
  BY ConstAssumption
<1>2. CASE Len(items) < MaxItems
  <2>1. Read(items) = SubSeq(items, 1, Len(items))
    BY <1>2 DEF Read
  <2>2. Read(items) = items
    BY <2>1
  <2>3. QED BY <1>1, <1>2, <2>2
<1>3. CASE ~(Len(items) < MaxItems)
  <2>1. Read(items) = SubSeq(items, 1, MaxItems)
    BY <1>3 DEF Read
  <2>2. Read(items) = [j \in 1..MaxItems |-> items[j]]
    BY <2>1, <1>1, <1>3
  <2>3. QED BY <1>1, <1>3, <2>2
<1>4. QED BY <1>2, <1>3

\* Places in turn are all the places, each once.
LEMMA InTurnOf ==
    ASSUME NEW S \in SUBSET (Nat \X Nat), IsFiniteSet(S)
    PROVE  /\ Cardinality(S) \in Nat
           /\ InTurn(S) \in [1..Cardinality(S) -> S]
           /\ \A j, k \in 1..Cardinality(S) : InTurn(S)[j] = InTurn(S)[k] => j = k
           /\ \A p \in S : \E k \in 1..Cardinality(S) : InTurn(S)[k] = p
           /\ S # {} => \E p \in S : \A q \in S : ~Before(q, p)
<1> DEFINE R == {pair \in S \X S : Before(pair[1], pair[2])}
           prior(p) == {q \in S : <<q, p>> \in R}
           N == Cardinality(S)
           order == [k \in 1..N |-> CHOOSE p \in S : Cardinality(prior(p)) = k - 1]
<1>1. \A p, q \in S : <<p, q>> \in R <=> Before(p, q)
  OBVIOUS
<1>2. \A p \in S : p[1] \in Nat /\ p[2] \in Nat /\ p = <<p[1], p[2]>>
  OBVIOUS
<1>3. /\ N \in Nat
      /\ \A k \in 1..N : \E p \in S : Cardinality(prior(p)) = k - 1
      /\ \A p \in S : Cardinality(prior(p)) \in 0..(N - 1)
      /\ \A p, q \in S : Cardinality(prior(p)) = Cardinality(prior(q)) => p = q
  <2>1. \A p \in S : <<p, p>> \notin R
    BY <1>1, <1>2 DEF Before
  <2>2. \A p, q, r \in S : <<p, q>> \in R /\ <<q, r>> \in R => <<p, r>> \in R
    <3>1. \A p, q, r \in S : Before(p, q) /\ Before(q, r) => Before(p, r)
      BY <1>2 DEF Before
    <3> HIDE DEF R
    <3>2. QED BY <1>1, <3>1
  <2>3. \A p, q \in S : p # q => <<p, q>> \in R \/ <<q, p>> \in R
    <3>1. ASSUME NEW p \in S, NEW q \in S, ~Before(p, q), ~Before(q, p)
          PROVE  p = q
      <4>1. p[1] = q[1] /\ p[2] = q[2]
        BY <1>2, <3>1 DEF Before
      <4>2. p = <<p[1], p[2]>> /\ q = <<q[1], q[2]>>
        BY <1>2
      <4>3. QED BY <4>1, <4>2
    <3> HIDE DEF R
    <3>2. QED BY <1>1, <3>1
  <2> HIDE DEF R
  <2>4. QED BY <2>1, <2>2, <2>3, EachHasAPlace
<1>4. \A p \in S : prior(p) = {q \in S : Before(q, p)}
  <2> HIDE DEF R
  <2>1. QED BY <1>1
<1>5. InTurn(S) = order
  <2>1. InTurn(S) = [k \in 1..N |-> CHOOSE p \in S : Cardinality({q \in S : Before(q, p)}) = k - 1]
    BY DEF InTurn, InOrder
  <2>2. ASSUME NEW k \in 1..N
        PROVE  (CHOOSE p \in S : Cardinality({q \in S : Before(q, p)}) = k - 1)
                 = CHOOSE p \in S : Cardinality(prior(p)) = k - 1
    <3> HIDE DEF prior
    <3> QED BY <1>4
  <2> HIDE DEF prior
  <2>3. QED BY <2>1, <2>2
<1>6. \A k \in 1..N : order[k] \in S /\ Cardinality(prior(order[k])) = k - 1
  <2> SUFFICES ASSUME NEW k \in 1..N
               PROVE  order[k] \in S /\ Cardinality(prior(order[k])) = k - 1
    OBVIOUS
  <2>1. order[k] = CHOOSE p \in S : Cardinality(prior(p)) = k - 1
    OBVIOUS
  <2> HIDE DEF order, prior
  <2>2. QED BY <2>1, <1>3
<1>7. order \in [1..N -> S]
  <2>1. \A k \in 1..N : (CHOOSE p \in S : Cardinality(prior(p)) = k - 1) \in S
    BY <1>6
  <2>2. QED BY <2>1
<1>8. ASSUME NEW p \in S
      PROVE  \E k \in 1..N : order[k] = p
  <2>1. PICK r \in 0..(N - 1) : Cardinality(prior(p)) = r
    BY <1>3
  <2>2. r + 1 \in 1..N /\ (r + 1) - 1 = r
    BY <1>3
  <2> HIDE DEF order, prior
  <2>3. QED BY <1>3, <1>6, <2>1, <2>2
<1>9. ASSUME S # {}
      PROVE  \E p \in S : \A q \in S : ~Before(q, p)
  <2>1. 1 \in 1..N
    <3>1. N # 0
      BY <1>9, FS_EmptySet
    <3>2. QED BY <3>1, <1>3
  <2>2. PICK p \in S : Cardinality(prior(p)) = 0
    <3> HIDE DEF prior
    <3> QED BY <1>3, <2>1
  <2>3. prior(p) \in SUBSET S
    OBVIOUS
  <2>4. prior(p) = {}
    <3> HIDE DEF prior
    <3>1. IsFiniteSet(prior(p))
      BY <2>3, FS_Subset
    <3>2. QED BY <3>1, <2>2, FS_EmptySet
  <2> HIDE DEF prior
  <2>5. QED BY <1>4, <2>4
<1>10. ASSUME NEW j \in 1..N, NEW k \in 1..N, order[j] = order[k]
       PROVE  j = k
  <2>1. j - 1 = k - 1
    <3> HIDE DEF order, prior
    <3> QED BY <1>6, <1>10
  <2>2. QED BY <1>3, <2>1
<1> HIDE DEF order
<1>11. QED BY <1>3, <1>5, <1>7, <1>8, <1>9, <1>10

Node(n, kind) == [node |-> n, kind |-> kind]

LEMMA PlacesOf ==
    ASSUME NEW b, IsBody(b), NEW n \in DOMAIN b, NEW kind
    PROVE  /\ Places(b, n, kind) \in SUBSET (Nat \X Nat)
           /\ IsFiniteSet(Places(b, n, kind))
           /\ \A i \in DOMAIN Edges(kind), j \in Nat :
                <<i, j>> \in Places(b, n, kind) <=>
                    j \in DOMAIN At(b, n, Edges(kind)[i].field) /\ j <= MaxItems
           /\ \A p \in Places(b, n, kind) : p[1] \in DOMAIN Edges(kind) /\ p[2] \in Nat
                                             /\ p = <<p[1], p[2]>>
<1> DEFINE field(i) == Edges(kind)[i].field
           items(i) == At(b, n, field(i))
<1>1. DOMAIN Edges(kind) \in SUBSET Nat /\ IsFiniteSet(DOMAIN Edges(kind)) /\ MaxItems \in Nat
  BY EdgesOf, ConstAssumption
<1>2. ASSUME NEW i \in DOMAIN Edges(kind)
      PROVE  /\ DOMAIN Read(items(i)) = {j \in DOMAIN items(i) : j <= MaxItems}
             /\ DOMAIN Read(items(i)) \in SUBSET (1..MaxItems)
             /\ DOMAIN items(i) \in SUBSET Nat
  <2>1. PICK s : s = items(i)
    OBVIOUS
  <2>2. s \in Seq(DOMAIN b)
    BY <2>1, AtIn
  <2>3. DOMAIN Read(s) = {j \in DOMAIN s : j <= MaxItems} /\ DOMAIN Read(s) \in SUBSET (1..MaxItems)
    BY <2>2, ReadOf
  <2>4. DOMAIN s \in SUBSET Nat
    BY <2>2
  <2> HIDE DEF items
  <2>5. QED BY <2>1, <2>3, <2>4
<1>3. Places(b, n, kind) = UNION {{<<i, j>> : j \in DOMAIN Read(items(i))} : i \in DOMAIN Edges(kind)}
  BY DEF Places
<1> HIDE DEF items
<1>4. \A p : p \in Places(b, n, kind) <=>
        \E i \in DOMAIN Edges(kind) : \E j \in DOMAIN Read(items(i)) : p = <<i, j>>
  BY <1>3
<1>5. Places(b, n, kind) \in SUBSET ((DOMAIN Edges(kind)) \X (1..MaxItems))
  <2>1. ASSUME NEW p \in Places(b, n, kind)
        PROVE  p \in (DOMAIN Edges(kind)) \X (1..MaxItems)
    <3>1. PICK i \in DOMAIN Edges(kind) : \E j \in DOMAIN Read(items(i)) : p = <<i, j>>
      BY <1>4, <2>1
    <3>2. PICK j \in DOMAIN Read(items(i)) : p = <<i, j>>
      BY <3>1
    <3>3. j \in 1..MaxItems
      BY <1>2, <3>2
    <3>4. QED BY <3>2, <3>3
  <2>2. QED BY <2>1
<1>6. IsFiniteSet((DOMAIN Edges(kind)) \X (1..MaxItems))
  <2>1. IsFiniteSet(1..MaxItems)
    BY <1>1, FS_Interval
  <2>2. QED BY <1>1, <2>1, FS_Product
<1>7. IsFiniteSet(Places(b, n, kind))
  BY <1>5, <1>6, FS_Subset
<1>8. \A p \in Places(b, n, kind) : p[1] \in DOMAIN Edges(kind) /\ p[2] \in Nat
                                     /\ p = <<p[1], p[2]>>
  BY <1>1, <1>5
<1>9. Places(b, n, kind) \in SUBSET (Nat \X Nat)
  BY <1>1, <1>8
<1>10. \A i \in DOMAIN Edges(kind), j \in Nat :
            <<i, j>> \in Places(b, n, kind) <=> j \in DOMAIN items(i) /\ j <= MaxItems
  <2> SUFFICES ASSUME NEW i \in DOMAIN Edges(kind), NEW j \in Nat
               PROVE  <<i, j>> \in Places(b, n, kind) <=> j \in DOMAIN items(i) /\ j <= MaxItems
    OBVIOUS
  <2>1. <<i, j>> \in Places(b, n, kind) <=> j \in DOMAIN Read(items(i))
    <3>1. \A i2, j2 : <<i, j>> = <<i2, j2>> => i = i2 /\ j = j2
      OBVIOUS
    <3>2. QED BY <1>4, <3>1
  <2>2. QED BY <1>2, <2>1
<1>11. QED BY <1>7, <1>8, <1>9, <1>10 DEF items

\* An edge leads to an object of a known kind, or of one its shape decides.
LEMMA EdgeKinds ==
    ASSUME NEW kind, NEW i \in DOMAIN Edges(kind)
    PROVE  Edges(kind)[i].kind \in NodeKinds \cup {"auto"}
<1>1. \A k \in DOMAIN EnvelopeEdges : EnvelopeEdges[k].kind \in NodeKinds \cup {"auto"}
  BY DEF EnvelopeEdges, NodeKinds
<1>2. \A k \in DOMAIN ContainerEdges : ContainerEdges[k].kind \in NodeKinds \cup {"auto"}
  BY DEF ContainerEdges, NodeKinds
<1>3. CASE kind = "envelope"
  BY <1>1, <1>3 DEF Edges
<1>4. CASE kind = "container"
  BY <1>2, <1>4 DEF Edges
<1>5. CASE kind \notin {"envelope", "container"}
  <2>1. Edges(kind) = <<>>
    BY <1>5 DEF Edges
  <2>2. DOMAIN Edges(kind) = {}
    BY <2>1
  <2>3. QED BY <2>2
<1>6. QED BY <1>3, <1>4, <1>5

ReachedAt(b, n, kind, f) ==
    CHOOSE i \in DOMAIN Edges(kind) : f.node \in ToSet(At(b, n, Edges(kind)[i].field))

\* What an entry leads to, by the place it is found at.
LEMMA BelowIs ==
    ASSUME NEW b, IsBody(b), NEW n \in DOMAIN b, NEW kind
    PROVE  /\ \A p \in Places(b, n, kind) :
                /\ Child(b, n, kind, p) \in DOMAIN b
                /\ Found(b, n, kind, p) \in Below(b, Node(n, kind))
                /\ Found(b, n, kind, p).node = Child(b, n, kind, p)
                /\ Found(b, n, kind, p) = Node(Found(b, n, kind, p).node, Found(b, n, kind, p).kind)
                /\ Found(b, n, kind, p).kind \in NodeKinds
           /\ \A f \in Below(b, Node(n, kind)) :
                /\ f.node \in DOMAIN b
                /\ ReachedAt(b, n, kind, f) \in DOMAIN Edges(kind)
                /\ f.node \in ToSet(At(b, n, Edges(kind)[ReachedAt(b, n, kind, f)].field))
<1> DEFINE field(i) == Edges(kind)[i].field
<1>1. Below(b, Node(n, kind)) =
        UNION {{[node |-> m, kind |-> Resolved(b, m, Edges(kind)[i].kind)] :
                    m \in ToSet(At(b, n, field(i)))} : i \in DOMAIN Edges(kind)}
  BY DEF Below, Node
<1>2. ASSUME NEW p \in Places(b, n, kind)
      PROVE  /\ Child(b, n, kind, p) \in DOMAIN b
             /\ Found(b, n, kind, p) \in Below(b, Node(n, kind))
             /\ Found(b, n, kind, p).node = Child(b, n, kind, p)
             /\ Found(b, n, kind, p) = Node(Found(b, n, kind, p).node, Found(b, n, kind, p).kind)
             /\ Found(b, n, kind, p).kind \in NodeKinds
  <2>1. PICK i \in DOMAIN Edges(kind) : i = p[1]
    BY PlacesOf
  <2>2. PICK j \in Nat : j = p[2] /\ p = <<i, j>>
    BY PlacesOf, <2>1
  <2>3. j \in DOMAIN At(b, n, field(i))
    BY PlacesOf, <2>1, <2>2
  <2>4. PICK m : m = At(b, n, field(i))[j]
    OBVIOUS
  <2>5. m \in DOMAIN b /\ m \in ToSet(At(b, n, field(i)))
    BY <2>3, <2>4, AtIn DEF ToSet
  <2>6. Child(b, n, kind, p) = m
    BY <2>1, <2>2, <2>4 DEF Child
  <2>7. Found(b, n, kind, p) = [node |-> m, kind |-> Resolved(b, m, Edges(kind)[i].kind)]
    BY <2>1, <2>6 DEF Found
  <2>8. Found(b, n, kind, p) \in Below(b, Node(n, kind))
    BY <1>1, <2>5, <2>7
  <2>9. PICK k : k = Resolved(b, m, Edges(kind)[i].kind)
    OBVIOUS
  <2>10. k \in NodeKinds
    BY <2>9, EdgeKinds DEF Resolved, NodeKinds
  <2>11. Found(b, n, kind, p) = Node(m, k)
    BY <2>7, <2>9 DEF Node
  <2>12. Node(m, k).node = m /\ Node(m, k).kind = k
    BY DEF Node
  <2>13. QED BY <2>5, <2>6, <2>8, <2>10, <2>11, <2>12
<1>3. ASSUME NEW f \in Below(b, Node(n, kind))
      PROVE  /\ f.node \in DOMAIN b
             /\ ReachedAt(b, n, kind, f) \in DOMAIN Edges(kind)
             /\ f.node \in ToSet(At(b, n, field(ReachedAt(b, n, kind, f))))
  <2>1. PICK i \in DOMAIN Edges(kind) : \E m \in ToSet(At(b, n, field(i))) :
            f = [node |-> m, kind |-> Resolved(b, m, Edges(kind)[i].kind)]
    BY <1>1
  <2>2. PICK m \in ToSet(At(b, n, field(i))) : f.node = m
    BY <2>1
  <2>3. PICK j \in DOMAIN At(b, n, field(i)) : m = At(b, n, field(i))[j]
    BY <2>2 DEF ToSet
  <2>4. m \in DOMAIN b
    BY <2>3, AtIn
  <2>5. \E e \in DOMAIN Edges(kind) : f.node \in ToSet(At(b, n, field(e)))
    BY <2>2
  <2>6. QED BY <2>2, <2>4, <2>5 DEF ReachedAt
<1>4. QED BY <1>2, <1>3

\* What is pushed for a node: objects found below it, and all of them unless
\* a list is too long to read.
LEMMA ChildrenOf ==
    ASSUME NEW name \in DOMAIN Bodies, NEW n \in DOMAIN Bodies[name], NEW kind \in NodeKinds
    PROVE  LET b == Bodies[name]
               children == Children[name][n][kind]
           IN  /\ \E m \in Nat : DOMAIN children = 1..m
               /\ \A k \in DOMAIN children :
                    /\ children[k] \in Below(b, Node(n, kind)) /\ children[k].node \in DOMAIN b
                    /\ children[k] = Node(children[k].node, children[k].kind)
                    /\ children[k].kind \in NodeKinds
               /\ \A j, k \in DOMAIN children : children[j].node = children[k].node => j = k
               /\ (\A i \in DOMAIN Edges(kind) : Len(At(b, n, Edges(kind)[i].field)) <= MaxItems)
                    => \A f \in Below(b, Node(n, kind)) :
                            \E k \in DOMAIN children : children[k].node = f.node
<1>1. PICK b : b = Bodies[name]
  OBVIOUS
<1>2. IsBody(b) /\ n \in DOMAIN b
  BY <1>1, BodiesAssumption
<1> DEFINE places == Places(b, n, kind)
           firsts == Firsts(b, n, kind)
           child(p) == Child(b, n, kind, p)
           at == InTurn(firsts)
           N == Cardinality(firsts)
<1>3. places \in SUBSET (Nat \X Nat) /\ IsFiniteSet(places)
  BY <1>2, PlacesOf
<1>4. firsts = {p \in places : \A q \in places : child(q) = child(p) => ~Before(q, p)}
  BY DEF Firsts
<1>5. firsts \in SUBSET places /\ firsts \in SUBSET (Nat \X Nat) /\ IsFiniteSet(firsts)
  <2>1. firsts \in SUBSET places
    BY <1>4
  <2> HIDE DEF firsts, places
  <2>2. QED BY <2>1, <1>3, FS_Subset
<1>6. /\ N \in Nat /\ at \in [1..N -> firsts]
      /\ \A j, k \in 1..N : at[j] = at[k] => j = k
      /\ \A p \in firsts : \E k \in 1..N : at[k] = p
  <2> HIDE DEF firsts
  <2>1. QED BY <1>5, InTurnOf
<1>7. PICK children : children = Children[name][n][kind]
  OBVIOUS
<1>8. children = [k \in 1..N |-> Found(b, n, kind, at[k])]
  <2>1. children = [k \in DOMAIN at |-> Found(b, n, kind, at[k])]
    BY <1>1, <1>7 DEF Children
  <2>2. DOMAIN at = 1..N
    <3> HIDE DEF at, N
    <3> QED BY <1>6
  <2> HIDE DEF at, N
  <2>3. QED BY <2>1, <2>2
<1>9. \A k \in 1..N : at[k] \in places
  <2> HIDE DEF at, N, firsts, places
  <2>1. QED BY <1>5, <1>6
<1> HIDE DEF places, firsts, at, N
<1>10. \A k \in DOMAIN children :
            /\ children[k] \in Below(b, Node(n, kind)) /\ children[k].node \in DOMAIN b
            /\ children[k] = Node(children[k].node, children[k].kind)
            /\ children[k].kind \in NodeKinds
  <2>1. \A p \in places :
            /\ Found(b, n, kind, p) \in Below(b, Node(n, kind))
            /\ Found(b, n, kind, p).node \in DOMAIN b
            /\ Found(b, n, kind, p) = Node(Found(b, n, kind, p).node, Found(b, n, kind, p).kind)
            /\ Found(b, n, kind, p).kind \in NodeKinds
    BY <1>2, BelowIs DEF places
  <2>2. QED BY <1>8, <1>9, <2>1
<1>11. ASSUME \A i \in DOMAIN Edges(kind) : Len(At(b, n, Edges(kind)[i].field)) <= MaxItems,
              NEW f \in Below(b, Node(n, kind))
       PROVE  \E k \in DOMAIN children : children[k].node = f.node
  <2>1. PICK i \in DOMAIN Edges(kind) : f.node \in ToSet(At(b, n, Edges(kind)[i].field))
    <3>1. /\ ReachedAt(b, n, kind, f) \in DOMAIN Edges(kind)
          /\ f.node \in ToSet(At(b, n, Edges(kind)[ReachedAt(b, n, kind, f)].field))
      BY <1>2, <1>11, BelowIs
    <3>2. QED BY <3>1
  <2>2. PICK items : items = At(b, n, Edges(kind)[i].field)
    OBVIOUS
  <2>3. PICK j \in DOMAIN items : f.node = items[j]
    BY <2>1, <2>2 DEF ToSet
  <2>4. items \in Seq(DOMAIN b) /\ Len(items) <= MaxItems /\ MaxItems \in Nat
    BY <1>2, <1>11, <2>2, AtIn, ConstAssumption
  <2>5. j \in Nat /\ j <= MaxItems
    BY <2>4
  <2>6. <<i, j>> \in places
    BY <1>2, <2>2, <2>5, PlacesOf DEF places
  <2>7. child(<<i, j>>) = f.node
    BY <2>2, <2>3 DEF Child
  <2> DEFINE same == {p \in places : child(p) = f.node}
  <2>8. same \in SUBSET places /\ same # {}
    BY <2>6, <2>7
  <2>9. PICK p \in same : \A q \in same : ~Before(q, p)
    <3> HIDE DEF same
    <3>1. IsFiniteSet(same) /\ same \in SUBSET (Nat \X Nat)
      BY <1>3, <2>8, FS_Subset
    <3>2. QED BY <3>1, <2>8, InTurnOf
  <2>10. p \in firsts
    BY <1>4, <2>9
  <2>11. PICK k \in 1..N : at[k] = p
    BY <1>6, <2>10
  <2>12. children[k].node = child(p)
    <3>1. Found(b, n, kind, p).node = child(p)
      BY <1>2, <2>9, BelowIs DEF places
    <3>2. QED BY <1>8, <2>11, <3>1
  <2>13. k \in DOMAIN children /\ child(p) = f.node
    BY <1>8, <2>9
  <2>14. QED BY <2>12, <2>13
<1>12. \E m \in Nat : DOMAIN children = 1..m
  BY <1>6, <1>8
<1>13. ASSUME NEW j \in DOMAIN children, NEW k \in DOMAIN children,
              children[j].node = children[k].node
       PROVE  j = k
  <2>1. /\ j \in 1..N /\ k \in 1..N
        /\ children[j] = Found(b, n, kind, at[j]) /\ children[k] = Found(b, n, kind, at[k])
    BY <1>8
  <2>2. PICK p \in firsts : p = at[j]
    BY <1>6, <2>1
  <2>3. PICK q \in firsts : q = at[k]
    BY <1>6, <2>1
  <2>4. p \in places /\ q \in places
    BY <1>5
  <2>5. child(p) = child(q)
    <3>1. Found(b, n, kind, p).node = child(p) /\ Found(b, n, kind, q).node = child(q)
      BY <1>2, <2>4, BelowIs DEF places
    <3>2. QED BY <1>13, <2>1, <2>2, <2>3, <3>1
  <2>6. ~Before(p, q) /\ ~Before(q, p)
    BY <1>4, <2>4, <2>5
  <2>7. p = q
    <3>1. /\ p[1] \in Nat /\ p[2] \in Nat /\ p = <<p[1], p[2]>>
          /\ q[1] \in Nat /\ q[2] \in Nat /\ q = <<q[1], q[2]>>
      BY <1>3, <2>4
    <3>2. p[1] = q[1] /\ p[2] = q[2]
      BY <2>6, <3>1 DEF Before
    <3>3. QED BY <3>1, <3>2
  <2>8. QED BY <1>6, <2>1, <2>2, <2>3, <2>7
<1>14. QED BY <1>1, <1>7, <1>10, <1>11, <1>12, <1>13

-----------------------------------------------------------------------------
(* One kind for each object of a body.                                     *)

KindsOf(name) ==
    CHOOSE kindOf \in [DOMAIN Bodies[name] -> NodeKinds] :
        /\ kindOf[1] = RootKind(Bodies[name])
        /\ \A n \in DOMAIN Bodies[name] : \A f \in Below(Bodies[name], Node(n, kindOf[n])) :
                f.kind = kindOf[f.node]
Raw(name) == [node : DOMAIN Bodies[name], kind : NodeKinds, depth : Nat]
Entries(name) == {e \in Raw(name) : e.kind = KindsOf(name)[e.node]}

LEMMA KindsOfIs ==
    ASSUME OneKind, NEW name \in DOMAIN Bodies
    PROVE  /\ KindsOf(name) \in [DOMAIN Bodies[name] -> NodeKinds]
           /\ KindsOf(name)[1] = RootKind(Bodies[name])
           /\ \A n \in DOMAIN Bodies[name] :
                \A f \in Below(Bodies[name], Node(n, KindsOf(name)[n])) :
                    f.kind = KindsOf(name)[f.node]
<1>1. \E kindOf \in [DOMAIN Bodies[name] -> NodeKinds] :
            /\ kindOf[1] = RootKind(Bodies[name])
            /\ \A n \in DOMAIN Bodies[name] : \A f \in Below(Bodies[name], Node(n, kindOf[n])) :
                    f.kind = kindOf[f.node]
  BY DEF OneKind, Node
<1>2. QED BY <1>1 DEF KindsOf

LEMMA BelowEntry ==
    ASSUME NEW b, NEW e
    PROVE  Below(b, e) = Below(b, Node(e.node, e.kind))
<1>1. Node(e.node, e.kind).node = e.node /\ Node(e.node, e.kind).kind = e.kind
  BY DEF Node
<1>2. QED BY <1>1 DEF Below

\* Nothing is below a node that has no more.
LEMMA NoMore ==
    ASSUME NEW b, IsBody(b), NEW n \in DOMAIN b, NEW kind, ~HasMore(b, n, kind)
    PROVE  Below(b, Node(n, kind)) = {}
<1> SUFFICES ASSUME NEW f \in Below(b, Node(n, kind))
             PROVE  FALSE
  OBVIOUS
<1>1. PICK i \in DOMAIN Edges(kind) : f.node \in ToSet(At(b, n, Edges(kind)[i].field))
  <2>1. /\ ReachedAt(b, n, kind, f) \in DOMAIN Edges(kind)
        /\ f.node \in ToSet(At(b, n, Edges(kind)[ReachedAt(b, n, kind, f)].field))
    BY BelowIs
  <2>2. QED BY <2>1
<1>2. PICK field : field = Edges(kind)[i].field
  OBVIOUS
<1>3. At(b, n, field) # <<>>
  <2>1. PICK items : items = At(b, n, field)
    OBVIOUS
  <2>2. f.node \in ToSet(items)
    BY <1>1, <1>2, <2>1
  <2>3. items # <<>>
    BY <2>2 DEF ToSet
  <2>4. QED BY <2>1, <2>3
<1>4. /\ field \in DOMAIN b[n].fields
      /\ b[n].fields[field].list = (field \in Lists)
      /\ b[n].fields[field].items # <<>>
  BY <1>3 DEF At
<1>5. b[n].fields[field].list => field \in Lists
  BY <1>4
<1>6. HasMore(b, n, kind)
  BY <1>2, <1>4, <1>5 DEF HasMore
<1>7. QED BY <1>6

\* What is pushed for an entry: objects below it that were not seen, each
\* once, and all of them unless a list is too long to read.
LEMMA UnseenIs ==
    ASSUME NEW w, w.name \in DOMAIN Bodies, NEW e \in Raw(w.name)
    PROVE  /\ Unseen(w, e) \in Seq(Raw(w.name))
           /\ \A k \in DOMAIN Unseen(w, e) :
                /\ Unseen(w, e)[k].node \notin w.seen
                /\ Node(Unseen(w, e)[k].node, Unseen(w, e)[k].kind)
                        \in Below(Bodies[w.name], Node(e.node, e.kind))
           /\ \A j, k \in DOMAIN Unseen(w, e) :
                Unseen(w, e)[j].node = Unseen(w, e)[k].node => j = k
           /\ ~LongList(Bodies[w.name], e)
                => \A f \in Below(Bodies[w.name], e) :
                        f.node \in w.seen
                            \/ \E k \in DOMAIN Unseen(w, e) : Unseen(w, e)[k].node = f.node
<1>1. PICK name \in DOMAIN Bodies : name = w.name
  OBVIOUS
<1>2. PICK b : b = Bodies[name]
  OBVIOUS
<1>3. PICK n \in DOMAIN b : n = e.node
  BY <1>1, <1>2 DEF Raw
<1>4. PICK kind \in NodeKinds : kind = e.kind
  BY <1>1 DEF Raw
<1>5. e.depth \in Nat
  BY <1>1 DEF Raw
<1>6. PICK children : children = Children[name][n][kind]
  OBVIOUS
<1>7. IsBody(b)
  BY <1>2, BodiesAssumption
<1>8. /\ \E m \in Nat : DOMAIN children = 1..m
      /\ \A k \in DOMAIN children :
            /\ children[k] \in Below(b, Node(n, kind)) /\ children[k].node \in DOMAIN b
            /\ children[k] = Node(children[k].node, children[k].kind)
            /\ children[k].kind \in NodeKinds
      /\ \A j, k \in DOMAIN children : children[j].node = children[k].node => j = k
      /\ (\A i \in DOMAIN Edges(kind) : Len(At(b, n, Edges(kind)[i].field)) <= MaxItems)
            => \A f \in Below(b, Node(n, kind)) :
                    \E k \in DOMAIN children : children[k].node = f.node
  BY <1>2, <1>6, ChildrenOf
<1> DEFINE at == {k \in DOMAIN children : children[k].node \notin w.seen}
           N == Cardinality(at)
           order == Ascending(at)
           entry(k) == Entry(children[k].node, children[k].kind, e.depth + 1)
<1>9. at \in SUBSET Nat /\ IsFiniteSet(at) /\ at \in SUBSET DOMAIN children
  <2>1. PICK m \in Nat : DOMAIN children = 1..m
    BY <1>8
  <2>2. IsFiniteSet(1..m)
    BY FS_Interval
  <2>3. at \in SUBSET (1..m)
    BY <2>1
  <2> HIDE DEF at
  <2>4. IsFiniteSet(at)
    BY <2>2, <2>3, FS_Subset
  <2>5. at \in SUBSET Nat
    BY <2>3
  <2>6. QED BY <2>1, <2>3, <2>4, <2>5
<1>10. /\ N \in Nat /\ order \in [1..N -> at]
       /\ \A j, k \in 1..N : order[j] = order[k] => j = k
       /\ \A i \in at : \E k \in 1..N : order[k] = i
  <2> HIDE DEF at
  <2>1. QED BY <1>9, AscendingOf
<1>11. PICK u : u = Unseen(w, e)
  OBVIOUS
<1>12. u = [k \in 1..N |-> entry(order[k])]
  <2>1. PICK fresh : fresh = Picked(children, at)
    OBVIOUS
  <2>2. fresh = [k \in 1..N |-> children[order[k]]]
    BY <2>1 DEF Picked
  <2>3. Unseen(w, e) = [k \in DOMAIN fresh |-> Entry(fresh[k].node, fresh[k].kind, e.depth + 1)]
    BY <1>1, <1>3, <1>4, <1>6, <2>1 DEF Unseen
  <2> HIDE DEF at, N, order
  <2>4. DOMAIN fresh = 1..N /\ \A k \in 1..N : fresh[k] = children[order[k]]
    BY <2>2
  <2>5. QED BY <1>11, <2>3, <2>4
<1>13. ASSUME NEW k \in DOMAIN children
       PROVE  entry(k) \in Raw(name)
  <2>1. children[k].node \in DOMAIN b /\ children[k].kind \in NodeKinds /\ e.depth + 1 \in Nat
    BY <1>5, <1>8
  <2>2. QED BY <1>2, <2>1 DEF Raw, Entry
<1>14. u \in Seq(Raw(name))
  <2> HIDE DEF at, N, order, entry
  <2>1. \A k \in 1..N : entry(order[k]) \in Raw(name)
    BY <1>9, <1>10, <1>13
  <2>2. QED BY <1>10, <1>12, <2>1
<1>15. ASSUME ~LongList(b, e), NEW f \in Below(b, e), f.node \notin w.seen
       PROVE  \E k \in DOMAIN u : u[k].node = f.node
  <2>1. f \in Below(b, Node(n, kind))
    BY <1>3, <1>4, <1>15, BelowEntry
  <2>2. ASSUME NEW i \in DOMAIN Edges(kind)
        PROVE  Len(At(b, n, Edges(kind)[i].field)) <= MaxItems
    <3>1. ~(Len(At(b, n, Edges(kind)[i].field)) > MaxItems)
      BY <1>3, <1>4, <1>15 DEF LongList
    <3>2. PICK items : items = At(b, n, Edges(kind)[i].field)
      OBVIOUS
    <3>3. items \in Seq(DOMAIN b) /\ MaxItems \in Nat
      BY <1>7, <3>2, AtIn, ConstAssumption
    <3>4. QED BY <3>1, <3>2, <3>3
  <2>3. PICK i \in DOMAIN children : children[i].node = f.node
    BY <1>8, <2>1, <2>2
  <2>4. i \in at
    BY <1>15, <2>3
  <2> HIDE DEF at, N, order
  <2>5. PICK k \in 1..N : order[k] = i
    BY <1>10, <2>4
  <2>6. u[k].node = children[i].node
    BY <1>12, <2>5 DEF Entry
  <2>7. k \in DOMAIN u
    BY <1>12
  <2>8. QED BY <2>3, <2>6, <2>7
<1>16. \A k \in 1..N : /\ order[k] \in DOMAIN children /\ children[order[k]].node \notin w.seen
                        /\ u[k].node = children[order[k]].node
                        /\ u[k].kind = children[order[k]].kind
  <2>1. \A k \in 1..N : order[k] \in DOMAIN children /\ children[order[k]].node \notin w.seen
    <3>1. \A k \in 1..N : order[k] \in at
      <4> HIDE DEF at
      <4> QED BY <1>10
    <3>2. \A i \in at : i \in DOMAIN children /\ children[i].node \notin w.seen
      OBVIOUS
    <3> HIDE DEF at, N, order
    <3>3. QED BY <3>1, <3>2
  <2>2. \A k \in 1..N : u[k] = entry(order[k])
    <3> HIDE DEF at, N, order, entry
    <3> QED BY <1>12
  <2>3. \A i : entry(i).node = children[i].node /\ entry(i).kind = children[i].kind
    BY DEF Entry
  <2> HIDE DEF at, N, order, entry
  <2>4. QED BY <2>1, <2>2, <2>3
<1> HIDE DEF at, N, order, entry
<1>17. DOMAIN u = 1..N
  BY <1>12
<1>18. ASSUME NEW k \in DOMAIN u
       PROVE  u[k].node \notin w.seen /\ Node(u[k].node, u[k].kind) \in Below(b, Node(n, kind))
  <2>1. PICK i \in DOMAIN children : i = order[k]
    BY <1>16, <1>17, <1>18
  <2>2. Node(children[i].node, children[i].kind) \in Below(b, Node(n, kind))
    BY <1>8, <2>1
  <2>3. QED BY <1>16, <1>17, <1>18, <2>1, <2>2
<1>19. ASSUME NEW j \in DOMAIN u, NEW k \in DOMAIN u, u[j].node = u[k].node
       PROVE  j = k
  <2>1. children[order[j]].node = children[order[k]].node
    BY <1>16, <1>17, <1>19
  <2>2. order[j] \in DOMAIN children /\ order[k] \in DOMAIN children
    BY <1>16, <1>17, <1>19
  <2>3. order[j] = order[k]
    BY <1>8, <2>1, <2>2
  <2>4. QED BY <1>10, <1>17, <1>19, <2>3
<1>20. QED BY <1>1, <1>2, <1>3, <1>4, <1>11, <1>14, <1>15, <1>18, <1>19

\* Where an object has one kind, it is pushed with it.
LEMMA UnseenOf ==
    ASSUME OneKind, NEW w, w.name \in DOMAIN Bodies, NEW e \in Entries(w.name)
    PROVE  /\ Unseen(w, e) \in Seq(Entries(w.name))
           /\ ~LongList(Bodies[w.name], e)
                => \A f \in Below(Bodies[w.name], e) :
                        f.node \in w.seen
                            \/ \E k \in DOMAIN Unseen(w, e) : Unseen(w, e)[k].node = f.node
<1>1. PICK name \in DOMAIN Bodies : name = w.name
  OBVIOUS
<1>2. PICK b : b = Bodies[name]
  OBVIOUS
<1>3. PICK u : u = Unseen(w, e)
  OBVIOUS
<1>4. e \in Raw(name) /\ e.node \in DOMAIN b /\ e.kind = KindsOf(name)[e.node]
  BY <1>1, <1>2 DEF Entries, Raw
<1>5. /\ u \in Seq(Raw(name))
      /\ \A k \in DOMAIN u : Node(u[k].node, u[k].kind) \in Below(b, Node(e.node, e.kind))
      /\ ~LongList(b, e) => \A f \in Below(b, e) :
                f.node \in w.seen \/ \E k \in DOMAIN u : u[k].node = f.node
  BY <1>1, <1>2, <1>3, <1>4, UnseenIs
<1>6. ASSUME NEW k \in DOMAIN u
      PROVE  u[k] \in Entries(name)
  <2>1. u[k] \in Raw(name)
    BY <1>5
  <2>2. PICK f : f = Node(u[k].node, u[k].kind)
    OBVIOUS
  <2>3. f.node = u[k].node /\ f.kind = u[k].kind
    BY <2>2 DEF Node
  <2>4. f.kind = KindsOf(name)[f.node]
    BY <1>2, <1>4, <1>5, <2>2, KindsOfIs
  <2>5. QED BY <2>1, <2>3, <2>4 DEF Entries
<1>7. u \in Seq(Entries(name))
  BY <1>5, <1>6
<1>8. QED BY <1>1, <1>2, <1>3, <1>5, <1>7

-----------------------------------------------------------------------------
(* The walk.                                                               *)

\* An object that was found is on the list or still on the stack, unless a
\* list was cut short; what is below the listed ones was found, unless a
\* bound was reported.
Covered(w) ==
    "breadth" \notin w.bounds =>
        \A n \in w.seen : \/ \E i \in DOMAIN w.nodes : w.nodes[i].node = n
                          \/ \E i \in DOMAIN w.stack : w.stack[i].node = n
Followed(w) ==
    w.bounds = {} => \A i \in DOMAIN w.nodes : \A f \in Below(Body(w), w.nodes[i]) :
                        f.node \in w.seen
Walked(w) ==
    /\ DOMAIN w = DOMAIN Idle
    /\ w.name \in DOMAIN Bodies
    /\ w.nodes \in Seq(Entries(w.name)) /\ w.stack \in Seq(Entries(w.name))
    /\ w.bounds \in SUBSET {"depth", "breadth"}
    /\ 1 \in w.seen
    /\ Covered(w) /\ Followed(w)

WalkInv ==
    /\ walk.phase \in {"idle", "walk", "judged"}
    /\ walk.phase # "idle" => Walked(walk)
    /\ walk.phase = "judged" =>
            walk.stack = <<>> /\ Findings(Body(walk), walk.nodes, walk.bounds) \subseteq walk.signals

LEMMA LastAndFront ==
    ASSUME NEW S, NEW s \in Seq(S), s # <<>>
    PROVE  /\ Last(s) \in S /\ Front(s) \in Seq(S)
           /\ Len(s) \in Nat \ {0} /\ DOMAIN s = 1..Len(s) /\ Last(s) = s[Len(s)]
           /\ DOMAIN Front(s) = 1..(Len(s) - 1)
           /\ \A i \in 1..(Len(s) - 1) : Front(s)[i] = s[i]
<1>1. Len(s) \in Nat \ {0} /\ DOMAIN s = 1..Len(s)
  OBVIOUS
<1>2. Last(s) = s[Len(s)]
  BY DEF Last
<1>3. Front(s) = SubSeq(s, 1, Len(s) - 1)
  BY DEF Front
<1>4. Front(s) = [i \in 1..(Len(s) - 1) |-> s[i]]
  BY <1>1, <1>3
<1>5. Front(s) \in Seq(S)
  BY <1>1, <1>3
<1>6. Last(s) \in S
  BY <1>1, <1>2
<1>7. QED BY <1>1, <1>2, <1>4, <1>5, <1>6

LEMMA StartedWalks ==
    ASSUME OneKind, NEW name \in DOMAIN Bodies
    PROVE  Walked(Started(name)) /\ Started(name).phase = "walk"
<1>1. PICK w : w = Started(name)
  OBVIOUS
<1>2. PICK b : b = Bodies[name]
  OBVIOUS
<1>3. PICK root : root = Entry(1, RootKind(b), 0)
  OBVIOUS
<1>4. /\ DOMAIN w = DOMAIN Idle /\ w.phase = "walk" /\ w.name = name
      /\ w.seen = {1} /\ w.stack = <<root>> /\ w.nodes = <<>> /\ w.bounds = {}
  BY <1>1, <1>2, <1>3 DEF Started, Idle
<1>5. 1 \in DOMAIN b
  BY <1>2, BodiesAssumption DEF IsBody
<1>6. root \in Entries(name)
  <2>1. KindsOf(name)[1] = RootKind(b) /\ KindsOf(name) \in [DOMAIN b -> NodeKinds]
    BY <1>2, KindsOfIs
  <2>2. RootKind(b) \in NodeKinds
    BY <1>5, <2>1
  <2>3. root = [node |-> 1, kind |-> RootKind(b), depth |-> 0]
    BY <1>3 DEF Entry
  <2>4. QED BY <1>2, <1>5, <2>1, <2>2, <2>3 DEF Entries, Raw
<1>7. w.stack \in Seq(Entries(name)) /\ w.nodes \in Seq(Entries(name))
  BY <1>4, <1>6
<1>8. Covered(w)
  <2>1. w.stack[1].node = 1
    BY <1>3, <1>4 DEF Entry
  <2>2. 1 \in DOMAIN w.stack
    BY <1>4
  <2>3. QED BY <1>4, <2>1, <2>2 DEF Covered
<1>9. Followed(w)
  BY <1>4 DEF Followed
<1>10. QED BY <1>1, <1>4, <1>7, <1>8, <1>9 DEF Walked

\* A turn of the loop: what it does to each field.
LEMMA DescendKeeps ==
    ASSUME OneKind, NEW w, Walked(w), w.stack # <<>>
    PROVE  LET new == Descend(w, Last(w.stack)) IN Walked(new) /\ new.phase = w.phase
<1>1. PICK name \in DOMAIN Bodies : name = w.name
  BY DEF Walked
<1>2. PICK b : b = Bodies[name]
  OBVIOUS
<1>3. /\ DOMAIN w = DOMAIN Idle
      /\ w.nodes \in Seq(Entries(name)) /\ w.stack \in Seq(Entries(name))
      /\ w.bounds \in SUBSET {"depth", "breadth"} /\ 1 \in w.seen /\ Covered(w) /\ Followed(w)
  BY <1>1 DEF Walked
<1>4. PICK e \in Entries(name) : e = Last(w.stack)
  BY <1>3, LastAndFront
<1>5. PICK rest : rest = Front(w.stack)
  OBVIOUS
<1>6. PICK L \in Nat \ {0} : L = Len(w.stack)
  BY <1>3, LastAndFront
<1>7. /\ rest \in Seq(Entries(name)) /\ DOMAIN w.stack = 1..L /\ e = w.stack[L]
      /\ DOMAIN rest = 1..(L - 1) /\ \A i \in 1..(L - 1) : rest[i] = w.stack[i]
  BY <1>3, <1>4, <1>5, <1>6, LastAndFront
<1>8. PICK nodes : nodes = Append(w.nodes, e)
  OBVIOUS
<1>9. PICK M \in Nat : M = Len(w.nodes)
  BY <1>3
<1>10. /\ nodes \in Seq(Entries(name)) /\ DOMAIN w.nodes = 1..M /\ DOMAIN nodes = 1..(M + 1)
       /\ nodes[M + 1] = e /\ \A i \in 1..M : nodes[i] = w.nodes[i]
  BY <1>3, <1>8, <1>9
<1>11. PICK new : new = Descend(w, e)
  OBVIOUS
<1>12. DOMAIN Idle = {"phase", "name", "stack", "seen", "nodes", "bounds", "signals", "action"}
  BY DEF Idle
<1>13. e.node \in DOMAIN b /\ e.kind \in NodeKinds /\ IsBody(b)
  BY <1>2, BodiesAssumption DEF Entries, Raw
\* What was on the list or the stack still is.
<1>14. ASSUME NEW n, (\E i \in DOMAIN w.nodes : w.nodes[i].node = n)
                       \/ (\E i \in DOMAIN w.stack : w.stack[i].node = n)
       PROVE  (\E i \in DOMAIN nodes : nodes[i].node = n) \/ (\E i \in DOMAIN rest : rest[i].node = n)
  <2>1. CASE \E i \in DOMAIN w.nodes : w.nodes[i].node = n
    <3>1. PICK i \in 1..M : w.nodes[i].node = n
      BY <1>10, <2>1
    <3>2. i \in DOMAIN nodes /\ nodes[i].node = n
      BY <1>10, <3>1
    <3>3. QED BY <3>2
  <2>2. CASE \E i \in DOMAIN w.stack : w.stack[i].node = n
    <3>1. PICK i \in 1..L : w.stack[i].node = n
      BY <1>7, <2>2
    <3>2. CASE i = L
      <4>1. M + 1 \in DOMAIN nodes /\ nodes[M + 1].node = n
        BY <1>7, <1>10, <3>1, <3>2
      <4>2. QED BY <4>1
    <3>3. CASE i # L
      <4>1. i \in DOMAIN rest /\ rest[i].node = n
        BY <1>7, <3>1, <3>3
      <4>2. QED BY <4>1
    <3>4. QED BY <3>2, <3>3
  <2>3. QED BY <1>14, <2>1, <2>2
<1>15. CASE e.depth >= MaxDepth
  <2>1. PICK extra : extra = IF HasMore(b, e.node, e.kind) THEN {"depth"} ELSE {}
    OBVIOUS
  <2>2. new = [[w EXCEPT !.nodes = nodes, !.stack = rest]
                    EXCEPT !.bounds = @ \cup extra]
    BY <1>1, <1>2, <1>4, <1>5, <1>8, <1>11, <1>15, <2>1 DEF Descend, Body
  <2>3. /\ DOMAIN new = DOMAIN Idle /\ new.phase = w.phase /\ new.name = name
        /\ new.nodes = nodes /\ new.stack = rest /\ new.seen = w.seen
        /\ new.bounds = w.bounds \cup extra
    BY <1>1, <1>3, <1>12, <2>2
  <2>4. new.bounds \in SUBSET {"depth", "breadth"}
    BY <1>3, <2>1, <2>3
  <2>5. Covered(new)
    <3>1. ASSUME "breadth" \notin new.bounds, NEW n \in new.seen
          PROVE  (\E i \in DOMAIN nodes : nodes[i].node = n) \/ (\E i \in DOMAIN rest : rest[i].node = n)
      <4>1. "breadth" \notin w.bounds /\ n \in w.seen
        BY <2>3, <3>1
      <4>2. QED BY <1>3, <1>14, <4>1 DEF Covered
    <3>2. QED BY <2>3, <3>1 DEF Covered
  <2>6. Followed(new)
    <3>1. ASSUME new.bounds = {}, NEW i \in 1..(M + 1), NEW f \in Below(b, nodes[i])
          PROVE  f.node \in w.seen
      <4>1. w.bounds = {} /\ ~HasMore(b, e.node, e.kind)
        BY <2>1, <2>3, <3>1
      <4>2. CASE i \in 1..M
        BY <1>1, <1>2, <1>3, <1>10, <3>1, <4>1, <4>2 DEF Followed, Body
      <4>3. CASE i = M + 1
        <5>1. Below(b, e) = {}
          BY <1>13, <4>1, BelowEntry, NoMore
        <5>2. QED BY <1>10, <3>1, <4>3, <5>1
      <4>4. QED BY <1>9, <4>2, <4>3
    <3>2. QED BY <1>2, <1>10, <2>3, <3>1 DEF Followed, Body
  <2>7. QED BY <1>1, <1>3, <1>4, <1>7, <1>10, <1>11, <2>3, <2>4, <2>5, <2>6 DEF Walked
<1>16. CASE ~(e.depth >= MaxDepth)
  <2>1. PICK extra : extra = IF LongList(b, e) THEN {"breadth"} ELSE {}
    OBVIOUS
  <2>2. PICK fresh : fresh = Unseen(w, e)
    OBVIOUS
  <2>3. /\ fresh \in Seq(Entries(name))
        /\ ~LongList(b, e) => \A f \in Below(b, e) :
                f.node \in w.seen \/ \E k \in DOMAIN fresh : fresh[k].node = f.node
    BY <1>1, <1>2, <2>2, UnseenOf
  <2>4. PICK stack : stack = rest \o fresh
    OBVIOUS
  <2>5. PICK seen : seen = w.seen \cup {fresh[i].node : i \in DOMAIN fresh}
    OBVIOUS
  <2>6. new = [[w EXCEPT !.nodes = nodes, !.stack = rest]
                    EXCEPT !.bounds = @ \cup extra, !.seen = @ \cup {fresh[i].node : i \in DOMAIN fresh},
                           !.stack = @ \o fresh]
    BY <1>1, <1>2, <1>4, <1>5, <1>8, <1>11, <1>16, <2>1, <2>2 DEF Descend, Body
  <2>7. /\ DOMAIN new = DOMAIN Idle /\ new.phase = w.phase /\ new.name = name
        /\ new.nodes = nodes /\ new.stack = stack /\ new.seen = seen
        /\ new.bounds = w.bounds \cup extra
    BY <1>1, <1>3, <1>12, <2>4, <2>5, <2>6
  <2>8. PICK F \in Nat : F = Len(fresh)
    BY <2>3
  <2>9. /\ stack \in Seq(Entries(name)) /\ DOMAIN fresh = 1..F
        /\ DOMAIN stack = 1..((L - 1) + F)
        /\ \A i \in 1..(L - 1) : stack[i] = rest[i]
        /\ \A k \in 1..F : stack[(L - 1) + k] = fresh[k]
    <3>1. Len(rest) = L - 1 /\ L - 1 \in Nat
      BY <1>7
    <3>0. rest \in Seq(Entries(name)) /\ fresh \in Seq(Entries(name))
      BY <1>7, <2>3
    <3>2. stack \in Seq(Entries(name)) /\ Len(stack) = (L - 1) + F
            /\ \A i \in 1..Len(stack) :
                    stack[i] = IF i <= Len(rest) THEN rest[i] ELSE fresh[i - Len(rest)]
      <4>1. /\ rest \o fresh \in Seq(Entries(name))
            /\ Len(rest \o fresh) = Len(rest) + Len(fresh)
            /\ \A i \in 1..(Len(rest) + Len(fresh)) :
                    (rest \o fresh)[i] = IF i <= Len(rest) THEN rest[i] ELSE fresh[i - Len(rest)]
        BY <3>0, ConcatProperties
      <4>2. QED BY <4>1, <2>4, <2>8, <3>1
    <3>3. DOMAIN fresh = 1..F
      BY <2>3, <2>8
    <3>4. DOMAIN stack = 1..((L - 1) + F)
      BY <3>2
    <3>5. \A i \in 1..(L - 1) : stack[i] = rest[i]
      BY <2>8, <3>1, <3>2
    <3>6. \A k \in 1..F : stack[(L - 1) + k] = fresh[k]
      <4> SUFFICES ASSUME NEW k \in 1..F
                   PROVE  stack[(L - 1) + k] = fresh[k]
        OBVIOUS
      <4>1. /\ (L - 1) + k \in 1..Len(stack) /\ ~((L - 1) + k <= Len(rest))
            /\ ((L - 1) + k) - Len(rest) = k
        BY <2>8, <3>1, <3>2
      <4>2. QED BY <3>2, <4>1
    <3>7. QED BY <3>2, <3>3, <3>4, <3>5, <3>6
  <2>10. new.bounds \in SUBSET {"depth", "breadth"}
    BY <1>3, <2>1, <2>7
  <2>11. Covered(new)
    <3>1. ASSUME "breadth" \notin new.bounds, NEW n \in seen
          PROVE  (\E i \in DOMAIN nodes : nodes[i].node = n) \/ (\E i \in DOMAIN stack : stack[i].node = n)
      <4>1. CASE n \in w.seen
        <5>1. "breadth" \notin w.bounds
          BY <2>7, <3>1
        <5>2. (\E i \in DOMAIN nodes : nodes[i].node = n) \/ (\E i \in DOMAIN rest : rest[i].node = n)
          BY <1>3, <1>14, <4>1, <5>1 DEF Covered
        <5>3. ASSUME NEW i \in DOMAIN rest, rest[i].node = n
              PROVE  \E j \in DOMAIN stack : stack[j].node = n
          <6>1. i \in DOMAIN stack /\ stack[i].node = n
            BY <1>7, <2>8, <2>9, <5>3
          <6>2. QED BY <6>1
        <5>4. QED BY <5>2, <5>3
      <4>2. CASE n \notin w.seen
        <5>1. PICK k \in 1..F : fresh[k].node = n
          BY <2>5, <2>9, <3>1, <4>2
        <5>2. (L - 1) + k \in DOMAIN stack /\ stack[(L - 1) + k].node = n
          BY <2>9, <5>1
        <5>3. QED BY <5>2
      <4>3. QED BY <4>1, <4>2
    <3>2. QED BY <2>7, <3>1 DEF Covered
  <2>12. Followed(new)
    <3>1. ASSUME new.bounds = {}, NEW i \in 1..(M + 1), NEW f \in Below(b, nodes[i])
          PROVE  f.node \in seen
      <4>1. w.bounds = {} /\ ~LongList(b, e)
        BY <2>1, <2>7, <3>1
      <4>2. CASE i \in 1..M
        <5>1. f.node \in w.seen
          BY <1>1, <1>2, <1>3, <1>10, <3>1, <4>1, <4>2 DEF Followed, Body
        <5>2. QED BY <2>5, <5>1
      <4>3. CASE i = M + 1
        <5>1. f \in Below(b, e)
          BY <1>10, <3>1, <4>3
        <5>2. f.node \in w.seen \/ \E k \in DOMAIN fresh : fresh[k].node = f.node
          BY <2>3, <4>1, <5>1
        <5>3. QED BY <2>5, <5>2
      <4>4. QED BY <1>9, <4>2, <4>3
    <3>2. QED BY <1>2, <1>10, <2>7, <3>1 DEF Followed, Body
  <2>13. 1 \in seen
    BY <1>3, <2>5
  <2>14. QED BY <1>1, <1>4, <1>10, <1>11, <2>7, <2>9, <2>10, <2>11, <2>12, <2>13 DEF Walked
<1>17. QED BY <1>15, <1>16

LEMMA AdvanceKeeps ==
    ASSUME OneKind, NEW w, Walked(w), w.stack # <<>>
    PROVE  Walked(Advance(w)) /\ Advance(w).phase = w.phase
<1>1. CASE Len(w.nodes) >= MaxNodes
  <2>1. PICK new : new = [w EXCEPT !.bounds = @ \cup {"breadth"}, !.stack = <<>>]
    OBVIOUS
  <2>2. Advance(w) = new
    BY <1>1, <2>1 DEF Advance
  <2>3. DOMAIN w = {"phase", "name", "stack", "seen", "nodes", "bounds", "signals", "action"}
    BY DEF Walked, Idle
  <2>4. /\ DOMAIN new = DOMAIN w /\ new.phase = w.phase /\ new.name = w.name
        /\ new.nodes = w.nodes /\ new.stack = <<>> /\ new.seen = w.seen
        /\ new.bounds = w.bounds \cup {"breadth"}
    BY <2>1, <2>3
  <2>5. new.stack \in Seq(Entries(w.name))
    BY <2>4
  <2>6. Covered(new) /\ Followed(new)
    BY <2>4 DEF Covered, Followed
  <2>7. QED BY <2>2, <2>4, <2>5, <2>6 DEF Walked
<1>2. CASE ~(Len(w.nodes) >= MaxNodes)
  <2>1. Advance(w) = Descend(w, Last(w.stack))
    BY <1>2 DEF Advance
  <2>2. QED BY <2>1, DescendKeeps
<1>3. QED BY <1>1, <1>2

LEMMA WalkInit == Init => WalkInv
BY DEF Init, Idle, WalkInv

LEMMA JudgeWalk ==
    ASSUME WalkInv, NEW content, Judge(content)
    PROVE  WalkInv'
<1>1. Walked(walk) /\ walk.phase = "walk" /\ walk.stack = <<>>
  BY DEF Judge, WalkInv
<1>2. PICK structure : structure = Findings(Body(walk), walk.nodes, walk.bounds)
  OBVIOUS
<1>3. PICK signals : signals = structure \cup CheckIds(Body(walk), known, clock)
  OBVIOUS
<1>4. PICK action : action = Fused(content, signals)
  OBVIOUS
<1>5. walk' = [walk EXCEPT !.phase = "judged", !.signals = signals, !.action = action]
  BY <1>2, <1>3, <1>4 DEF Judge
<1>6. DOMAIN walk = {"phase", "name", "stack", "seen", "nodes", "bounds", "signals", "action"}
  BY <1>1 DEF Walked, Idle
<1>7. PICK new : new = walk'
  OBVIOUS
<1>8. /\ DOMAIN new = DOMAIN walk /\ new.phase = "judged" /\ new.name = walk.name
      /\ new.nodes = walk.nodes /\ new.stack = walk.stack /\ new.seen = walk.seen
      /\ new.bounds = walk.bounds /\ new.signals = signals
  BY <1>5, <1>6, <1>7
<1>9. Walked(new)
  <2>1. Covered(new) /\ Followed(new)
    BY <1>1, <1>8 DEF Walked, Covered, Followed, Body
  <2>2. QED BY <1>1, <1>8, <2>1 DEF Walked
<1>10. Findings(Body(new), new.nodes, new.bounds) = structure
  BY <1>2, <1>8 DEF Body
<1>11. structure \subseteq new.signals
  BY <1>3, <1>8
<1>12. QED BY <1>1, <1>7, <1>8, <1>9, <1>10, <1>11 DEF WalkInv, Walked, Covered, Followed, Body

LEMMA WalkStep ==
    ASSUME OneKind, WalkInv, [Next]_vars
    PROVE  WalkInv'
<1>1. ASSUME NEW name \in DOMAIN Bodies, Receive(name)
      PROVE  WalkInv'
  <2>1. walk' = Started(name)
    BY <1>1 DEF Receive
  <2>2. PICK new : new = Started(name)
    OBVIOUS
  <2>3. Walked(new) /\ new.phase = "walk" /\ walk' = new
    BY <2>1, <2>2, StartedWalks
  <2>4. QED BY <2>3 DEF WalkInv, Walked, Covered, Followed, Body
<1>2. ASSUME Visit
      PROVE  WalkInv'
  <2>1. walk' = Advance(walk) /\ walk.phase = "walk" /\ walk.stack # <<>> /\ Walked(walk)
    BY <1>2 DEF Visit, WalkInv
  <2>2. PICK new : new = Advance(walk)
    OBVIOUS
  <2>3. Walked(new) /\ new.phase = "walk" /\ walk' = new
    BY <2>1, <2>2, AdvanceKeeps
  <2>4. QED BY <2>3 DEF WalkInv, Walked, Covered, Followed, Body
<1>3. ASSUME NEW content, Judge(content)
      PROVE  WalkInv'
  BY <1>3, JudgeWalk
<1>4. ASSUME Return
      PROVE  WalkInv'
  BY <1>4 DEF Return, WalkInv, Idle
<1>5. ASSUME UNCHANGED walk
      PROVE  WalkInv'
  BY <1>5 DEF WalkInv, Walked, Covered, Followed, Body
<1>6. ASSUME Tick \/ (\E name \in DOMAIN Replies : Record(Replies[name])) \/ UNCHANGED vars
      PROVE  UNCHANGED walk
  BY <1>6 DEF Tick, Record, vars
<1>7. QED BY <1>1, <1>2, <1>3, <1>4, <1>5, <1>6 DEF Next, Step

-----------------------------------------------------------------------------
(* What a reader finds.                                                    *)

LEMMA LeastOf ==
    ASSUME NEW S \in SUBSET Nat, S # {}
    PROVE  \E m \in S : \A k \in S : m <= k
<1> DEFINE R == OpToRel(<, Nat)
<1>1. IsWellFoundedOn(R, Nat)
  BY NatLessThanWellFounded
<1>2. PICK m \in S : \A k \in S : ~(<<k, m>> \in R)
  <2> HIDE DEF R
  <2>1. QED BY <1>1, WFMin
<1>3. \A k \in S : m <= k
  <2>1. \A k \in S : ~(k < m)
    BY <1>2 DEF OpToRel
  <2>2. QED BY <2>1
<1>4. QED BY <1>3

Layer(b, g, d) ==
    IF d = 0 THEN {Node(1, RootKind(b))} ELSE g[d - 1] \cup UNION {Below(b, f) : f \in g[d - 1]}

\* The recursion has a solution, layer by layer.
LEMMA LayersExist ==
    ASSUME NEW b, NEW N \in Nat
    PROVE  \E g : g = [d \in 0..N |-> Layer(b, g, d)]
<1> DEFINE P(m) == \E g : g = [d \in 0..m |-> Layer(b, g, d)]
           missing == {m \in Nat : ~P(m)}
<1>1. P(0)
  <2>1. PICK g : g = [d \in 0..0 |-> {Node(1, RootKind(b))}]
    OBVIOUS
  <2>2. \A d \in 0..0 : Layer(b, g, d) = {Node(1, RootKind(b))}
    BY DEF Layer
  <2>3. g = [d \in 0..0 |-> Layer(b, g, d)]
    BY <2>1, <2>2
  <2>4. QED BY <2>3
<1>2. ASSUME NEW m \in Nat \ {0}, P(m - 1)
      PROVE  P(m)
  <2>1. PICK g : g = [d \in 0..(m - 1) |-> Layer(b, g, d)]
    BY <1>2
  <2>2. \A d \in 0..(m - 1) : g[d] = Layer(b, g, d)
    BY <2>1
  <2>3. PICK h : h = [d \in 0..m |-> IF d = m THEN Layer(b, g, m) ELSE g[d]]
    OBVIOUS
  <2>4. \A d \in 0..(m - 1) : h[d] = g[d]
    BY <2>3
  <2>5. ASSUME NEW d \in 0..m
        PROVE  Layer(b, h, d) = Layer(b, g, d)
    <3>1. CASE d = 0
      BY <3>1 DEF Layer
    <3>2. CASE d # 0
      <4>1. h[d - 1] = g[d - 1]
        BY <2>4, <3>2
      <4>2. QED BY <3>2, <4>1 DEF Layer
    <3>3. QED BY <3>1, <3>2
  <2>6. ASSUME NEW d \in 0..m
        PROVE  h[d] = Layer(b, h, d)
    <3>1. CASE d = m
      BY <2>3, <2>5, <3>1
    <3>2. CASE d # m
      <4>1. d \in 0..(m - 1)
        BY <3>2
      <4>2. QED BY <2>2, <2>4, <2>5, <4>1
    <3>3. QED BY <3>1, <3>2
  <2>7. h = [d \in 0..m |-> Layer(b, h, d)]
    BY <2>3, <2>6
  <2>8. QED BY <2>7
<1>3. missing = {}
  <2> SUFFICES ASSUME missing # {}
               PROVE  FALSE
    OBVIOUS
  <2>1. PICK m \in missing : \A k \in missing : m <= k
    <3>1. missing \in SUBSET Nat
      OBVIOUS
    <3> HIDE DEF missing
    <3>2. QED BY <3>1, LeastOf
  <2>2. m \in Nat \ {0}
    BY <1>1, <2>1
  <2>3. P(m - 1)
    <3>1. m - 1 \in Nat /\ ~(m <= m - 1)
      BY <2>2
    <3>2. m - 1 \notin missing
      BY <2>1, <3>1
    <3> HIDE DEF P
    <3>3. QED BY <3>1, <3>2
  <2>4. ~P(m)
    BY <2>1
  <2> HIDE DEF P, missing
  <2>5. QED BY <1>2, <2>2, <2>3, <2>4
<1>4. P(N)
  <2> HIDE DEF P
  <2>1. QED BY <1>3
<1>5. QED BY <1>4

LEMMA ReachedIs ==
    ASSUME NEW b, NEW N \in Nat, N = 4 * Len(b)
    PROVE  \E g : g = [d \in 0..N |-> Layer(b, g, d)] /\ Reached(b) = g[N]
<1>1. PICK h : h = [d \in 0..N |-> Layer(b, h, d)]
  BY LayersExist
<1> DEFINE g == CHOOSE within :
                    within = [d \in 0..(4 * Len(b)) |->
                        IF d = 0 THEN {[node |-> 1, kind |-> RootKind(b)]}
                        ELSE within[d - 1] \cup UNION {Below(b, f) : f \in within[d - 1]}]
<1>2. g = [d \in 0..(4 * Len(b)) |->
                        IF d = 0 THEN {[node |-> 1, kind |-> RootKind(b)]}
                        ELSE g[d - 1] \cup UNION {Below(b, f) : f \in g[d - 1]}]
  <2>1. h = [d \in 0..(4 * Len(b)) |->
                        IF d = 0 THEN {[node |-> 1, kind |-> RootKind(b)]}
                        ELSE h[d - 1] \cup UNION {Below(b, f) : f \in h[d - 1]}]
    BY <1>1 DEF Layer, Node
  <2>2. QED BY <2>1
<1>3. Reached(b) = g[4 * Len(b)]
  BY DEF Reached
<1> HIDE DEF g
<1>4. g = [d \in 0..N |-> Layer(b, g, d)]
  BY <1>2 DEF Layer, Node
<1>5. QED BY <1>3, <1>4

\* All that a reader finds was found by a walk that reported no bound.
LEMMA ReachedSeen ==
    ASSUME OneKind, NEW w, Walked(w), w.stack = <<>>, w.bounds = {},
           NEW f \in Reached(Bodies[w.name])
    PROVE  \E i \in DOMAIN w.nodes : w.nodes[i].node = f.node /\ w.nodes[i].kind = f.kind
<1>1. PICK name \in DOMAIN Bodies : name = w.name
  BY DEF Walked
<1>2. PICK b : b = Bodies[name]
  OBVIOUS
<1>3. IsBody(b) /\ 1 \in DOMAIN b
  BY <1>2, BodiesAssumption DEF IsBody
<1>4. w.nodes \in Seq(Entries(name)) /\ 1 \in w.seen
  BY <1>1 DEF Walked
<1>5. PICK K \in [DOMAIN b -> NodeKinds] : K = KindsOf(name)
  BY <1>2, KindsOfIs
<1>6. K[1] = RootKind(b)
  BY <1>2, <1>5, KindsOfIs
<1> DEFINE Good(x) == \E i \in DOMAIN w.nodes : w.nodes[i].node = x.node /\ w.nodes[i].kind = x.kind
\* What was seen is listed, with the kind of its object.
<1>7. ASSUME NEW x, x.node \in w.seen, x.kind = K[x.node]
      PROVE  Good(x)
  <2>1. PICK i \in DOMAIN w.nodes : w.nodes[i].node = x.node
    <3>1. (\E i \in DOMAIN w.nodes : w.nodes[i].node = x.node)
            \/ (\E i \in DOMAIN w.stack : w.stack[i].node = x.node)
      BY <1>7 DEF Walked, Covered
    <3>2. DOMAIN w.stack = {}
      OBVIOUS
    <3>3. QED BY <3>1, <3>2
  <2>2. w.nodes[i] \in Entries(name)
    BY <1>4
  <2>3. w.nodes[i].kind = K[w.nodes[i].node]
    BY <1>5, <2>2 DEF Entries
  <2>4. QED BY <1>7, <2>1, <2>3
\* What is below a listed object was seen.
<1>8. ASSUME NEW x, Good(x), NEW y \in Below(b, x)
      PROVE  Good(y)
  <2>1. PICK i \in DOMAIN w.nodes : w.nodes[i].node = x.node /\ w.nodes[i].kind = x.kind
    BY <1>8
  <2>2. PICK e \in Entries(name) : e = w.nodes[i]
    BY <1>4
  <2>3. e.node \in DOMAIN b /\ e.kind = K[e.node]
    BY <1>2, <1>5, <2>2 DEF Entries, Raw
  <2>4. y \in Below(b, Node(e.node, e.kind))
    <3>1. Below(b, x) = Below(b, Node(x.node, x.kind))
      BY BelowEntry
    <3>2. QED BY <1>8, <2>1, <2>2, <3>1
  <2>5. y \in Below(b, e)
    BY <2>4, BelowEntry
  <2>6. y.node \in w.seen
    BY <1>1, <1>2, <2>2, <2>5 DEF Walked, Followed, Body
  <2>7. y.kind = K[y.node]
    BY <1>2, <1>5, <2>3, <2>4, KindsOfIs
  <2>8. QED BY <1>7, <2>6, <2>7
<1>9. PICK N \in Nat : N = 4 * Len(b)
  <2>1. b \in Seq(ToSet(b))
    BY <1>3 DEF IsBody
  <2>2. Len(b) \in Nat
    BY <2>1
  <2>3. QED BY <2>2
<1>10. PICK g : g = [d \in 0..N |-> Layer(b, g, d)] /\ Reached(b) = g[N]
  BY <1>9, ReachedIs
<1>11. \A d \in 0..N : g[d] = Layer(b, g, d)
  BY <1>10
<1> DEFINE bad == {d \in 0..N : \E x \in g[d] : ~Good(x)}
<1>12. bad = {}
  <2> SUFFICES ASSUME bad # {}
               PROVE  FALSE
    OBVIOUS
  <2>1. PICK d \in bad : \A k \in bad : d <= k
    <3>1. bad \in SUBSET Nat
      OBVIOUS
    <3> HIDE DEF bad
    <3>2. QED BY <3>1, LeastOf
  <2>2. d \in 0..N
    BY <2>1
  <2>3. PICK y \in g[d] : ~Good(y)
    BY <2>1
  <2> HIDE DEF Good
  <2>4. CASE d = 0
    <3>1. y = Node(1, RootKind(b))
      BY <1>11, <2>2, <2>3, <2>4 DEF Layer
    <3>2. y.node = 1 /\ y.kind = RootKind(b)
      BY <3>1 DEF Node
    <3>3. QED BY <1>4, <1>6, <1>7, <2>3, <3>2
  <2>5. CASE d # 0
    <3>1. d - 1 \in 0..N /\ ~(d <= d - 1)
      BY <2>2, <2>5
    <3>2. d - 1 \notin bad
      BY <2>1, <3>1
    <3>3. \A x \in g[d - 1] : Good(x)
      BY <3>1, <3>2
    <3>4. g[d] = g[d - 1] \cup UNION {Below(b, x) : x \in g[d - 1]}
      BY <1>11, <2>2, <2>5 DEF Layer
    <3>5. y \notin g[d - 1]
      BY <2>3, <3>3
    <3>6. PICK x \in g[d - 1] : y \in Below(b, x)
      BY <2>3, <3>4, <3>5
    <3>7. QED BY <1>8, <2>3, <3>3, <3>6
  <2>6. QED BY <2>4, <2>5
<1>13. N \in 0..N
  BY <1>9
<1>14. \A x \in g[N] : Good(x)
  BY <1>12, <1>13
<1>15. QED BY <1>1, <1>2, <1>10, <1>14

\* The whole of a message that was read without a bound is in its findings.
LEMMA FoundAll ==
    ASSUME NEW b, NEW nodes, NEW bounds, NEW signals,
           Findings(b, nodes, bounds) \subseteq signals,
           \A s \in signals : s.rule \notin {"a2a_nested_depth_exceeded", "a2a_nested_breadth_exceeded"}
    PROVE  /\ "depth" \notin bounds /\ "breadth" \notin bounds
           /\ ~Truncated(b, nodes)
           /\ \A i \in DOMAIN nodes : Checks(b, nodes[i]) \subseteq signals
<1> DEFINE all == bounds \cup (IF Truncated(b, nodes) THEN {"breadth"} ELSE {})
           each == UNION {Checks(b, nodes[i]) : i \in DOMAIN nodes}
<1>1. PICK found : found = Findings(b, nodes, bounds)
  OBVIOUS
<1>2. each \subseteq signals
  <2>1. each \subseteq found
    BY <1>1 DEF Findings
  <2> HIDE DEF each
  <2>2. QED BY <1>1, <2>1
<1>3. ASSUME "depth" \in all
      PROVE  FALSE
  <2>1. Signal("a2a_nested_depth_exceeded", 35) \in found
    <3>1. found = CheckEnvelope(b[1].envelope) \cup each
                    \cup (IF "depth" \in all THEN {Signal("a2a_nested_depth_exceeded", 35)} ELSE {})
                    \cup (IF "breadth" \in all THEN {Signal("a2a_nested_breadth_exceeded", 35)} ELSE {})
      BY <1>1, Zenon DEF Findings, Fire, all, each
    <3> HIDE DEF all, each
    <3>2. QED BY <3>1, <1>3
  <2>2. Signal("a2a_nested_depth_exceeded", 35).rule = "a2a_nested_depth_exceeded"
    BY DEF Signal
  <2>3. QED BY <1>1, <2>1, <2>2
<1>4. ASSUME "breadth" \in all
      PROVE  FALSE
  <2>1. Signal("a2a_nested_breadth_exceeded", 35) \in found
    <3>1. found = CheckEnvelope(b[1].envelope) \cup each
                    \cup (IF "depth" \in all THEN {Signal("a2a_nested_depth_exceeded", 35)} ELSE {})
                    \cup (IF "breadth" \in all THEN {Signal("a2a_nested_breadth_exceeded", 35)} ELSE {})
      BY <1>1, Zenon DEF Findings, Fire, all, each
    <3> HIDE DEF all, each
    <3>2. QED BY <3>1, <1>4
  <2>2. Signal("a2a_nested_breadth_exceeded", 35).rule = "a2a_nested_breadth_exceeded"
    BY DEF Signal
  <2>3. QED BY <1>1, <2>1, <2>2
<1>5. QED BY <1>2, <1>3, <1>4

LEMMA DroppedNothing ==
    ASSUME OneKind, WalkInv
    PROVE  NothingDropped
<1> SUFFICES ASSUME walk.phase = "judged",
                    {s.rule : s \in walk.signals}
                        \cap {"a2a_nested_depth_exceeded", "a2a_nested_breadth_exceeded"} = {},
                    NEW f \in Readable[walk.name]
             PROVE  /\ Checks(Body(walk), f) \subseteq walk.signals
                    /\ f.kind \in Content => PartFaults(Body(walk), f) \subseteq walk.signals
  BY DEF NothingDropped
<1>1. /\ Walked(walk) /\ walk.stack = <<>>
      /\ Findings(Body(walk), walk.nodes, walk.bounds) \subseteq walk.signals
  BY DEF WalkInv
<1>2. PICK name \in DOMAIN Bodies : name = walk.name
  BY <1>1 DEF Walked
<1>3. PICK b : b = Body(walk)
  OBVIOUS
<1>4. b = Bodies[name] /\ IsBody(b)
  BY <1>2, <1>3, BodiesAssumption DEF Body
<1>5. \A s \in walk.signals :
        s.rule \notin {"a2a_nested_depth_exceeded", "a2a_nested_breadth_exceeded"}
  OBVIOUS
<1>6. /\ "depth" \notin walk.bounds /\ "breadth" \notin walk.bounds
      /\ ~Truncated(b, walk.nodes)
      /\ \A i \in DOMAIN walk.nodes : Checks(b, walk.nodes[i]) \subseteq walk.signals
  BY <1>1, <1>3, <1>5, FoundAll
<1>7. walk.bounds = {}
  BY <1>1, <1>6 DEF Walked
<1>8. f \in Reached(b)
  BY <1>2, <1>4 DEF Readable
<1>9. PICK i \in DOMAIN walk.nodes : walk.nodes[i].node = f.node /\ walk.nodes[i].kind = f.kind
  BY <1>1, <1>2, <1>4, <1>7, <1>8, ReachedSeen
<1>10. Checks(b, f) = Checks(b, walk.nodes[i])
  BY <1>9 DEF Checks
<1>11. Checks(b, f) \subseteq walk.signals
  BY <1>6, <1>10
<1>12. ASSUME f.kind \in Content
       PROVE  PartFaults(b, f) \subseteq walk.signals
  <2>1. PICK node : node = b[f.node]
    OBVIOUS
  <2>2. f.node \in DOMAIN b
    <3>1. walk.nodes[i] \in Entries(name)
      BY <1>1, <1>2, <1>9 DEF Walked
    <3>2. QED BY <1>4, <1>9, <3>1 DEF Entries, Raw
  <2>3. PICK parts : parts = node.parts
    OBVIOUS
  <2>4. parts \in Seq(ToSet(parts)) /\ Len(parts) \in Nat
    BY <1>4, <2>1, <2>2, <2>3 DEF IsBody
  <2>5. ~(Len(parts) > MaxItems)
    BY <1>6, <1>9, <1>12, <2>1, <2>3 DEF Truncated
  <2>6. Read(parts) = parts
    <3>1. MaxItems \in Nat /\ Len(parts) <= MaxItems
      BY <2>4, <2>5, ConstAssumption
    <3>2. (IF Len(parts) < MaxItems THEN Len(parts) ELSE MaxItems) = Len(parts)
      BY <2>4, <3>1
    <3>3. Read(parts) = SubSeq(parts, 1, Len(parts))
      BY <3>2 DEF Read
    <3>4. QED BY <2>4, <3>3
  <2>7. PartFaults(b, f) = CheckParts(node)
    BY <2>1, <2>3, <2>6 DEF PartFaults, CheckParts
  <2>8. CheckParts(node) \subseteq Checks(b, f)
    <3>1. f.kind # "envelope"
      BY <1>12 DEF Content
    <3>2. QED BY <1>12, <2>1, <3>1 DEF Checks
  <2>9. QED BY <1>11, <2>7, <2>8
<1>13. QED BY <1>3, <1>11, <1>12

\* A message without a bound signal was read to the end: every fault of every
\* object below its root is among its signals, for any bodies in which an
\* object is read as one kind and for any limits.
THEOREM ReadToTheEnd == ASSUME OneKind PROVE Spec => []NothingDropped
<1>1. Init => WalkInv
  BY WalkInit
<1>2. WalkInv /\ [Next]_vars => WalkInv'
  BY WalkStep
<1>3. WalkInv => NothingDropped
  BY DroppedNothing
<1>4. QED BY <1>1, <1>2, <1>3, PTL DEF Spec

-----------------------------------------------------------------------------
(* The walk finds each object once.                                        *)

Apart(s) == \A i, j \in DOMAIN s : s[i].node = s[j].node => i = j
Once(w) ==
    /\ DOMAIN w = DOMAIN Idle
    /\ w.name \in DOMAIN Bodies
    /\ w.nodes \in Seq(Raw(w.name)) /\ w.stack \in Seq(Raw(w.name))
    /\ Len(w.nodes) <= MaxNodes
    /\ Apart(w.nodes) /\ Apart(w.stack)
    /\ \A i \in DOMAIN w.nodes : w.nodes[i].node \in w.seen
    /\ \A i \in DOMAIN w.stack : w.stack[i].node \in w.seen
    /\ \A i \in DOMAIN w.nodes, j \in DOMAIN w.stack : w.nodes[i].node # w.stack[j].node
OnceInv ==
    /\ walk.phase \in {"idle", "walk", "judged"}
    /\ IF walk.phase = "idle" THEN walk.nodes = <<>> ELSE Once(walk)

LEMMA StartedOnce ==
    ASSUME NEW name \in DOMAIN Bodies
    PROVE  Once(Started(name)) /\ Started(name).phase = "walk"
<1>1. PICK w : w = Started(name)
  OBVIOUS
<1>2. PICK b : b = Bodies[name]
  OBVIOUS
<1>3. PICK root : root = Entry(1, RootKind(b), 0)
  OBVIOUS
<1>4. /\ DOMAIN w = DOMAIN Idle /\ w.phase = "walk" /\ w.name = name
      /\ w.seen = {1} /\ w.stack = <<root>> /\ w.nodes = <<>>
  BY <1>1, <1>2, <1>3 DEF Started, Idle
<1>5. 1 \in DOMAIN b
  BY <1>2, BodiesAssumption DEF IsBody
<1>6. RootKind(b) \in NodeKinds
  BY DEF RootKind, NodeKinds
<1>7. root \in Raw(name) /\ root.node = 1
  BY <1>2, <1>3, <1>5, <1>6 DEF Raw, Entry
<1>8. w.stack \in Seq(Raw(name)) /\ w.nodes \in Seq(Raw(name))
  BY <1>4, <1>7
<1>9. DOMAIN w.stack = {1} /\ w.stack[1] = root /\ DOMAIN w.nodes = {} /\ Len(w.nodes) = 0
  BY <1>4
<1>10. MaxNodes \in Nat
  BY ConstAssumption
<1>11. QED BY <1>1, <1>4, <1>7, <1>8, <1>9, <1>10 DEF Once, Apart

LEMMA AdvanceOnce ==
    ASSUME NEW w, Once(w), w.stack # <<>>
    PROVE  Once(Advance(w)) /\ Advance(w).phase = w.phase
<1>1. PICK name \in DOMAIN Bodies : name = w.name
  BY DEF Once
<1>2. PICK b : b = Bodies[name]
  OBVIOUS
<1>3. /\ DOMAIN w = DOMAIN Idle
      /\ w.nodes \in Seq(Raw(name)) /\ w.stack \in Seq(Raw(name))
      /\ Len(w.nodes) <= MaxNodes
      /\ Apart(w.nodes) /\ Apart(w.stack)
      /\ \A i \in DOMAIN w.nodes : w.nodes[i].node \in w.seen
      /\ \A i \in DOMAIN w.stack : w.stack[i].node \in w.seen
      /\ \A i \in DOMAIN w.nodes, j \in DOMAIN w.stack : w.nodes[i].node # w.stack[j].node
  BY <1>1 DEF Once
<1>4. DOMAIN w = {"phase", "name", "stack", "seen", "nodes", "bounds", "signals", "action"}
  BY <1>3 DEF Idle
<1>5. PICK new : new = Advance(w)
  OBVIOUS
<1>6. CASE Len(w.nodes) >= MaxNodes
  <2>1. new = [w EXCEPT !.bounds = @ \cup {"breadth"}, !.stack = <<>>]
    BY <1>5, <1>6 DEF Advance
  <2>2. /\ DOMAIN new = DOMAIN w /\ new.phase = w.phase /\ new.name = w.name
        /\ new.nodes = w.nodes /\ new.stack = <<>> /\ new.seen = w.seen
    BY <1>4, <2>1
  <2>3. new.stack \in Seq(Raw(name)) /\ DOMAIN new.stack = {} /\ Apart(new.stack)
    BY <2>2 DEF Apart
  <2>4. QED BY <1>1, <1>3, <1>5, <2>2, <2>3 DEF Once
<1>7. CASE ~(Len(w.nodes) >= MaxNodes)
  <2>1. PICK e \in Raw(name) : e = Last(w.stack)
    BY <1>3, LastAndFront
  <2>2. PICK rest : rest = Front(w.stack)
    OBVIOUS
  <2>3. PICK L \in Nat \ {0} : L = Len(w.stack)
    BY <1>3, LastAndFront
  <2>4. /\ rest \in Seq(Raw(name)) /\ DOMAIN w.stack = 1..L /\ e = w.stack[L]
        /\ DOMAIN rest = 1..(L - 1) /\ \A i \in 1..(L - 1) : rest[i] = w.stack[i]
    BY <1>3, <2>1, <2>2, <2>3, LastAndFront
  <2>5. PICK nodes : nodes = Append(w.nodes, e)
    OBVIOUS
  <2>6. PICK M \in Nat : M = Len(w.nodes)
    BY <1>3
  <2>7. /\ nodes \in Seq(Raw(name)) /\ DOMAIN w.nodes = 1..M /\ DOMAIN nodes = 1..(M + 1)
        /\ nodes[M + 1] = e /\ \A i \in 1..M : nodes[i] = w.nodes[i]
    BY <1>3, <2>1, <2>5, <2>6
  <2>8. Len(nodes) <= MaxNodes
    <3>1. MaxNodes \in Nat /\ Len(nodes) = M + 1
      BY <2>7, ConstAssumption
    <3>2. QED BY <1>7, <2>6, <3>1
  <2>9. e.node \in w.seen /\ \A i \in 1..M : w.nodes[i].node # e.node
    <3>1. L \in DOMAIN w.stack /\ w.stack[L] = e
      BY <2>4
    <3>2. e.node \in w.seen
      BY <1>3, <3>1
    <3>3. \A i \in DOMAIN w.nodes : w.nodes[i].node # e.node
      BY <1>3, <3>1
    <3>4. QED BY <2>7, <3>2, <3>3
  <2>10. Apart(nodes)
    <3> SUFFICES ASSUME NEW i \in 1..(M + 1), NEW j \in 1..(M + 1), nodes[i].node = nodes[j].node
                 PROVE  i = j
      BY <2>7 DEF Apart
    <3>1. CASE i \in 1..M /\ j \in 1..M
      BY <1>3, <2>7, <3>1 DEF Apart
    <3>2. CASE i = M + 1 /\ j \in 1..M
      BY <2>7, <2>9, <3>2
    <3>3. CASE j = M + 1 /\ i \in 1..M
      BY <2>7, <2>9, <3>3
    <3>4. QED BY <3>1, <3>2, <3>3
  <2>11. Apart(rest) /\ \A i \in DOMAIN rest : rest[i].node \in w.seen
    <3>1. \A i \in DOMAIN rest : i \in DOMAIN w.stack /\ rest[i] = w.stack[i]
      BY <2>4
    <3>2. \A i \in DOMAIN rest : rest[i].node \in w.seen
      BY <1>3, <3>1
    <3>3. \A i, j \in DOMAIN rest : rest[i].node = rest[j].node => i = j
      BY <1>3, <3>1 DEF Apart
    <3>4. QED BY <3>2, <3>3 DEF Apart
  <2>12. \A i \in DOMAIN rest : rest[i].node # e.node
    <3> SUFFICES ASSUME NEW i \in 1..(L - 1), w.stack[i].node = w.stack[L].node
                 PROVE  FALSE
      BY <2>4
    <3>1. i \in 1..L /\ L \in 1..L /\ i # L
      OBVIOUS
    <3>2. QED BY <1>3, <2>4, <3>1 DEF Apart
  <2>13. \A i \in DOMAIN nodes : nodes[i].node \in w.seen
    BY <1>3, <2>7, <2>9
  <2>14. ASSUME NEW i \in DOMAIN nodes, NEW j \in DOMAIN rest
         PROVE  nodes[i].node # rest[j].node
    <3>1. CASE i \in 1..M
      <4>1. j \in DOMAIN w.stack /\ rest[j] = w.stack[j]
        BY <2>4, <2>14
      <4>2. i \in DOMAIN w.nodes /\ nodes[i] = w.nodes[i]
        BY <2>7, <3>1
      <4>3. QED BY <1>3, <4>1, <4>2
    <3>2. CASE i = M + 1
      BY <2>7, <2>12, <2>14, <3>2
    <3>3. QED BY <2>7, <2>14, <3>1, <3>2
  <2>15. new = Descend(w, e)
    BY <1>5, <1>7, <2>1 DEF Advance
  <2>16. CASE e.depth >= MaxDepth
    <3>1. PICK bounds : bounds = w.bounds \cup (IF HasMore(Body(w), e.node, e.kind) THEN {"depth"} ELSE {})
      OBVIOUS
    <3>2. new = [[w EXCEPT !.nodes = nodes, !.stack = rest]
                    EXCEPT !.bounds = @ \cup (IF HasMore(Body(w), e.node, e.kind) THEN {"depth"} ELSE {})]
      BY <2>2, <2>5, <2>15, <2>16 DEF Descend
    <3>3. /\ DOMAIN new = DOMAIN w /\ new.phase = w.phase /\ new.name = name
          /\ new.nodes = nodes /\ new.stack = rest /\ new.seen = w.seen
      BY <1>1, <1>4, <3>2
    <3>4. QED BY <1>1, <1>3, <1>5, <2>4, <2>7, <2>8, <2>10, <2>11, <2>13, <2>14, <3>3 DEF Once
  <2>17. CASE ~(e.depth >= MaxDepth)
    <3>1. PICK fresh : fresh = Unseen(w, e)
      OBVIOUS
    <3>2. /\ fresh \in Seq(Raw(name)) /\ Apart(fresh)
          /\ \A k \in DOMAIN fresh : fresh[k].node \notin w.seen
      BY <1>1, <3>1, UnseenIs DEF Apart
    <3>3. PICK stack : stack = rest \o fresh
      OBVIOUS
    <3>4. PICK seen : seen = w.seen \cup {fresh[i].node : i \in DOMAIN fresh}
      OBVIOUS
    <3>5. new = [[w EXCEPT !.nodes = nodes, !.stack = rest]
                    EXCEPT !.bounds = @ \cup (IF LongList(Body(w), e) THEN {"breadth"} ELSE {}),
                           !.seen = @ \cup {fresh[i].node : i \in DOMAIN fresh},
                           !.stack = @ \o fresh]
      BY <2>2, <2>5, <2>15, <2>17, <3>1 DEF Descend
    <3>6. /\ DOMAIN new = DOMAIN w /\ new.phase = w.phase /\ new.name = name
          /\ new.nodes = nodes /\ new.stack = stack /\ new.seen = seen
      BY <1>1, <1>4, <3>3, <3>4, <3>5
    <3>7. PICK F \in Nat : F = Len(fresh) /\ DOMAIN fresh = 1..F
      BY <3>2
    <3>8. /\ stack \in Seq(Raw(name)) /\ Len(stack) = (L - 1) + F
          /\ \A i \in 1..((L - 1) + F) :
                stack[i] = IF i <= L - 1 THEN rest[i] ELSE fresh[i - (L - 1)]
      <4>1. Len(rest) = L - 1
        BY <2>4
      <4>2. /\ rest \o fresh \in Seq(Raw(name))
            /\ Len(rest \o fresh) = Len(rest) + Len(fresh)
            /\ \A i \in 1..(Len(rest) + Len(fresh)) :
                    (rest \o fresh)[i] = IF i <= Len(rest) THEN rest[i] ELSE fresh[i - Len(rest)]
        BY <2>4, <3>2, ConcatProperties
      <4>3. QED BY <3>3, <3>7, <4>1, <4>2
    <3>9. DOMAIN stack = 1..((L - 1) + F)
      BY <3>8
    <3>10. ASSUME NEW i \in DOMAIN stack
           PROVE  \/ i \in DOMAIN rest /\ stack[i] = rest[i]
                  \/ i - (L - 1) \in DOMAIN fresh /\ stack[i] = fresh[i - (L - 1)]
      BY <2>4, <3>7, <3>8, <3>9
    <3>11. \A i \in DOMAIN rest, k \in DOMAIN fresh : rest[i].node # fresh[k].node
      BY <2>11, <3>2
    <3>12. Apart(stack)
      <4> SUFFICES ASSUME NEW i \in DOMAIN stack, NEW j \in DOMAIN stack, stack[i].node = stack[j].node
                   PROVE  i = j
        BY DEF Apart
      <4>1. CASE i \in DOMAIN rest /\ stack[i] = rest[i] /\ j \in DOMAIN rest /\ stack[j] = rest[j]
        BY <2>11, <4>1 DEF Apart
      <4>2. CASE /\ i - (L - 1) \in DOMAIN fresh /\ stack[i] = fresh[i - (L - 1)]
                 /\ j - (L - 1) \in DOMAIN fresh /\ stack[j] = fresh[j - (L - 1)]
        <5>1. i - (L - 1) = j - (L - 1)
          BY <3>2, <4>2 DEF Apart
        <5>2. i \in Int /\ j \in Int
          BY <3>9
        <5>3. QED BY <5>1, <5>2
      <4>3. CASE /\ i \in DOMAIN rest /\ stack[i] = rest[i]
                 /\ j - (L - 1) \in DOMAIN fresh /\ stack[j] = fresh[j - (L - 1)]
        BY <3>11, <4>3
      <4>4. CASE /\ j \in DOMAIN rest /\ stack[j] = rest[j]
                 /\ i - (L - 1) \in DOMAIN fresh /\ stack[i] = fresh[i - (L - 1)]
        BY <3>11, <4>4
      <4>5. QED BY <3>10, <4>1, <4>2, <4>3, <4>4
    <3>13. \A i \in DOMAIN stack : stack[i].node \in seen
      BY <2>11, <3>4, <3>10
    <3>14. ASSUME NEW i \in DOMAIN nodes, NEW j \in DOMAIN stack
           PROVE  nodes[i].node # stack[j].node
      <4>1. nodes[i].node \in w.seen
        BY <2>13
      <4>2. QED BY <2>14, <3>2, <3>10, <4>1
    <3>15. \A i \in DOMAIN nodes : nodes[i].node \in seen
      BY <2>13, <3>4
    <3>16. QED BY <1>1, <1>3, <1>5, <2>7, <2>8, <2>10, <3>6, <3>8, <3>12, <3>13, <3>14, <3>15 DEF Once
  <2>18. QED BY <2>16, <2>17
<1>8. QED BY <1>6, <1>7

LEMMA OnceStep == OnceInv /\ [Next]_vars => OnceInv'
<1> SUFFICES ASSUME OnceInv, [Next]_vars
             PROVE  OnceInv'
  OBVIOUS
<1>1. ASSUME NEW name \in DOMAIN Bodies, Receive(name)
      PROVE  OnceInv'
  <2>1. PICK new : new = Started(name)
    OBVIOUS
  <2>2. Once(new) /\ new.phase = "walk" /\ walk' = new
    BY <1>1, <2>1, StartedOnce DEF Receive
  <2>3. QED BY <2>2 DEF OnceInv, Once
<1>2. ASSUME Visit
      PROVE  OnceInv'
  <2>1. walk' = Advance(walk) /\ walk.phase = "walk" /\ walk.stack # <<>> /\ Once(walk)
    BY <1>2 DEF Visit, OnceInv
  <2>2. PICK new : new = Advance(walk)
    OBVIOUS
  <2>3. Once(new) /\ new.phase = "walk" /\ walk' = new
    BY <2>1, <2>2, AdvanceOnce
  <2>4. QED BY <2>3 DEF OnceInv, Once
<1>3. ASSUME NEW content, Judge(content)
      PROVE  OnceInv'
  <2>1. Once(walk)
    BY <1>3 DEF Judge, OnceInv
  <2>2. PICK new : new = walk'
    OBVIOUS
  <2>3. PICK signals : signals = Findings(Body(walk), walk.nodes, walk.bounds)
                                    \cup CheckIds(Body(walk), known, clock)
    OBVIOUS
  <2>4. PICK action : action = Fused(content, signals)
    OBVIOUS
  <2>5. new = [walk EXCEPT !.phase = "judged", !.signals = signals, !.action = action]
    BY <1>3, <2>2, <2>3, <2>4 DEF Judge
  <2>6. DOMAIN walk = {"phase", "name", "stack", "seen", "nodes", "bounds", "signals", "action"}
    BY <2>1 DEF Once, Idle
  <2>7. /\ DOMAIN new = DOMAIN walk /\ new.phase = "judged" /\ new.name = walk.name
        /\ new.nodes = walk.nodes /\ new.stack = walk.stack /\ new.seen = walk.seen
    BY <2>5, <2>6
  <2>8. Once(new)
    BY <2>1, <2>7 DEF Once
  <2>9. QED BY <2>2, <2>7, <2>8 DEF OnceInv, Once
<1>4. ASSUME Return
      PROVE  OnceInv'
  BY <1>4 DEF Return, OnceInv, Idle
<1>5. ASSUME UNCHANGED walk
      PROVE  OnceInv'
  BY <1>5 DEF OnceInv, Once
<1>6. ASSUME Tick \/ (\E name \in DOMAIN Replies : Record(Replies[name])) \/ UNCHANGED vars
      PROVE  UNCHANGED walk
  BY <1>6 DEF Tick, Record, vars
<1>7. QED BY <1>1, <1>2, <1>3, <1>4, <1>5, <1>6 DEF Next, Step

\* A store holds distinct ids, never more than MaxSize of them, with no expiry
\* beyond the time to live; a walk lists at most MaxNodes objects, each once,
\* however the body refers to itself.
THEOREM WithinBounds == Spec => []TypeOK
<1>1. Init => TrackerInv /\ OnceInv
  <2>1. Init => OnceInv
    BY DEF Init, Idle, OnceInv
  <2>2. QED BY <2>1, TrackerInit
<1>2. TrackerInv /\ OnceInv /\ [Next]_vars => TrackerInv' /\ OnceInv'
  BY TrackerStep, OnceStep
<1>3. TrackerInv /\ OnceInv => TypeOK
  <2> SUFFICES ASSUME TrackerInv, OnceInv
               PROVE  TypeOK
    OBVIOUS
  <2>1. MaxClock \in Nat /\ Ttl \in Nat \ {0} /\ MaxNodes \in Nat
    BY ConstAssumption
  <2>2. clock \in 0..MaxClock
    BY <2>1 DEF TrackerInv
  <2>3. ASSUME NEW kind \in Kinds
        PROVE  /\ issued[kind] \in [Ids -> -1..MaxClock]
               /\ known[kind] \in Seq([id : Ids, exp : 0..(MaxClock + Ttl)])
               /\ Len(known[kind]) <= MaxSize
               /\ \A i, j \in DOMAIN known[kind] :
                    known[kind][i].id = known[kind][j].id => i = j
    <3>1. PICK stamps \in Stamps : stamps = issued[kind]
      BY DEF TrackerInv
    <3>2. PICK store : store = known[kind]
      OBVIOUS
    <3>3. Truthful(store, stamps) /\ Len(store) <= MaxSize
      BY <3>1, <3>2 DEF TrackerInv
    <3>4. \A id \in Ids : stamps[id] \in Int /\ stamps[id] >= -1 /\ stamps[id] <= clock
      BY <3>1 DEF TrackerInv, Stamps
    <3>5. \A id \in Ids : stamps[id] \in -1..MaxClock
      BY <2>1, <2>2, <3>4
    <3>6. stamps \in [Ids -> -1..MaxClock]
      BY <3>1, <3>5 DEF Stamps
    <3>7. store \in Seq(StoreEntry)
      BY <3>3 DEF Truthful
    <3> DEFINE Held == [id : Ids, exp : 0..(MaxClock + Ttl)]
    <3>8. ASSUME NEW i \in DOMAIN store
          PROVE  store[i] \in Held
      <4>1. PICK e \in StoreEntry : e = store[i]
        BY <3>7, <3>8
      <4>2. e.id \in Ids /\ e = [id |-> e.id, exp |-> e.exp]
        BY <4>1 DEF StoreEntry
      <4>3. e.exp = stamps[e.id] + Ttl
        BY <3>3, <3>8, <4>1 DEF Truthful
      <4>4. e.exp \in 0..(MaxClock + Ttl)
        BY <2>1, <3>5, <4>2, <4>3
      <4>5. QED BY <4>1, <4>2, <4>4
    <3>9. store \in Seq(Held)
      <4> HIDE DEF Held
      <4> QED BY <3>7, <3>8
    <3>10. \A i, j \in DOMAIN store : store[i].id = store[j].id => i = j
      BY <3>3 DEF Truthful
    <3>11. QED BY <3>1, <3>2, <3>3, <3>6, <3>9, <3>10
  <2>4. issued \in [Kinds -> [Ids -> -1..MaxClock]]
    <3>1. issued = [kind \in Kinds |-> issued[kind]]
      BY DEF TrackerInv
    <3>2. QED BY <2>3, <3>1
  <2>5. /\ walk.phase \in {"idle", "walk", "judged"}
        /\ Len(walk.nodes) <= MaxNodes
        /\ \A i, j \in DOMAIN walk.nodes : walk.nodes[i].node = walk.nodes[j].node => i = j
    <3>1. CASE walk.phase = "idle"
      <4>1. walk.nodes = <<>>
        BY <3>1 DEF OnceInv
      <4>2. Len(walk.nodes) = 0 /\ DOMAIN walk.nodes = {}
        BY <4>1
      <4>3. QED BY <2>1, <3>1, <4>2
    <3>2. CASE walk.phase # "idle"
      BY <3>2 DEF OnceInv, Once, Apart
    <3>3. QED BY <3>1, <3>2
  <2>6. QED BY <2>2, <2>3, <2>4, <2>5 DEF TypeOK, TrackerInv
<1>4. QED BY <1>1, <1>2, <1>3, PTL DEF Spec

-----------------------------------------------------------------------------
(* Part 2: headers.  The inductive invariant.                              *)

\* What the list of tiers may say of a hop: nothing, or its own agent's tier.
Known(name) == {Unknown} \cup (IF name \in Agents THEN {Declared[name]} ELSE {})

\* A chain, the tiers parallel to it and the agents that recorded it.
Listed(chain, tiers, lineage) ==
    /\ chain \in Seq(Hops) /\ tiers \in Seq(Tiers \cup {Unknown})
    /\ Len(tiers) = Len(chain)
    /\ \A n \in DOMAIN chain :
          /\ tiers[n] \in Known(chain[n].agent)
          /\ chain[n].role = "agent" <=> chain[n].agent \in Agents
    /\ lineage \in SUBSET Agents
    /\ \A b \in lineage : \E n \in DOMAIN chain : chain[n].agent = b

FlowType == [set: BOOLEAN, chain: Seq(Hops), tiers: Seq(Tiers \cup {Unknown}), corr: BOOLEAN,
             inbound: BOOLEAN, lineage: SUBSET Agents, lost: SUBSET Agents]
HeaderType == [chain: Seq(Hops), tiers: Seq(Tiers \cup {Unknown}),
               lineage: SUBSET Agents, lost: SUBSET Agents]

GoodFlow(c) == c \in FlowType /\ Listed(c.chain, c.tiers, c.lineage)
GoodHeaders(h) == h \in HeaderType /\ Listed(h.chain, h.tiers, h.lineage)

\* A call was read whole or stripped, into a context without a flow.
Arrived(t) == \E lost \in SUBSET HeaderNames : ctx[t] = Extracted(NoFlow, intact[t], lost)

ChainInv ==
    /\ ctx \in [Threads -> FlowType]
    /\ phase \in [Threads -> {"idle", "arrived", "open"}]
    /\ intact \in [Threads -> HeaderType]
    /\ \A t \in Threads : /\ GoodFlow(ctx[t]) /\ GoodHeaders(intact[t])
                          /\ phase[t] = "idle" => ctx[t] = NoFlow
                          /\ phase[t] = "arrived" => Arrived(t)

-----------------------------------------------------------------------------
(* The lattice of tiers.                                                   *)

\* A set of tiers has a numeric maximum, the least privileged of them.
LEMMA MaxOfTiers ==
    ASSUME NEW S \in SUBSET Tiers, S # {}
    PROVE  Max(S) \in S /\ \A x \in S : Max(S) >= x
<1>1. \E m \in S : \A x \in S : m >= x
  <2>1. S \subseteq {1, 2, 3, 4}
    BY DEF Tiers
  <2>2. CASE 4 \in S
    BY <2>1, <2>2
  <2>3. CASE 4 \notin S /\ 3 \in S
    BY <2>1, <2>3
  <2>4. CASE 4 \notin S /\ 3 \notin S /\ 2 \in S
    BY <2>1, <2>4
  <2>5. CASE 4 \notin S /\ 3 \notin S /\ 2 \notin S
    <3>1. S = {1}
      BY <2>1, <2>5
    <3>2. QED BY <3>1
  <2>6. QED BY <2>2, <2>3, <2>4, <2>5
<1>2. QED BY <1>1 DEF Max

\* validate_tier gives a tier, and the lowest privilege when there is none.
LEMMA ResolveOf ==
    ASSUME NEW t \in Tiers \cup {Unknown}
    PROVE  Resolve(t) \in Tiers /\ Resolve(Unknown) = 4 /\ Resolve(t) <= 4
BY DEF Resolve, Tiers, Unknown, LowestPrivilege

\* least_privileged_tier is a tier bounded below by its own agent's and by
\* every hop's; one hop of unknown tier brings it to the lowest privilege.
LEMMA LeastPrivilegedOf ==
    ASSUME NEW own \in Tiers \cup {Unknown}, NEW hops \in SUBSET (Tiers \cup {Unknown})
    PROVE  /\ LeastPrivileged(own, hops) \in Tiers
           /\ LeastPrivileged(own, hops) >= Resolve(own)
           /\ \A t \in hops : LeastPrivileged(own, hops) >= Resolve(t)
           /\ Unknown \in hops => LeastPrivileged(own, hops) = 4
<1> DEFINE S == {Resolve(own)} \cup {Resolve(t) : t \in hops}
<1>1. S \in SUBSET Tiers /\ S # {}
  BY ResolveOf
<1>2. Max(S) \in S /\ \A x \in S : Max(S) >= x
  BY <1>1, MaxOfTiers
<1>3. Resolve(Unknown) = 4
  BY ResolveOf DEF Tiers
<1>4. LeastPrivileged(own, hops) = Max(S)
  BY DEF LeastPrivileged
<1>5. \A t \in hops : Resolve(t) \in S
  OBVIOUS
<1>6. Max(S) \in 1..4
  BY <1>1, <1>2 DEF Tiers
<1>7. Unknown \in hops => Max(S) >= 4
  BY <1>2, <1>3, <1>5
<1> HIDE DEF S
<1>8. Resolve(own) \in S
  BY DEF S
<1>9. QED BY <1>2, <1>4, <1>5, <1>6, <1>7, <1>8 DEF Tiers

-----------------------------------------------------------------------------
(* The ceiling of a well-formed flow.                                      *)

\* _aligned_tiers has nothing to align: the lists have the same length.
LEMMA AlignedOf ==
    ASSUME NEW c, GoodFlow(c)
    PROVE  Aligned(c) = c.tiers
<1>1. c.chain \in Seq(Hops) /\ c.tiers \in Seq(Tiers \cup {Unknown}) /\ Len(c.tiers) = Len(c.chain)
  BY DEF GoodFlow, Listed
<1>2. DOMAIN c.chain = 1..Len(c.chain) /\ DOMAIN c.tiers = 1..Len(c.chain)
  BY <1>1
<1>3. Aligned(c) = [n \in 1..Len(c.chain) |-> c.tiers[n]]
  BY <1>2 DEF Aligned
<1>4. QED BY <1>1, <1>2, <1>3

\* The ceiling is a tier, no better than one's own and than the tier of any
\* agent upstream; with an upstream nobody names, or a hop of unknown tier,
\* it is the lowest privilege.
LEMMA CeilingOf ==
    ASSUME NEW c, GoodFlow(c), NEW a \in Agents
    PROVE  /\ Ceiling(c, a) \in Tiers /\ Ceiling(c, a) >= Resolve(Declared[a])
           /\ IsDelegated(c, a) /\ Upstream(c, a) = {} => Ceiling(c, a) = 4
           /\ \A n \in Upstream(c, a) : ~Untiered(c, n) => Ceiling(c, a) >= Resolve(c.tiers[n])
           /\ \A n \in Upstream(c, a) : ~Untiered(c, n) /\ c.tiers[n] = Unknown => Ceiling(c, a) = 4
<1>1. Declared[a] \in Tiers \cup {Unknown}
  BY ChainAssumption
<1>2. HopTiers(c, a) = {c.tiers[n] : n \in {m \in Upstream(c, a) : ~Untiered(c, m)}}
  BY AlignedOf DEF HopTiers
<1>3. \A n \in Upstream(c, a) : c.tiers[n] \in Tiers \cup {Unknown}
  BY DEF Upstream, GoodFlow, Listed
<1>4. HopTiers(c, a) \in SUBSET (Tiers \cup {Unknown})
  BY <1>2, <1>3
<1>5. CASE Upstream(c, a) # {}
  <2>1. IsDelegated(c, a)
    BY <1>5 DEF IsDelegated
  <2>2. Ceiling(c, a) = LeastPrivileged(Declared[a], HopTiers(c, a))
    BY <1>5, <2>1 DEF Ceiling
  <2>3. \A n \in Upstream(c, a) : ~Untiered(c, n) => c.tiers[n] \in HopTiers(c, a)
    BY <1>2
  <2>4. QED BY <1>1, <1>4, <1>5, <2>2, <2>3, LeastPrivilegedOf
<1>6. CASE Upstream(c, a) = {} /\ IsDelegated(c, a)
  <2>1. Ceiling(c, a) = LeastPrivileged(Declared[a], {Unknown})
    BY <1>6 DEF Ceiling
  <2>2. {Unknown} \in SUBSET (Tiers \cup {Unknown})
    OBVIOUS
  <2>3. QED BY <1>1, <1>6, <2>1, <2>2, LeastPrivilegedOf
<1>7. CASE Upstream(c, a) = {} /\ ~IsDelegated(c, a)
  <2>1. Ceiling(c, a) = LeastPrivileged(Declared[a], {})
    BY <1>7 DEF Ceiling
  <2>2. {} \in SUBSET (Tiers \cup {Unknown})
    OBVIOUS
  <2>3. QED BY <1>1, <1>7, <2>1, <2>2, LeastPrivilegedOf
<1>8. QED BY <1>5, <1>6, <1>7

-----------------------------------------------------------------------------
(* Every operation on the context keeps it well-formed.                    *)

\* A cleared context is well-formed and empty.
LEMMA NoFlowGood == GoodFlow(NoFlow) /\ NoFlow.chain = <<>> /\ NoFlow.tiers = <<>> /\ NoFlow.lineage = {}
<1>1. <<>> \in Seq(Hops) /\ <<>> \in Seq(Tiers \cup {Unknown})
  OBVIOUS
<1>2. NoFlow \in FlowType
  BY <1>1 DEF NoFlow, FlowType
<1>3. Listed(<<>>, <<>>, {})
  BY <1>1 DEF Listed
<1>4. QED BY <1>2, <1>3 DEF GoodFlow, NoFlow

\* The headers of no call are well-formed.
LEMMA NoHeadersGood == GoodHeaders(NoHeaders)
<1>1. <<>> \in Seq(Hops) /\ <<>> \in Seq(Tiers \cup {Unknown})
  OBVIOUS
<1>2. NoHeaders \in HeaderType
  BY <1>1 DEF NoHeaders, HeaderType
<1>3. Listed(<<>>, <<>>, {})
  BY <1>1 DEF Listed
<1>4. QED BY <1>2, <1>3 DEF GoodHeaders, NoHeaders

\* begin_flow starts with nobody or with one principal, whose tier is unknown.
LEMMA BegunGood ==
    ASSUME NEW chain \in {<<>>} \cup {<<Hop(p, "principal")>> : p \in Principals}
    PROVE  GoodFlow(Begun(chain))
<1> DEFINE tiers == [n \in DOMAIN chain |-> Unknown]
           c == [NoFlow EXCEPT !.set = TRUE, !.corr = TRUE, !.chain = chain, !.tiers = tiers]
<1>1. Listed(chain, tiers, {})
  <2>1. CASE chain = <<>>
    <3>1. tiers = <<>>
      BY <2>1
    <3>2. QED BY <2>1, <3>1 DEF Listed
  <2>2. ASSUME NEW p \in Principals, chain = <<Hop(p, "principal")>>
        PROVE  Listed(chain, tiers, {})
    <3>1. Hop(p, "principal") \in Hops /\ Hop(p, "principal").agent = p
          /\ Hop(p, "principal").role = "principal" /\ p \notin Agents
      BY ChainAssumption DEF Hop, Hops
    <3>2. chain \in Seq(Hops) /\ Len(chain) = 1 /\ DOMAIN chain = {1} /\ chain[1] = Hop(p, "principal")
      BY <2>2, <3>1
    <3>3. tiers = <<Unknown>>
      BY <3>2
    <3>4. tiers \in Seq(Tiers \cup {Unknown}) /\ Len(tiers) = 1 /\ tiers[1] = Unknown
      BY <3>3
    <3> HIDE DEF tiers
    <3>5. QED BY <3>1, <3>2, <3>4 DEF Listed, Known
  <2>3. QED BY <2>1, <2>2
<1>2. Begun(chain) = c
  BY DEF Begun
<1> HIDE DEF tiers
<1>3. c \in FlowType
  BY <1>1, NoFlowGood DEF GoodFlow, FlowType, Listed
<1>4. c.chain = chain /\ c.tiers = tiers /\ c.lineage = {}
  BY NoFlowGood DEF GoodFlow, FlowType
<1>5. QED BY <1>1, <1>2, <1>3, <1>4 DEF GoodFlow

\* record_hop appends the agent with its tier, or refreshes its own tail.
LEMMA HopRecorded ==
    ASSUME NEW c, GoodFlow(c), NEW a \in Agents
    PROVE  GoodFlow(RecordHop(c, a))
<1>1. /\ c \in FlowType /\ Listed(c.chain, c.tiers, c.lineage)
      /\ c.chain \in Seq(Hops) /\ c.tiers \in Seq(Tiers \cup {Unknown})
      /\ Len(c.tiers) = Len(c.chain) /\ c.lineage \in SUBSET Agents
  BY DEF GoodFlow, Listed
<1>2. Declared[a] \in Tiers \cup {Unknown} /\ Declared[a] \in Known(a)
  BY ChainAssumption DEF Known
<1>3. Hop(a, "agent") \in Hops /\ Hop(a, "agent").agent = a /\ Hop(a, "agent").role = "agent"
  BY DEF Hop, Hops
<1> DEFINE tail == c.chain # <<>> /\ c.chain[Len(c.chain)].agent = a
           chain == IF tail THEN c.chain ELSE Append(c.chain, Hop(a, "agent"))
           tiers == IF ~tail THEN Append(c.tiers, Declared[a])
                    ELSE IF Declared[a] # Unknown THEN [c.tiers EXCEPT ![Len(c.tiers)] = Declared[a]]
                    ELSE c.tiers
           d == [c EXCEPT !.set = TRUE, !.corr = TRUE, !.lineage = c.lineage \cup {a},
                          !.chain = chain, !.tiers = tiers]
<1>4. RecordHop(c, a) = d
  BY AlignedOf DEF RecordHop
<1>5. Listed(chain, tiers, c.lineage \cup {a})
  <2>1. CASE tail
    <3>1. Len(c.chain) > 0 /\ Len(c.chain) \in DOMAIN c.chain /\ c.chain[Len(c.chain)].agent = a
      BY <1>1, <2>1
    <3>2. chain = c.chain
      BY <2>1
    <3>3. /\ tiers \in Seq(Tiers \cup {Unknown}) /\ Len(tiers) = Len(c.tiers)
          /\ \A n \in DOMAIN c.chain : tiers[n] \in Known(c.chain[n].agent)
      <4>1. CASE Declared[a] # Unknown
        <5>1. tiers = [c.tiers EXCEPT ![Len(c.chain)] = Declared[a]]
          BY <1>1, <2>1, <4>1
        <5> HIDE DEF tiers
        <5>2. tiers \in Seq(Tiers \cup {Unknown}) /\ Len(tiers) = Len(c.tiers)
          BY <1>1, <1>2, <3>1, <5>1
        <5>3. \A n \in DOMAIN c.chain : tiers[n] = IF n = Len(c.chain) THEN Declared[a] ELSE c.tiers[n]
          BY <1>1, <5>1
        <5>4. \A n \in DOMAIN c.chain : c.tiers[n] \in Known(c.chain[n].agent)
          BY <1>1 DEF Listed
        <5>5. QED BY <1>2, <3>1, <5>2, <5>3, <5>4
      <4>2. CASE Declared[a] = Unknown
        BY <1>1, <2>1, <4>2 DEF Listed
      <4>3. QED BY <4>1, <4>2
    <3> HIDE DEF chain, tiers, tail
    <3>4. \A b \in c.lineage \cup {a} : \E n \in DOMAIN c.chain : c.chain[n].agent = b
      BY <1>1, <3>1 DEF Listed
    <3>5. QED BY <1>1, <3>2, <3>3, <3>4 DEF Listed
  <2>2. CASE ~tail
    <3>1. chain = Append(c.chain, Hop(a, "agent")) /\ tiers = Append(c.tiers, Declared[a])
      BY <2>2
    <3> HIDE DEF chain, tiers, tail
    <3>2. chain \in Seq(Hops) /\ tiers \in Seq(Tiers \cup {Unknown}) /\ Len(tiers) = Len(chain)
          /\ Len(chain) = Len(c.chain) + 1
      BY <1>1, <1>2, <1>3, <3>1
    <3>3. /\ \A n \in DOMAIN c.chain : chain[n] = c.chain[n] /\ tiers[n] = c.tiers[n]
          /\ chain[Len(c.chain) + 1] = Hop(a, "agent") /\ tiers[Len(c.chain) + 1] = Declared[a]
          /\ DOMAIN chain = DOMAIN c.chain \cup {Len(c.chain) + 1}
      BY <1>1, <1>2, <1>3, <3>1, <3>2
    <3>4. \A n \in DOMAIN chain : /\ tiers[n] \in Known(chain[n].agent)
                                  /\ chain[n].role = "agent" <=> chain[n].agent \in Agents
      BY <1>1, <1>2, <1>3, <3>3 DEF Listed
    <3>5. \A b \in c.lineage \cup {a} : \E n \in DOMAIN chain : chain[n].agent = b
      BY <1>1, <1>3, <3>3 DEF Listed
    <3>6. QED BY <1>1, <3>2, <3>4, <3>5 DEF Listed
  <2>3. QED BY <2>1, <2>2
<1> HIDE DEF chain, tiers, tail
<1>6. d \in FlowType
  <2>1. chain \in Seq(Hops) /\ tiers \in Seq(Tiers \cup {Unknown}) /\ c.lineage \cup {a} \in SUBSET Agents
    BY <1>5 DEF Listed
  <2>2. QED BY <1>1, <2>1 DEF FlowType
<1>7. d.chain = chain /\ d.tiers = tiers /\ d.lineage = c.lineage \cup {a}
  BY <1>1 DEF FlowType
<1>8. QED BY <1>4, <1>5, <1>6, <1>7 DEF GoodFlow

\* inject_context sends lists as well-formed as the context's.
LEMMA HeadersGood ==
    ASSUME NEW c, GoodFlow(c)
    PROVE  GoodHeaders(Headers(c))
<1>1. c \in FlowType
  BY DEF GoodFlow
<1>2. Headers(c) = [chain |-> c.chain, tiers |-> c.tiers, lineage |-> c.lineage, lost |-> c.lost]
  BY AlignedOf DEF Headers
<1>3. QED BY <1>1, <1>2 DEF GoodHeaders, GoodFlow, HeaderType, FlowType

\* Reading headers, whole or stripped, in a context without a flow.
LEMMA ExtractedOf ==
    ASSUME NEW h, GoodHeaders(h), NEW lost \in SUBSET HeaderNames
    PROVE  LET c == Extracted(NoFlow, h, lost)
           IN  /\ GoodFlow(c) /\ c.inbound
               /\ lost \cap {"correlation", "chain"} # {} => c.chain = <<>>
               /\ lost \cap {"correlation", "chain"} = {} =>
                     /\ c.chain = h.chain
                     /\ c.tiers = IF "tiers" \in lost THEN [n \in DOMAIN h.chain |-> Unknown] ELSE h.tiers
<1> DEFINE c == Extracted(NoFlow, h, lost)
<1>1. /\ h \in HeaderType /\ Listed(h.chain, h.tiers, h.lineage)
      /\ h.chain \in Seq(Hops) /\ h.tiers \in Seq(Tiers \cup {Unknown}) /\ Len(h.tiers) = Len(h.chain)
  BY DEF GoodHeaders, Listed
<1>2. CASE "correlation" \in lost
  <2>1. c = [NoFlow EXCEPT !.lost = h.lost \cup h.lineage, !.inbound = TRUE]
    BY <1>2 DEF Extracted, Unread
  <2>2. h.lost \cup h.lineage \in SUBSET Agents
    BY <1>1 DEF HeaderType
  <2> HIDE DEF c
  <2>3. c \in FlowType /\ c.chain = <<>> /\ c.tiers = <<>> /\ c.lineage = {} /\ c.inbound
    BY <2>1, <2>2, NoFlowGood DEF GoodFlow, FlowType
  <2>4. GoodFlow(c)
    BY <2>3, NoFlowGood DEF GoodFlow
  <2>5. QED BY <1>2, <2>3, <2>4 DEF c
<1>3. CASE "correlation" \notin lost
  <2> DEFINE chain == IF "chain" \in lost THEN <<>> ELSE h.chain
             tiers == ReadTiers(h, lost, chain)
             lineage == IF "chain" \in lost THEN {} ELSE h.lineage
             gone == IF "chain" \in lost THEN h.lost \cup h.lineage ELSE h.lost
  <2>1. c = [set |-> TRUE, corr |-> TRUE, inbound |-> TRUE, chain |-> chain, tiers |-> tiers,
             lineage |-> lineage, lost |-> gone]
    BY <1>3 DEF Extracted, ReadHeaders
  <2>2. Listed(chain, tiers, lineage)
    <3>1. CASE "chain" \in lost
      <4>1. chain = <<>> /\ lineage = {}
        BY <3>1
      <4>2. tiers = <<>>
        <5>1. CASE tiers = [n \in DOMAIN chain |-> Unknown]
          BY <4>1, <5>1
        <5>2. CASE tiers = h.tiers /\ Len(h.tiers) = Len(chain)
          BY <1>1, <4>1, <5>2
        <5>3. QED BY <5>1, <5>2 DEF ReadTiers
      <4>3. QED BY <4>1, <4>2, NoFlowGood DEF GoodFlow
    <3>2. CASE "chain" \notin lost
      <4>1. chain = h.chain /\ lineage = h.lineage
        BY <3>2
      <4>2. CASE "tiers" \in lost
        <5>1. tiers = [n \in DOMAIN h.chain |-> Unknown]
          BY <4>1, <4>2 DEF ReadTiers
        <5>2. /\ tiers \in Seq(Tiers \cup {Unknown}) /\ Len(tiers) = Len(h.chain)
              /\ \A n \in DOMAIN h.chain : tiers[n] = Unknown
          BY <1>1, <5>1
        <5> HIDE DEF tiers, chain, lineage
        <5>3. QED BY <1>1, <4>1, <5>2 DEF Listed, Known
      <4>3. CASE "tiers" \notin lost
        <5>1. tiers = h.tiers
          BY <1>1, <4>1, <4>3 DEF ReadTiers
        <5>2. QED BY <1>1, <4>1, <5>1
      <4>4. QED BY <4>2, <4>3
    <3>3. QED BY <3>1, <3>2
  <2>3. gone \in SUBSET Agents
    BY <1>1 DEF HeaderType
  <2>4. "chain" \in lost => chain = <<>>
    OBVIOUS
  <2>5. "chain" \notin lost => /\ chain = h.chain
                              /\ tiers = IF "tiers" \in lost THEN [n \in DOMAIN h.chain |-> Unknown] ELSE h.tiers
    BY <1>1 DEF ReadTiers
  <2> HIDE DEF c, chain, tiers, lineage, gone
  <2>6. c.chain = chain /\ c.tiers = tiers /\ c.lineage = lineage /\ c.inbound
    BY <2>1
  <2>7. c \in FlowType
    BY <2>1, <2>2, <2>3 DEF FlowType, Listed
  <2>8. GoodFlow(c)
    BY <2>2, <2>6, <2>7 DEF GoodFlow
  <2>9. QED BY <1>3, <2>4, <2>5, <2>6, <2>8 DEF c
<1>4. QED BY <1>2, <1>3

\* _resolve_provenance records a hop or leaves the context alone.
LEMMA ProvenancedGood ==
    ASSUME NEW c, GoodFlow(c), NEW a \in Agents
    PROVE  GoodFlow(Provenanced(c, a))
BY HopRecorded DEF Provenanced

\* The mark of a received message leaves the lists alone.
LEMMA MarkedGood ==
    ASSUME NEW c, GoodFlow(c)
    PROVE  GoodFlow([c EXCEPT !.inbound = TRUE])
BY DEF GoodFlow, FlowType

-----------------------------------------------------------------------------
(* The invariant is inductive.                                             *)

\* It holds where no thread has a flow yet.
THEOREM ChainStarts == ChainInit => ChainInv
<1>1. NoFlow \in FlowType /\ NoHeaders \in HeaderType
  BY NoFlowGood, NoHeadersGood DEF GoodFlow, GoodHeaders
<1>2. QED BY <1>1, NoFlowGood, NoHeadersGood DEF ChainInit, ChainInv

\* A step that opens a request in one thread with a well-formed flow.
LEMMA SetGood ==
    ASSUME ChainInv, NEW t \in Threads, NEW c, GoodFlow(c), Set(t, c)
    PROVE  ChainInv'
<1>1. c \in FlowType /\ NoHeaders \in HeaderType
  BY NoHeadersGood DEF GoodFlow, GoodHeaders
<1>2. ctx' \in [Threads -> FlowType] /\ intact' \in [Threads -> HeaderType]
      /\ phase' \in [Threads -> {"idle", "arrived", "open"}]
  BY <1>1 DEF Set, ChainInv
<1>3. /\ ctx'[t] = c /\ phase'[t] = "open" /\ intact'[t] = NoHeaders
      /\ \A u \in Threads \ {t} : ctx'[u] = ctx[u] /\ phase'[u] = phase[u] /\ intact'[u] = intact[u]
  BY DEF Set, ChainInv
<1>4. ASSUME NEW u \in Threads
      PROVE  /\ GoodFlow(ctx[u])' /\ GoodHeaders(intact[u])'
             /\ phase'[u] = "idle" => ctx'[u] = NoFlow
             /\ phase'[u] = "arrived" => Arrived(u)'
  <2>1. CASE u = t
    <3>1. GoodFlow(ctx'[u]) /\ GoodHeaders(intact'[u])
      BY <1>3, <2>1, NoHeadersGood
    <3>2. QED BY <1>3, <2>1, <3>1 DEF GoodFlow, GoodHeaders
  <2>2. CASE u # t
    <3>1. GoodFlow(ctx'[u]) /\ GoodHeaders(intact'[u])
      BY <1>3, <2>2 DEF ChainInv
    <3>2. phase'[u] = "arrived" => Arrived(u)'
      BY <1>3, <2>2 DEF ChainInv, Arrived
    <3>3. QED BY <1>3, <2>2, <3>1, <3>2 DEF GoodFlow, GoodHeaders, ChainInv
  <2>3. QED BY <2>1, <2>2
<1>5. QED BY <1>2, <1>4 DEF ChainInv

\* extract_context: the reader was idle, so it reads into an empty context.
LEMMA ReceiveGood ==
    ASSUME ChainInv, NEW t \in Threads, NEW u \in Threads \ {t}, ReceiveCall(t, u)
    PROVE  ChainInv'
<1> DEFINE h == Headers(ctx[t])
<1>1. PICK lost \in SUBSET HeaderNames : ctx' = [ctx EXCEPT ![u] = Extracted(@, h, lost)]
  BY DEF ReceiveCall
<1>2. ctx[u] = NoFlow /\ GoodHeaders(h)
  BY HeadersGood DEF ReceiveCall, ChainInv
<1> DEFINE c == Extracted(NoFlow, h, lost)
<1>3. GoodFlow(c)
  BY <1>2, ExtractedOf
<1>4. ctx' = [ctx EXCEPT ![u] = c]
  BY <1>1, <1>2
<1> HIDE DEF c
<1>5. c \in FlowType /\ h \in HeaderType
  BY <1>2, <1>3 DEF GoodFlow, GoodHeaders
<1> HIDE DEF h
<1>6. phase' = [phase EXCEPT ![u] = "arrived"] /\ intact' = [intact EXCEPT ![u] = h]
  BY DEF ReceiveCall, h
<1>7. ctx' \in [Threads -> FlowType] /\ intact' \in [Threads -> HeaderType]
      /\ phase' \in [Threads -> {"idle", "arrived", "open"}]
  BY <1>4, <1>5, <1>6 DEF ChainInv
<1>8. /\ ctx'[u] = c /\ phase'[u] = "arrived" /\ intact'[u] = h
      /\ \A w \in Threads \ {u} : ctx'[w] = ctx[w] /\ phase'[w] = phase[w] /\ intact'[w] = intact[w]
  BY <1>4, <1>6 DEF ChainInv
<1>9. ASSUME NEW w \in Threads
      PROVE  /\ GoodFlow(ctx[w])' /\ GoodHeaders(intact[w])'
             /\ phase'[w] = "idle" => ctx'[w] = NoFlow
             /\ phase'[w] = "arrived" => Arrived(w)'
  <2>1. CASE w = u
    <3>1. GoodFlow(ctx'[w]) /\ GoodHeaders(intact'[w])
      BY <1>2, <1>3, <1>8, <2>1
    <3>2. ctx'[w] = Extracted(NoFlow, intact'[w], lost)
      BY <1>8, <2>1 DEF c
    <3>3. Arrived(w)'
      BY <3>2 DEF Arrived
    <3>4. QED BY <1>8, <2>1, <3>1, <3>3 DEF GoodFlow, GoodHeaders
  <2>2. CASE w # u
    <3>1. GoodFlow(ctx'[w]) /\ GoodHeaders(intact'[w])
      BY <1>8, <2>2 DEF ChainInv
    <3>2. phase'[w] = "arrived" => Arrived(w)'
      BY <1>8, <2>2 DEF ChainInv, Arrived
    <3>3. QED BY <1>8, <2>2, <3>1, <3>2 DEF GoodFlow, GoodHeaders, ChainInv
  <2>3. QED BY <2>1, <2>2
<1>10. QED BY <1>7, <1>9 DEF ChainInv

\* The host clears the context of a finished request.
LEMMA FinishGood ==
    ASSUME ChainInv, NEW t \in Threads, Finish(t)
    PROVE  ChainInv'
<1>1. NoFlow \in FlowType /\ NoHeaders \in HeaderType
  BY NoFlowGood, NoHeadersGood DEF GoodFlow, GoodHeaders
<1>2. ctx' \in [Threads -> FlowType] /\ intact' \in [Threads -> HeaderType]
      /\ phase' \in [Threads -> {"idle", "arrived", "open"}]
  BY <1>1 DEF Finish, ChainInv
<1>3. /\ ctx'[t] = NoFlow /\ phase'[t] = "idle" /\ intact'[t] = NoHeaders
      /\ \A u \in Threads \ {t} : ctx'[u] = ctx[u] /\ phase'[u] = phase[u] /\ intact'[u] = intact[u]
  BY DEF Finish, ChainInv
<1>4. ASSUME NEW u \in Threads
      PROVE  /\ GoodFlow(ctx[u])' /\ GoodHeaders(intact[u])'
             /\ phase'[u] = "idle" => ctx'[u] = NoFlow
             /\ phase'[u] = "arrived" => Arrived(u)'
  <2>1. GoodFlow(ctx'[u]) /\ GoodHeaders(intact'[u])
    BY <1>3, NoFlowGood, NoHeadersGood DEF ChainInv
  <2>2. phase'[u] = "arrived" => Arrived(u)'
    BY <1>3 DEF ChainInv, Arrived
  <2>3. phase'[u] = "idle" => ctx'[u] = NoFlow
    BY <1>3 DEF ChainInv
  <2>4. QED BY <2>1, <2>2, <2>3 DEF GoodFlow, GoodHeaders
<1>5. QED BY <1>2, <1>4 DEF ChainInv

\* No step of a request, of a call between threads or of a hand-over to a
\* worker breaks it.
THEOREM ChainSteps == ChainInv /\ [ChainNext]_chainVars => ChainInv'
<1>1. SUFFICES ASSUME ChainInv, [ChainNext]_chainVars PROVE ChainInv'
  OBVIOUS
<1>2. CASE UNCHANGED chainVars
  BY <1>1, <1>2 DEF chainVars, ChainInv, GoodFlow, GoodHeaders, Arrived
<1>3. ASSUME NEW t \in Threads, BeginFlow(t) PROVE ChainInv'
  BY <1>1, <1>3, BegunGood, SetGood DEF BeginFlow
<1>4. ASSUME NEW t \in Threads, BeginBare(t) PROVE ChainInv'
  BY <1>1, <1>4, SetGood DEF BeginBare, ChainInv
<1>5. ASSUME NEW t \in Threads, MarkInbound(t) PROVE ChainInv'
  BY <1>1, <1>5, MarkedGood, SetGood DEF MarkInbound, ChainInv
<1>6. ASSUME NEW t \in Threads, NEW a \in Agents, Scan(t, a) PROVE ChainInv'
  BY <1>1, <1>6, ProvenancedGood, SetGood DEF Scan, ChainInv
<1>7. ASSUME NEW t \in Threads, NEW u \in Threads \ {t}, Spawn(t, u) PROVE ChainInv'
  BY <1>1, <1>7, SetGood DEF Spawn, ChainInv
<1>8. QED
  BY <1>1, <1>2, <1>3, <1>4, <1>5, <1>6, <1>7, ReceiveGood, FinishGood DEF ChainNext

\* Every context and every call's headers are well-formed in every behaviour.
THEOREM ChainHolds == ChainSpec => []ChainInv
BY ChainStarts, ChainSteps, PTL DEF ChainSpec

-----------------------------------------------------------------------------
(* The properties.                                                         *)

\* No hop ever carries the tier of another agent: record_hop, the headers
\* and their loss keep the two lists in step.
THEOREM TiersTruthful == ChainSpec => []TiersAreTruthful
<1>1. ChainInv => TiersAreTruthful
  BY DEF ChainInv, GoodFlow, Listed, Known, TiersAreTruthful
<1>2. QED BY <1>1, ChainHolds, PTL

\* An origin of low privilege cannot be laundered by a middle hop of high
\* privilege: every agent of the lineage is in the chain, so it is upstream
\* of the one that acts, and the numeric maximum of the ceiling includes it.
THEOREM NotLaundered == ChainSpec => []OriginNotLaundered
<1>1. ASSUME ChainInv, NEW t \in Threads, NEW a \in Hosts[t], NEW b \in ctx[t].lineage
      PROVE  Ceiling(ctx[t], a) >= Resolve(Declared[b])
  <2> DEFINE c == ctx[t]
  <2>1. GoodFlow(c) /\ a \in Agents /\ b \in Agents
    BY <1>1, ChainAssumption DEF ChainInv, GoodFlow, Listed
  <2>2. CASE b = a
    BY <2>1, <2>2, CeilingOf
  <2>3. CASE b # a
    <3>1. PICK n \in DOMAIN c.chain : c.chain[n].agent = b
      BY <2>1 DEF GoodFlow, Listed
    <3>2. n \in Upstream(c, a) /\ ~Untiered(c, n) /\ c.tiers[n] \in {Unknown, Declared[b]}
      BY <2>1, <2>3, <3>1 DEF Upstream, Untiered, GoodFlow, Listed, Known
    <3>3. Ceiling(c, a) \in Tiers /\ Ceiling(c, a) >= Resolve(c.tiers[n])
          /\ (c.tiers[n] = Unknown => Ceiling(c, a) = 4)
      BY <2>1, <3>2, CeilingOf
    <3>4. Declared[b] \in Tiers \cup {Unknown}
      BY <2>1, ChainAssumption
    <3>5. Resolve(Declared[b]) \in Tiers /\ Resolve(Declared[b]) <= 4
      BY <3>4, ResolveOf
    <3>6. QED BY <3>2, <3>3, <3>5 DEF Tiers
  <2>4. QED BY <2>2, <2>3
<1>2. ChainInv => OriginNotLaundered
  BY <1>1 DEF OriginNotLaundered
<1>3. QED BY <1>2, ChainHolds, PTL

\* Stripping headers from a call never loosens the ceiling of its reader.
LEMMA Stripping ==
    ASSUME NEW h, GoodHeaders(h), NEW lost \in SUBSET HeaderNames, NEW a \in Agents
    PROVE  Ceiling(Extracted(NoFlow, h, lost), a) >= Ceiling(Extracted(NoFlow, h, {}), a)
<1> DEFINE c == Extracted(NoFlow, h, lost)
           w == Extracted(NoFlow, h, {})
<1>1. {} \in SUBSET HeaderNames
  OBVIOUS
<1>2. GoodFlow(c) /\ c.inbound /\ GoodFlow(w) /\ w.inbound /\ w.chain = h.chain /\ w.tiers = h.tiers
  BY <1>1, ExtractedOf
<1>3. /\ lost \cap {"correlation", "chain"} # {} => c.chain = <<>>
      /\ lost \cap {"correlation", "chain"} = {} =>
            /\ c.chain = h.chain
            /\ c.tiers = IF "tiers" \in lost THEN [n \in DOMAIN h.chain |-> Unknown] ELSE h.tiers
  BY ExtractedOf
<1> HIDE DEF c, w
<1>4. Ceiling(c, a) \in Tiers /\ Ceiling(w, a) \in Tiers
  BY <1>2, CeilingOf
<1>5. CASE lost \cap {"correlation", "chain"} # {}
  <2>1. IsDelegated(c, a) /\ Upstream(c, a) = {}
    BY <1>2, <1>3, <1>5 DEF IsDelegated, Upstream
  <2>2. Ceiling(c, a) = 4
    BY <1>2, <2>1, CeilingOf
  <2>3. QED BY <1>4, <2>2 DEF Tiers, c, w
<1>6. CASE lost \cap {"correlation", "chain"} = {} /\ "tiers" \notin lost
  <2>1. Ceiling(c, a) = Ceiling(w, a)
    BY <1>2, <1>3, <1>6 DEF Ceiling, IsDelegated, Upstream, HopTiers, Untiered, Aligned
  <2>2. QED BY <1>4, <2>1 DEF Tiers, c, w
<1>7. CASE lost \cap {"correlation", "chain"} = {} /\ "tiers" \in lost
  <2>1. c.chain = w.chain /\ \A n \in DOMAIN c.chain : c.tiers[n] = Unknown
    BY <1>2, <1>3, <1>7
  <2>2. Upstream(c, a) = Upstream(w, a) /\ IsDelegated(c, a) /\ IsDelegated(w, a)
    BY <1>2, <2>1 DEF Upstream, IsDelegated
  <2>3. CASE Upstream(c, a) = {}
    <3>1. Ceiling(c, a) = 4
      BY <1>2, <2>2, <2>3, CeilingOf
    <3>2. QED BY <1>4, <3>1 DEF Tiers, c, w
  <2>4. CASE \E n \in Upstream(c, a) : ~Untiered(c, n)
    <3>1. Ceiling(c, a) = 4
      BY <1>2, <2>1, <2>4, CeilingOf DEF Upstream
    <3>2. QED BY <1>4, <3>1 DEF Tiers, c, w
  <2>5. CASE Upstream(c, a) # {} /\ \A n \in Upstream(c, a) : Untiered(c, n)
    <3>1. \A n \in Upstream(w, a) : Untiered(w, n)
      <4>1. ASSUME NEW n \in Upstream(w, a)
            PROVE  Untiered(w, n)
        <5>1. n = 1 /\ w.chain[n].role = "principal" /\ n \in DOMAIN w.chain
          BY <2>1, <2>2, <2>5 DEF Untiered, Upstream
        <5>2. w.tiers[n] = Unknown
          BY <1>2, <5>1 DEF GoodFlow, Listed, Known
        <5>3. Aligned(w)[n] = Unknown
          BY <1>2, <5>2, AlignedOf
        <5>4. QED BY <5>1, <5>3 DEF Untiered
      <4>2. QED BY <4>1
    <3>2. HopTiers(c, a) = {} /\ HopTiers(w, a) = {}
      BY <2>5, <3>1 DEF HopTiers
    <3>3. Ceiling(c, a) = Ceiling(w, a)
      BY <2>2, <3>2 DEF Ceiling
    <3>4. QED BY <1>4, <3>3 DEF Tiers, c, w
  <2>6. QED BY <2>3, <2>4, <2>5
<1>8. QED BY <1>5, <1>6, <1>7

\* Whatever headers a call loses, its reader's ceiling is at least the one
\* the whole headers would have given, by the lemma and what ChainInv says of a
\* thread that has just read a call.
THEOREM NeverLoosens == ChainSpec => []StrippedNeverLoosens
<1>1. ASSUME ChainInv, NEW t \in Threads, phase[t] = "arrived", NEW a \in Hosts[t]
      PROVE  Ceiling(ctx[t], a) >= Ceiling(Extracted(NoFlow, intact[t], {}), a)
  <2>1. GoodHeaders(intact[t]) /\ Arrived(t) /\ a \in Agents
    BY <1>1, ChainAssumption DEF ChainInv
  <2>2. QED BY <2>1, Stripping DEF Arrived
<1>2. ChainInv => StrippedNeverLoosens
  BY <1>1 DEF StrippedNeverLoosens
<1>3. QED BY <1>2, ChainHolds, PTL
================================================================================
