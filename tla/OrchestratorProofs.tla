------------------------- MODULE OrchestratorProofs -------------------------
(***************************************************************************)
(* Theorems about Orchestrator, for every set of requests, contexts,       *)
(* addresses and policies and every value of the caps. First what the      *)
(* operators of the morph store return; then the types, the budget of a    *)
(* run, what an engagement leaves behind, the idempotence of signals, how  *)
(* an engagement ends, the life cycle it implements and what an eviction   *)
(* takes; and what the limiter in front of its tool calls lets through.    *)
(***************************************************************************)
EXTENDS Orchestrator, TokenBucket, FiniteSetTheorems, ListProofs

-----------------------------------------------------------------------------
(* The morph store *)

\* The empty store is a store and tracks nothing (a fresh dict, `clear`).
LEMMA EmptyStoreFacts ==
  /\ EmptyStore \in Stores
  /\ Keys(EmptyStore) = {}
BY DEF EmptyStore, Stores, Keys

\* `add` and `save` keep the store well formed.
LEMMA PutType ==
  ASSUME NEW s \in Stores, NEW i, NEW m \in Morph
  PROVE  Put(s, i, m) \in Stores
  <1> DEFINE new == i \notin Keys(s)
             c == [s.ctx EXCEPT ![i] = m]
             o == IF new THEN [s.since EXCEPT ![i] = s.clock + 1] ELSE s.since
             k == IF new THEN s.clock + 1 ELSE s.clock
  <1>1. s.ctx \in [Ids -> Morph \cup {None}] /\ s.since \in [Ids -> Nat] /\ s.clock \in Nat
    BY DEF Stores
  <1>2. c \in [Ids -> Morph \cup {None}]
    BY <1>1
  <1>3. o \in [Ids -> Nat] /\ k \in Nat
    <2>1. [s.since EXCEPT ![i] = s.clock + 1] \in [Ids -> Nat] /\ s.clock + 1 \in Nat
      <3>1. \A n \in Nat : [s.since EXCEPT ![i] = n] \in [Ids -> Nat]
        BY <1>1
      <3>2. s.clock + 1 \in Nat
        BY <1>1
      <3>3. QED
        BY <3>1, <3>2
    <2>2. CASE new
      BY <2>1, <2>2
    <2>3. CASE ~new
      BY <1>1, <2>3
    <2>4. QED
      BY <2>2, <2>3
  <1>4. Put(s, i, m) = [ctx |-> c, since |-> o, clock |-> k]
    BY DEF Put
  <1> HIDE DEF c, o, k, new
  <1>5. QED
    BY <1>2, <1>3, <1>4 DEF Stores

\* `add` and `save` bind the id to the context and leave the other entries alone.
LEMMA PutFacts ==
  ASSUME NEW s \in Stores, NEW i \in Ids, NEW m \in Morph
  PROVE  /\ Put(s, i, m).ctx[i] = m
         /\ \A j \in Ids \ {i} : Put(s, i, m).ctx[j] = s.ctx[j]
         /\ Keys(Put(s, i, m)) = Keys(s) \cup {i}
  <1>1. Put(s, i, m).ctx = [s.ctx EXCEPT ![i] = m]
    BY DEF Put
  <1>2. Keys(Put(s, i, m)) = Keys(s) \cup {i}
    BY <1>1, NoneAssumption DEF Keys, Stores
  <1>3. QED
    BY <1>1, <1>2 DEF Stores

\* Eviction keeps the store well formed and what is left is as it was.
LEMMA EvictFacts ==
  ASSUME NEW s \in Stores, NEW max \in Nat, NEW terminal
  PROVE  /\ evict_terminal(s, max, terminal) \in Stores
         /\ Keys(evict_terminal(s, max, terminal)) \subseteq Keys(s)
         /\ \A i \in Keys(s) :
              s.ctx[i] \notin terminal =>
                evict_terminal(s, max, terminal).ctx[i] = s.ctx[i]
  <1> DEFINE e == evict_terminal(s, max, terminal)
             gone == Evicted(s, max, terminal)
  <1>1. gone \subseteq {i \in Keys(s) : s.ctx[i] \in terminal}
    BY DEF Evicted
  <1>2. /\ e.ctx = [i \in Ids |-> IF i \in gone THEN None ELSE s.ctx[i]]
        /\ e.since = [i \in Ids |-> IF i \in gone THEN 0 ELSE s.since[i]]
        /\ e = [ctx |-> e.ctx, since |-> e.since, clock |-> s.clock]
    BY DEF evict_terminal
  <1> HIDE DEF e, gone
  <1>3. e \in Stores
    <2>1. /\ s.ctx \in [Ids -> Morph \cup {None}]
          /\ s.since \in [Ids -> Nat]
          /\ s.clock \in Nat
      BY DEF Stores
    <2>2. e.ctx \in [Ids -> Morph \cup {None}] /\ e.since \in [Ids -> Nat]
      BY <1>2, <2>1
    <2>3. QED
      BY <1>2, <2>1, <2>2 DEF Stores
  <1>4. Keys(e) \subseteq Keys(s)
    BY <1>2 DEF Keys
  <1>5. \A i \in Keys(s) : s.ctx[i] \notin terminal => e.ctx[i] = s.ctx[i]
    BY <1>1, <1>2 DEF Keys
  <1>6. QED
    BY <1>3, <1>4, <1>5 DEF e

\* A store never tracks more than all the request ids.
LEMMA KeysBound ==
  ASSUME NEW s \in Stores, IsFiniteSet(Ids)
  PROVE  /\ Cardinality(Keys(s)) \in Nat
         /\ Cardinality(Keys(s)) <= Cardinality(Ids)
         /\ Cardinality(Ids) \in Nat
  <1>1. Keys(s) \subseteq Ids
    BY DEF Keys
  <1>2. QED
    BY <1>1, FS_Subset, FS_CardinalityType

-----------------------------------------------------------------------------
(* The loop of evict_terminal *)

\* Entries have different insertion numbers, up to the clock.
Numbered(s) ==
  \A i \in Keys(s) :
    /\ s.since[i] \in 1..s.clock
    /\ \A j \in Keys(s) : s.since[i] = s.since[j] => i = j

\* keys are those of the store, in the order of their insertion.
InOrder(s, keys) ==
  /\ \A n \in 1..Len(keys) : keys[n] \in Keys(s)
  /\ \A i \in Keys(s) : \E n \in 1..Len(keys) : keys[n] = i
  /\ \A n \in 1..Len(keys) : \A m \in 1..(n - 1) : s.since[keys[m]] < s.since[keys[n]]

\* `add`, `save` and evict_terminal keep them so.
LEMMA PutNumbered ==
  ASSUME NEW s \in Stores, Numbered(s), NEW i \in Ids, NEW m \in Morph
  PROVE  Numbered(Put(s, i, m))
<1> DEFINE p == Put(s, i, m)
<1>0. /\ s.since \in [Ids -> Nat] /\ s.clock \in Nat /\ s.ctx \in [Ids -> Morph \cup {None}]
      /\ Keys(s) \subseteq Ids
  BY DEF Stores, Keys
<1>1. Keys(p) = Keys(s) \cup {i}
  <2>1. p.ctx = [s.ctx EXCEPT ![i] = m]
    BY DEF Put
  <2> QED BY <2>1, <1>0, NoneAssumption DEF Keys
<1>2. CASE i \in Keys(s)
  <2>1. p.since = s.since /\ p.clock = s.clock
    BY <1>2 DEF Put
  <2> QED BY <1>1, <1>2, <2>1 DEF Numbered
<1>3. CASE i \notin Keys(s)
  <2>1. p.since = [s.since EXCEPT ![i] = s.clock + 1] /\ p.clock = s.clock + 1
    BY <1>3 DEF Put
  <2>2. p.since[i] = s.clock + 1 /\ \A j \in Keys(s) : p.since[j] = s.since[j]
    BY <1>0, <1>3, <2>1
  <2>3. \A j \in Keys(s) : s.since[j] \in 1..s.clock
    BY DEF Numbered
  <2>4. /\ p.since[i] \in 1..p.clock
        /\ \A j \in Keys(s) : p.since[j] \in 1..p.clock /\ p.since[j] # p.since[i]
    BY <1>0, <2>1, <2>2, <2>3
  <2> HIDE DEF p
  <2>5. \A j \in Keys(s), k \in Keys(s) : p.since[j] = p.since[k] => j = k
    BY <2>2 DEF Numbered
  <2>6. \A j \in Keys(p) : j = i \/ j \in Keys(s)
    BY <1>1
  <2>7. ASSUME NEW j \in Keys(p), NEW k \in Keys(p), p.since[j] = p.since[k] PROVE j = k
    <3>1. CASE j \in Keys(s) /\ k \in Keys(s)
      BY <2>5, <2>7, <3>1
    <3>2. CASE j = i \/ k = i
      BY <2>4, <2>6, <2>7, <3>2
    <3> QED BY <2>6, <3>1, <3>2
  <2>8. \A j \in Keys(p) : p.since[j] \in 1..p.clock
    BY <2>4, <2>6
  <2>9. Numbered(p)
    BY <2>7, <2>8 DEF Numbered
  <2> QED BY <2>9 DEF p
<1> QED BY <1>2, <1>3

LEMMA EvictNumbered ==
  ASSUME NEW s \in Stores, Numbered(s), NEW max, NEW terminal
  PROVE  Numbered(evict_terminal(s, max, terminal))
<1> DEFINE gone == Evicted(s, max, terminal)
           e == evict_terminal(s, max, terminal)
<1>1. /\ e.ctx = [i \in Ids |-> IF i \in gone THEN None ELSE s.ctx[i]]
      /\ e.since = [i \in Ids |-> IF i \in gone THEN 0 ELSE s.since[i]]
      /\ e.clock = s.clock
  BY DEF evict_terminal
<1> HIDE DEF e, gone
<1>2. \A i \in Keys(e) : i \in Keys(s) /\ e.since[i] = s.since[i]
  BY <1>1 DEF Keys
<1> QED BY <1>1, <1>2 DEF Numbered, e

\* Such a store has its keys in an order: those inserted up to n, for every n.
LEMMA OrderExists ==
  ASSUME NEW s \in Stores, Numbered(s)
  PROVE  \E keys \in Seq(Ids) : InOrder(s, keys)
<1> DEFINE Upto(n, keys) ==
             /\ \A k \in 1..Len(keys) : keys[k] \in Keys(s) /\ s.since[keys[k]] <= n
             /\ \A i \in Keys(s) : s.since[i] <= n => \E k \in 1..Len(keys) : keys[k] = i
             /\ \A k \in 1..Len(keys) : \A m \in 1..(k - 1) :
                  s.since[keys[m]] < s.since[keys[k]]
           T == {n \in Nat : ~ \E keys \in Seq(Ids) : Upto(n, keys)}
<1>0. /\ s.since \in [Ids -> Nat] /\ s.clock \in Nat /\ Keys(s) \subseteq Ids
  BY DEF Stores, Keys
<1>1. T = {}
  <2> SUFFICES ASSUME T # {} PROVE FALSE
    OBVIOUS
  <2>1. PICK n \in T : \A m \in T : n <= m
    <3>1. T \in SUBSET Nat
      OBVIOUS
    <3> HIDE DEF T
    <3> QED BY <3>1, LeastNumber
  <2>2. n # 0
    <3>1. PICK none \in Seq(Ids) : Len(none) = 0
      BY EmptySeq
    <3>2. \A i \in Keys(s) : ~(s.since[i] <= 0)
      BY <1>0 DEF Numbered
    <3>3. 1..Len(none) = {}
      BY <3>1
    <3>4. Upto(0, none)
      BY <3>2, <3>3
    <3> HIDE DEF Upto
    <3> QED BY <2>1, <3>4
  <2>3. n \in Nat /\ n - 1 \in Nat /\ n - 1 \notin T
    <3>1. n \in Nat
      OBVIOUS
    <3> HIDE DEF T
    <3> QED BY <2>1, <2>2, <3>1
  <2>4. PICK keys \in Seq(Ids) : Upto(n - 1, keys)
    <3> HIDE DEF Upto
    <3> QED BY <2>3
  <2>5. CASE \E i \in Keys(s) : s.since[i] = n
    <3>1. PICK i \in Keys(s) : s.since[i] = n
      BY <2>5
    <3> DEFINE more == Append(keys, i)
    <3>2. /\ more \in Seq(Ids) /\ Len(more) = Len(keys) + 1 /\ more[Len(keys) + 1] = i
          /\ \A k \in 1..Len(keys) : more[k] = keys[k]
      BY <1>0, <3>1, AppendProperties
    <3>3. Len(keys) \in Nat
      BY LenProperties
    <3> HIDE DEF more
    <3>4. ASSUME NEW k \in 1..Len(more)
          PROVE  /\ more[k] \in Keys(s) /\ s.since[more[k]] <= n
                 /\ \A m \in 1..(k - 1) : s.since[more[m]] < s.since[more[k]]
      <4>1. CASE k \in 1..Len(keys)
        <5>1. \A m \in 1..(k - 1) : m \in 1..Len(keys)
          BY <3>3, <4>1
        <5>2. more[k] = keys[k] /\ keys[k] \in Keys(s) /\ s.since[keys[k]] <= n - 1
          BY <2>4, <3>2, <4>1
        <5>3. s.since[keys[k]] \in Nat
          BY <1>0, <5>2
        <5>4. s.since[more[k]] <= n
          BY <2>3, <5>2, <5>3
        <5>5. \A m \in 1..(k - 1) : s.since[keys[m]] < s.since[keys[k]]
          BY <2>4, <4>1
        <5> QED BY <3>2, <5>1, <5>2, <5>4, <5>5
      <4>2. CASE k = Len(keys) + 1
        <5>1. \A m \in 1..(k - 1) : m \in 1..Len(keys)
          BY <3>3, <4>2
        <5>2. \A m \in 1..Len(keys) :
                more[m] = keys[m] /\ s.since[keys[m]] \in Nat /\ s.since[keys[m]] <= n - 1
          BY <1>0, <2>4, <3>2
        <5> HIDE DEF Upto
        <5>3. \A m \in 1..Len(keys) : s.since[more[m]] < n
          BY <2>3, <5>2
        <5>4. more[k] = i
          BY <3>2, <4>2
        <5> QED BY <2>3, <3>1, <5>1, <5>3, <5>4
      <4> QED BY <3>2, <3>3, <4>1, <4>2
    <3>5. ASSUME NEW j \in Keys(s), s.since[j] <= n
          PROVE  \E k \in 1..Len(more) : more[k] = j
      <4>1. CASE s.since[j] <= n - 1
        <5>1. PICK k \in 1..Len(keys) : keys[k] = j
          BY <2>4, <4>1
        <5>2. k \in 1..Len(more)
          BY <3>2, <3>3
        <5> QED BY <3>2, <5>1, <5>2
      <4>2. CASE ~(s.since[j] <= n - 1)
        <5>1. s.since[j] = n
          BY <1>0, <2>3, <3>5, <4>2
        <5>2. j = i
          BY <3>1, <5>1 DEF Numbered
        <5>3. Len(keys) + 1 \in 1..Len(more)
          BY <3>2, <3>3
        <5> QED BY <3>2, <5>2, <5>3
      <4> QED BY <4>1, <4>2
    <3>6. Upto(n, more)
      BY <3>4, <3>5
    <3> HIDE DEF Upto
    <3> QED BY <2>1, <3>2, <3>6
  <2>6. CASE ~ \E i \in Keys(s) : s.since[i] = n
    <3>1. \A k \in 1..Len(keys) : keys[k] \in Keys(s) /\ s.since[keys[k]] <= n
      <4> SUFFICES ASSUME NEW k \in 1..Len(keys)
                   PROVE  keys[k] \in Keys(s) /\ s.since[keys[k]] <= n
        OBVIOUS
      <4>1. keys[k] \in Keys(s) /\ s.since[keys[k]] <= n - 1
        BY <2>4
      <4>2. s.since[keys[k]] \in Nat
        BY <1>0, <4>1
      <4> HIDE DEF Upto
      <4> QED BY <2>3, <4>1, <4>2
    <3>2. \A i \in Keys(s) : s.since[i] <= n => s.since[i] <= n - 1
      BY <1>0, <2>3, <2>6
    <3>3. Upto(n, keys)
      BY <2>4, <3>1, <3>2
    <3> HIDE DEF Upto
    <3> QED BY <2>1, <3>3
  <2> QED BY <2>5, <2>6
<1>2. PICK keys \in Seq(Ids) : Upto(s.clock, keys)
  <2> HIDE DEF Upto
  <2> QED BY <1>0, <1>1
<1>3. \A i \in Keys(s) : s.since[i] <= s.clock
  BY <1>0 DEF Numbered
<1>4. InOrder(s, keys)
  BY <1>2, <1>3 DEF InOrder
<1> QED BY <1>4

\* Of the first n keys: those that may go, and those that do.
Candidates(s, terminal, keys, n) ==
  {i \in Keys(s) : s.ctx[i] \in terminal /\ \E k \in 1..n : keys[k] = i}

Goes(s, max, terminal, keys, n) ==
  {i \in Evicted(s, max, terminal) : \E k \in 1..n : keys[k] = i}

\* The number of keys left behind them.
LeftAfter(s, max, terminal, keys, n) ==
  Cardinality(Keys(s) \ Goes(s, max, terminal, keys, n))

\* A key goes when too few that may go are before it in the list.
LEMMA GoesWhenFew ==
  ASSUME NEW s \in Stores, NEW max \in Nat, NEW terminal, NEW keys \in Seq(Ids),
         InOrder(s, keys), NEW n \in 1..Len(keys)
  PROVE  keys[n] \in Evicted(s, max, terminal) <=>
           /\ s.ctx[keys[n]] \in terminal
           /\ max + Cardinality(Candidates(s, terminal, keys, n - 1)) < Cardinality(Keys(s))
<1> DEFINE older == {j \in {i \in Keys(s) : s.ctx[i] \in terminal} :
                       s.since[j] < s.since[keys[n]]}
<1>0. s.since \in [Ids -> Nat] /\ Keys(s) \subseteq Ids /\ Len(keys) \in Nat /\ n \in Nat
  BY LenProperties DEF Stores, Keys
<1>1. keys[n] \in Keys(s)
  BY DEF InOrder
<1>2. ASSUME NEW j \in Keys(s)
      PROVE  s.since[j] < s.since[keys[n]] <=> \E k \in 1..(n - 1) : keys[k] = j
  <2>1. PICK k \in 1..Len(keys) : keys[k] = j
    BY DEF InOrder
  <2>2. \A a \in 1..Len(keys) : \A b \in 1..(a - 1) : s.since[keys[b]] < s.since[keys[a]]
    BY DEF InOrder
  <2>3. CASE k \in 1..(n - 1)
    BY <2>1, <2>2, <2>3
  <2>4. CASE k = n
    <3>1. ~(s.since[j] < s.since[keys[n]])
      BY <1>0, <1>1, <2>1, <2>4
    <3>2. \A b \in 1..(n - 1) : keys[b] # j
      BY <2>1, <2>2, <2>4, <3>1
    <3> QED BY <3>1, <3>2
  <2>5. CASE k > n
    <3>1. n \in 1..(k - 1)
      BY <1>0, <2>5
    <3>2. s.since[keys[n]] < s.since[j]
      BY <2>1, <2>2, <3>1
    <3>3. \A b \in 1..(n - 1) : s.since[keys[b]] < s.since[keys[n]]
      BY <2>2
    <3>4. s.since[j] \in Nat /\ s.since[keys[n]] \in Nat
      BY <1>0, <1>1
    <3>5. ~(s.since[j] < s.since[keys[n]])
      BY <3>2, <3>4
    <3> QED BY <3>3, <3>5
  <2> QED BY <1>0, <2>1, <2>3, <2>4, <2>5
<1>3. older = Candidates(s, terminal, keys, n - 1)
  BY <1>2 DEF Candidates
<1>4. keys[n] \in Evicted(s, max, terminal) <=>
        s.ctx[keys[n]] \in terminal /\ max + Cardinality(older) < Cardinality(Keys(s))
  BY <1>1 DEF Evicted
<1> QED BY <1>3, <1>4

\* What goes may go; the sets are finite.
LEMMA GoesFacts ==
  ASSUME NEW s \in Stores, NEW max \in Nat, NEW terminal, NEW keys \in Seq(Ids),
         InOrder(s, keys), NEW n \in 0..Len(keys)
  PROVE  /\ Goes(s, max, terminal, keys, n) \subseteq Candidates(s, terminal, keys, n)
         /\ Candidates(s, terminal, keys, n) \subseteq Keys(s)
         /\ IsFiniteSet(Candidates(s, terminal, keys, n))
         /\ IsFiniteSet(Goes(s, max, terminal, keys, n))
         /\ Cardinality(Keys(s)) \in Nat
         /\ Cardinality(Candidates(s, terminal, keys, n)) \in Nat
         /\ Cardinality(Goes(s, max, terminal, keys, n)) \in Nat
         /\ Cardinality(Goes(s, max, terminal, keys, n))
              <= Cardinality(Candidates(s, terminal, keys, n))
         /\ LeftAfter(s, max, terminal, keys, n) =
              Cardinality(Keys(s)) - Cardinality(Goes(s, max, terminal, keys, n))
<1> DEFINE K == Keys(s)
           C == Candidates(s, terminal, keys, n)
           G == Goes(s, max, terminal, keys, n)
<1>1. G \subseteq C /\ C \subseteq K
  BY DEF Goes, Evicted, Candidates
<1>2. IsFiniteSet(K)
  <2>1. keys \in Seq(K)
    BY ElementOfSeq, IsASeq DEF InOrder
  <2> QED BY <2>1 DEF IsFiniteSet, InOrder
<1> HIDE DEF K, C, G
<1>3. IsFiniteSet(C) /\ Cardinality(K) \in Nat /\ Cardinality(C) \in Nat
  BY <1>1, <1>2, FS_Subset, FS_CardinalityType
<1>4. IsFiniteSet(G) /\ Cardinality(G) \in Nat /\ Cardinality(G) <= Cardinality(C)
  BY <1>1, <1>3, FS_Subset, FS_CardinalityType
<1>5. Cardinality(K \ G) = Cardinality(K) - Cardinality(G)
  <2>1. K \cap G = G
    BY <1>1
  <2> QED BY <1>2, <2>1, FS_Difference
<1> QED BY <1>1, <1>3, <1>4, <1>5 DEF K, C, G, LeftAfter

\* Either all that may go have gone, or enough have.
HaveGone(s, max, terminal, keys, n) ==
  \/ Goes(s, max, terminal, keys, n) = Candidates(s, terminal, keys, n)
  \/ Cardinality(Keys(s)) <= max + Cardinality(Goes(s, max, terminal, keys, n))

\* One key more.
LEMMA OneMore ==
  ASSUME NEW s \in Stores, NEW max \in Nat, NEW terminal, NEW keys \in Seq(Ids),
         InOrder(s, keys), NEW n \in 1..Len(keys)
  PROVE  /\ keys[n] \in Keys(s)
         /\ Candidates(s, terminal, keys, n) =
              IF s.ctx[keys[n]] \in terminal
              THEN Candidates(s, terminal, keys, n - 1) \cup {keys[n]}
              ELSE Candidates(s, terminal, keys, n - 1)
         /\ Goes(s, max, terminal, keys, n) =
              IF keys[n] \in Evicted(s, max, terminal)
              THEN Goes(s, max, terminal, keys, n - 1) \cup {keys[n]}
              ELSE Goes(s, max, terminal, keys, n - 1)
<1>1. keys[n] \in Keys(s)
  BY DEF InOrder
<1>2. \A i : (\E k \in 1..n : keys[k] = i) <=> keys[n] = i \/ \E k \in 1..(n - 1) : keys[k] = i
  <2>1. \A k : k \in 1..n <=> k = n \/ k \in 1..(n - 1)
    BY LenProperties
  <2> QED BY <2>1, Zenon
<1>3. CASE s.ctx[keys[n]] \in terminal
  BY <1>1, <1>2, <1>3 DEF Candidates, Goes
<1>4. CASE s.ctx[keys[n]] \notin terminal
  <2>1. keys[n] \notin Evicted(s, max, terminal)
    BY <1>4 DEF Evicted
  <2> QED BY <1>1, <1>2, <1>4, <2>1 DEF Candidates, Goes
<1> QED BY <1>3, <1>4

\* After every turn of the loop.
LEMMA GoneInTime ==
  ASSUME NEW s \in Stores, NEW max \in Nat, NEW terminal, NEW keys \in Seq(Ids),
         InOrder(s, keys)
  PROVE  \A n \in 0..Len(keys) : HaveGone(s, max, terminal, keys, n)
<1> DEFINE T == {n \in 0..Len(keys) : ~HaveGone(s, max, terminal, keys, n)}
           C(n) == Candidates(s, terminal, keys, n)
           G(n) == Goes(s, max, terminal, keys, n)
<1> SUFFICES ASSUME T # {} PROVE FALSE
  OBVIOUS
<1>0. Len(keys) \in Nat
  BY LenProperties
<1>1. PICK n \in T : \A m \in T : n <= m
  <2>1. T \in SUBSET Nat
    BY <1>0
  <2> HIDE DEF T
  <2> QED BY <2>1, LeastNumber
<1>2. n # 0
  <2>1. C(0) = {} /\ G(0) = {}
    BY DEF Candidates, Goes
  <2> QED BY <1>1, <2>1 DEF HaveGone
<1>3. n \in 1..Len(keys) /\ n \in 0..Len(keys) /\ n - 1 \in 0..Len(keys)
  BY <1>0, <1>1, <1>2
<1>4. HaveGone(s, max, terminal, keys, n - 1)
  <2>1. ~(n <= n - 1)
    BY <1>3
  <2> QED BY <1>1, <1>3, <2>1
<1>5. HaveGone(s, max, terminal, keys, n)
  <2>1. /\ Cardinality(G(n)) \in Nat /\ Cardinality(G(n - 1)) \in Nat
        /\ Cardinality(Keys(s)) \in Nat /\ IsFiniteSet(G(n))
    BY <1>3, GoesFacts
  <2>2. CASE s.ctx[keys[n]] \notin terminal
    <3>1. keys[n] \notin Evicted(s, max, terminal)
      BY <2>2 DEF Evicted
    <3>2. C(n) = C(n - 1) /\ G(n) = G(n - 1)
      BY <1>3, <2>2, <3>1, OneMore
    <3> QED BY <1>4, <3>2 DEF HaveGone
  <2>3. CASE s.ctx[keys[n]] \in terminal /\ keys[n] \in Evicted(s, max, terminal) /\ G(n - 1) = C(n - 1)
    <3>1. C(n) = C(n - 1) \cup {keys[n]} /\ G(n) = G(n - 1) \cup {keys[n]}
      BY <1>3, <2>3, OneMore
    <3> QED BY <2>3, <3>1 DEF HaveGone
  <2>4. CASE Cardinality(Keys(s)) <= max + Cardinality(G(n - 1))
    <3>1. G(n - 1) \subseteq G(n)
      <4>1. G(n) = IF keys[n] \in Evicted(s, max, terminal)
                   THEN G(n - 1) \cup {keys[n]} ELSE G(n - 1)
        BY <1>3, OneMore
      <4> HIDE DEF G
      <4> QED BY <4>1
    <3> HIDE DEF G
    <3>2. Cardinality(G(n - 1)) <= Cardinality(G(n))
      BY <2>1, <3>1, FS_Subset
    <3>3. Cardinality(Keys(s)) <= max + Cardinality(G(n))
      BY <2>1, <2>4, <3>2
    <3> QED BY <3>3 DEF HaveGone, G
  <2>5. CASE keys[n] \notin Evicted(s, max, terminal) /\ G(n - 1) = C(n - 1)
             /\ s.ctx[keys[n]] \in terminal
    <3>1. ~(max + Cardinality(C(n - 1)) < Cardinality(Keys(s)))
      BY <1>3, <2>5, GoesWhenFew
    <3>2. Cardinality(Keys(s)) <= max + Cardinality(G(n - 1))
      BY <2>1, <2>5, <3>1
    <3> QED BY <2>4, <3>2
  <2> QED BY <1>4, <2>2, <2>3, <2>4, <2>5 DEF HaveGone
<1> QED BY <1>1, <1>5

\* The turn of the loop for the key n.
Turn(s, max, terminal, keys, n) ==
  Goes(s, max, terminal, keys, n) =
    IF /\ max < LeftAfter(s, max, terminal, keys, n - 1)
       /\ s.ctx[keys[n]] \in terminal
    THEN Goes(s, max, terminal, keys, n - 1) \cup {keys[n]}
    ELSE Goes(s, max, terminal, keys, n - 1)

LEMMA LoopStep ==
  ASSUME NEW s \in Stores, NEW max \in Nat, NEW terminal, NEW keys \in Seq(Ids),
         InOrder(s, keys), NEW n \in 1..Len(keys)
  PROVE  Turn(s, max, terminal, keys, n)
<1> DEFINE K == Cardinality(Keys(s))
           C == Candidates(s, terminal, keys, n - 1)
           G == Goes(s, max, terminal, keys, n - 1)
           L == LeftAfter(s, max, terminal, keys, n - 1)
<1>0. n - 1 \in 0..Len(keys)
  BY LenProperties
<1>1. /\ K \in Nat /\ Cardinality(G) \in Nat /\ Cardinality(C) \in Nat
      /\ Cardinality(G) <= Cardinality(C)
      /\ L = K - Cardinality(G)
  <2>1. K \in Nat /\ Cardinality(G) \in Nat /\ Cardinality(C) \in Nat
    BY <1>0, GoesFacts
  <2>2. Cardinality(G) <= Cardinality(C)
    BY <1>0, GoesFacts
  <2>3. L = K - Cardinality(G)
    BY <1>0, GoesFacts
  <2> QED BY <2>1, <2>2, <2>3
<1>2. G = C \/ K <= max + Cardinality(G)
  BY <1>0, GoneInTime DEF HaveGone
<1>3. keys[n] \in Evicted(s, max, terminal) <=>
        s.ctx[keys[n]] \in terminal /\ max + Cardinality(C) < K
  BY GoesWhenFew
<1>4. Goes(s, max, terminal, keys, n) =
        IF keys[n] \in Evicted(s, max, terminal) THEN G \cup {keys[n]} ELSE G
  BY OneMore
<1> HIDE DEF K, C, G, L
<1>5. max + Cardinality(C) < K <=> max < L
  BY <1>1, <1>2
<1> QED BY <1>3, <1>4, <1>5, Zenon DEF G, L, Turn

\* P are the sets of keys the loop has popped before and after each turn.
Pops(P, s, max, terminal, keys) ==
  P = [n \in 0..Len(keys) |->
         IF n = 0 THEN {}
         ELSE IF /\ max < Cardinality(Keys(s) \ P[n - 1])
                 /\ s.ctx[keys[n]] \in terminal
           THEN P[n - 1] \cup {keys[n]} ELSE P[n - 1]]

\* The loop pops what is evicted: the oldest that may go, until at most max are left.
LEMMA LoopPopsEvicted ==
  ASSUME NEW s \in Stores, NEW max \in Nat, NEW terminal, NEW keys \in Seq(Ids),
         InOrder(s, keys)
  PROVE  Popped(s, max, terminal, keys) = Evicted(s, max, terminal)
<1> DEFINE G == [n \in 0..Len(keys) |-> Goes(s, max, terminal, keys, n)]
           P == CHOOSE P : Pops(P, s, max, terminal, keys)
<1>0. Len(keys) \in Nat /\ 0 \in 0..Len(keys) /\ Len(keys) \in 0..Len(keys)
  BY LenProperties
<1>1. Pops(G, s, max, terminal, keys)
  <2>1. ASSUME NEW n \in 0..Len(keys)
        PROVE  G[n] = IF n = 0 THEN {}
                      ELSE IF /\ max < Cardinality(Keys(s) \ G[n - 1])
                              /\ s.ctx[keys[n]] \in terminal
                        THEN G[n - 1] \cup {keys[n]} ELSE G[n - 1]
    <3>1. CASE n = 0
      <4>1. G[n] = Goes(s, max, terminal, keys, 0)
        BY <3>1
      <4>2. Goes(s, max, terminal, keys, 0) = {}
        BY DEF Goes
      <4> QED BY <3>1, <4>1, <4>2
    <3>2. CASE n # 0
      <4>1. n \in 1..Len(keys) /\ n - 1 \in 0..Len(keys)
        BY <1>0, <3>2
      <4>2. /\ G[n] = Goes(s, max, terminal, keys, n)
            /\ G[n - 1] = Goes(s, max, terminal, keys, n - 1)
        BY <4>1
      <4>3. Turn(s, max, terminal, keys, n)
        BY <4>1, LoopStep
      <4> HIDE DEF G
      <4> QED BY <3>2, <4>2, <4>3, Zenon DEF Turn, LeftAfter
    <3> QED BY <3>1, <3>2
  <2>2. G = [n \in 0..Len(keys) |-> G[n]]
    OBVIOUS
  <2> HIDE DEF G
  <2> QED BY <2>1, <2>2 DEF Pops
<1>2. Pops(P, s, max, terminal, keys) /\ Popped(s, max, terminal, keys) = P[Len(keys)]
  <2>1. Pops(P, s, max, terminal, keys)
    <3> HIDE DEF G
    <3> QED BY <1>1
  <2>2. Popped(s, max, terminal, keys) = P[Len(keys)]
    BY DEF Popped, Pops
  <2> QED BY <2>1, <2>2
<1> HIDE DEF G, P
<1>3. \A n \in 0..Len(keys) : P[n] = G[n]
  <2> DEFINE T == {n \in 0..Len(keys) : P[n] # G[n]}
  <2> SUFFICES ASSUME T # {} PROVE FALSE
    OBVIOUS
  <2>1. PICK n \in T : \A m \in T : n <= m
    <3>1. T \in SUBSET Nat
      BY <1>0
    <3> HIDE DEF T
    <3> QED BY <3>1, LeastNumber
  <2>2. n # 0
    BY <1>0, <1>1, <1>2, <2>1 DEF Pops
  <2>3. n - 1 \in 0..Len(keys) /\ ~(n <= n - 1) /\ n \in 0..Len(keys)
    BY <1>0, <2>1, <2>2
  <2>4. P[n - 1] = G[n - 1]
    BY <2>1, <2>3
  <2>5. P[n] = G[n]
    BY <1>1, <1>2, <2>2, <2>3, <2>4 DEF Pops
  <2> QED BY <2>1, <2>5
<1>4. G[Len(keys)] = Evicted(s, max, terminal)
  <2>1. G[Len(keys)] = Goes(s, max, terminal, keys, Len(keys))
    BY <1>0 DEF G
  <2>2. \A i \in Evicted(s, max, terminal) : \E k \in 1..Len(keys) : keys[k] = i
    BY DEF Evicted, InOrder
  <2> QED BY <2>1, <2>2 DEF Goes
<1> QED BY <1>0, <1>2, <1>3, <1>4

-----------------------------------------------------------------------------
(* Type correctness *)

\* A context has a request id as soon as its task exists, and only such a context
\* made a call that may act late.
Registered ==
  /\ \A m \in Morph : task[m] = "none" <=> request_id[m] = None
  /\ \A c \in late : task[c.by] # "none"

TypeInv == TypeOK /\ Registered

\* The constants as the proofs use them.
LEMMA Constants ==
  /\ None \notin Morph /\ None \notin Ids /\ None \notin Policies
  /\ \A i \in Ids : AddressOf[i] \in Addresses
  /\ \A i \in Ids : PolicyOf[i] \in Policies \cup {None}
  /\ MAX_ACTIVE \in Nat
  /\ MAX_THOUGHT_STEPS \in Nat \ {0}
  /\ MAX_CONSECUTIVE_TOOL_FAILURES \in Nat \ {0}
BY OrchestratorAssumption, NoneAssumption

\* A tool keeps the infrastructure well typed.
LEMMA ToolTypes ==
  ASSUME ToolsTypeOK,
         NEW a \in Addresses, NEW p, NEW sid, NEW rid,
         \/ RouteToGhostShell(a) \/ Visit(a) \/ SessionExpires(a)
         \/ RerouteLb(p, rid) \/ RerouteHalfway(p) \/ RerouteStale(p)
         \/ TerminateHoneypot(sid, rid) \/ TerminateHalfway(sid)
         \/ UNCHANGED toolVars
  PROVE  ToolsTypeOK'
  <1> USE DEF ToolsTypeOK
  <1>1. CASE RouteToGhostShell(a) \/ Visit(a)
    BY <1>1 DEF RouteToGhostShell, Visit, GetOrCreate
  <1>2. CASE SessionExpires(a)
    BY <1>2 DEF SessionExpires
  <1>3. CASE RerouteLb(p, rid) \/ RerouteHalfway(p) \/ RerouteStale(p)
    <2>1. CASE UNCHANGED <<policies, minted>>
      BY <1>3, <2>1 DEF RerouteLb, RerouteHalfway, RerouteStale
    <2>2. ASSUME p \in Policies, NEW gone, NEW ruled \in BOOLEAN, CreatePolicy(p, ruled, gone)
          PROVE  /\ policies' \subseteq [name: Policies, id: Nat \ {0}, ruled: BOOLEAN]
                 /\ minted' \in Nat
      BY <2>2 DEF CreatePolicy
    <2>3. ASSUME NEW gone, policies' = policies \ gone, UNCHANGED minted
          PROVE  /\ policies' \subseteq [name: Policies, id: Nat \ {0}, ruled: BOOLEAN]
                 /\ minted' \in Nat
      BY <2>3
    <2>4. /\ policies' \subseteq [name: Policies, id: Nat \ {0}, ruled: BOOLEAN]
          /\ minted' \in Nat
      BY <1>3, <2>1, <2>2, <2>3 DEF RerouteLb, RerouteHalfway, RerouteStale
    <2> QED BY <1>3, <2>4 DEF RerouteLb, RerouteHalfway, RerouteStale
  <1>4. CASE TerminateHoneypot(sid, rid) \/ TerminateHalfway(sid)
    BY <1>4 DEF TerminateHoneypot, TerminateHalfway, EndSession, CleanupLbRule, DeletePolicy
  <1>5. CASE UNCHANGED toolVars
    BY <1>5 DEF toolVars
  <1>6. QED
    BY <1>1, <1>2, <1>3, <1>4, <1>5

\* So does a call of a registered context that goes wrong or acts late.
LEMMA PerformTypes ==
  ASSUME TypeOK, NEW c \in Calls, request_id[c.by] \in Ids,
         Perform(c) \/ RerouteStale(PolicyOf[request_id[c.by]])
  PROVE  ToolsTypeOK'
  <1>1. AddressOf[request_id[c.by]] \in Addresses
    BY Constants
  <1>2. QED
    BY <1>1, ToolTypes DEF Perform, TypeOK

\* A transition keeps the contexts and the store well typed.
LEMMA ToTypes ==
  ASSUME TypeOK, NEW m \in Morph, NEW s \in MorphState, To(m, s)
  PROVE  /\ state' \in [Morph -> MorphState]
         /\ ACTIVE' \in Stores
BY PutType DEF TypeOK, To

LEMMA CallTypes ==
  ASSUME TypeOK, NEW m \in Morph
  PROVE  CallOf(m) \in Calls /\ ToolOf(m) \in Tools
BY DEF TypeOK, CallOf, Calls, ToolOf, Tools

LEMMA RollbackTypes ==
  ASSUME TypeOK, NEW m \in Morph, NEW sid, NEW where \in {"rolling", "unwinding"},
         StartRollback(m, where, sid)
  PROVE  /\ state' \in [Morph -> MorphState]
         /\ ACTIVE' \in Stores
         /\ task' \in [Morph -> TaskState]
  <1>1. PICK s \in {"rollback", "error"} : To(m, s)
    BY DEF StartRollback
  <1>2. task' \in [Morph -> TaskState]
    BY DEF StartRollback, Suspend, TaskState, TypeOK
  <1>3. QED
    BY <1>1, <1>2, ToTypes DEF MorphState

LEMMA AttemptTypes ==
  ASSUME TypeOK, NEW m \in Morph, NEW sid, NEW s \in MorphState, Attempt(m, s, sid)
  PROVE  /\ state' \in [Morph -> MorphState]
         /\ ACTIVE' \in Stores
         /\ task' \in [Morph -> TaskState]
         /\ thought_steps' \in [Morph -> Nat]
  <1>1. CASE thought_steps[m] >= MAX_THOUGHT_STEPS
    BY <1>1, RollbackTypes DEF Attempt, TypeOK
  <1>2. CASE ~(thought_steps[m] >= MAX_THOUGHT_STEPS)
    <2>1. To(m, s) /\ task' \in [Morph -> TaskState]
      BY <1>2 DEF Attempt, Suspend, TaskState, TypeOK
    <2>2. thought_steps' \in [Morph -> Nat]
      BY <1>2 DEF Attempt, TypeOK
    <2>3. QED
      BY <2>1, <2>2, ToTypes
  <1>3. QED
    BY <1>1, <1>2

LEMMA FaultTypes ==
  ASSUME TypeOK, NEW m \in Morph, NEW tool \in Tools, Fault(m, tool)
  PROVE  faults' \in [Morph -> SUBSET Tools]
BY DEF TypeOK, Fault

\* However a call ends, its outcome is well typed.
LEMMA OutcomeTypes ==
  ASSUME TypeOK, NEW m \in Morph, request_id[m] \in Ids
  PROVE  /\ TerminateSucceeds(m) => faults' \in [Morph -> SUBSET Tools] /\ ToolsTypeOK'
         /\ ErrorAnswer(m) \/ GiveUp(m) =>
              /\ faults' \in [Morph -> SUBSET Tools] /\ ToolsTypeOK'
              /\ late' \in SUBSET Calls
  <1>1. ASSUME TerminateSucceeds(m)
        PROVE  faults' \in [Morph -> SUBSET Tools] /\ ToolsTypeOK'
    <2>1. faults' \in [Morph -> SUBSET Tools]
      BY <1>1, FaultTypes DEF TerminateSucceeds, Tools, TypeOK
    <2>2. ToolsTypeOK'
      <3>1. AddressOf[request_id[m]] \in Addresses
        BY Constants
      <3>2. QED
        BY <1>1, <3>1, ToolTypes DEF TerminateSucceeds, TypeOK
    <2>3. QED
      BY <2>1, <2>2
  <1>2. ASSUME ErrorAnswer(m) \/ GiveUp(m)
        PROVE  /\ faults' \in [Morph -> SUBSET Tools] /\ ToolsTypeOK'
               /\ late' \in SUBSET Calls
    <2>1. faults' \in [Morph -> SUBSET Tools]
      BY <1>2, CallTypes, FaultTypes DEF ErrorAnswer, GiveUp
    <2>2. ToolsTypeOK'
      <3>1. AddressOf[request_id[m]] \in Addresses
        BY Constants
      <3>2. CallOf(m) \in Calls /\ request_id[CallOf(m).by] \in Ids
        BY CallTypes DEF CallOf
      <3>3. CASE Perform(CallOf(m))
        BY <3>2, <3>3, PerformTypes
      <3>4. CASE UNCHANGED toolVars
        BY <3>1, <3>4, ToolTypes DEF TypeOK
      <3>5. QED
        BY <1>2, <3>3, <3>4 DEF ErrorAnswer, GiveUp
    <2>3. late' \in SUBSET Calls
      BY <1>2, CallTypes DEF ErrorAnswer, GiveUp, TypeOK
    <2>4. QED
      BY <2>1, <2>2, <2>3
  <1>3. QED
    BY <1>1, <1>2

\* What Suspend and Cancelled rely on: only a registered context has a task.
LEMMA RegisteredFacts ==
  ASSUME TypeInv, NEW m \in Morph, task[m] # "none"
  PROVE  request_id[m] \in Ids /\ AddressOf[request_id[m]] \in Addresses
BY Constants DEF TypeInv, Registered, TypeOK

LEMMA TypeInit == Init => TypeInv
BY EmptyStoreFacts
   DEF Init, TypeInv, TypeOK, Registered, ToolsInit, ToolsTypeOK, TaskState,
       MorphState

LEMMA TypeSignal ==
  ASSUME TypeInv, NEW m \in Morph, NEW i \in Ids, ReceiveSignal(m, i)
  PROVE  TypeInv'
  <1>1. ACTIVE' \in Stores
    BY PutType, EvictFacts, Constants DEF ReceiveSignal, TypeInv, TypeOK
  <1>2. task' \in [Morph -> TaskState] /\ task' = [task EXCEPT ![m] = "created"]
    BY DEF ReceiveSignal, Suspend, TaskState, TypeInv, TypeOK
  <1>3. Registered'
    BY <1>2, Constants DEF ReceiveSignal, Registered, TypeInv, TypeOK
  <1>4. TypeOK'
    BY <1>1, <1>2 DEF ReceiveSignal, runVars, toolVars, TypeInv, TypeOK, ToolsTypeOK
  <1>5. QED
    BY <1>3, <1>4 DEF TypeInv

\* A step of a task moves it and leaves the request ids alone.
LEMMA StepRegistered ==
  ASSUME TypeInv, NEW m \in Morph, Step(m)
  PROVE  /\ task[m] # "none" /\ task'[m] # "none"
         /\ request_id' = request_id
         /\ \A n \in Morph \ {m} : task'[n] = task[n]
BY DEF Step, BelowGate, Engage, Assigned, Rerouted, Watched, Terminated, StepFails,
       Retry, RolledBack, Cancelled, UnwindingTimesOut, Attempt, StartRollback,
       Suspend, Running, InFlight, ctxVars, TypeInv, TypeOK

LEMMA TypeStep ==
  ASSUME TypeInv, NEW m \in Morph, Step(m)
  PROVE  TypeInv'
  <1> USE DEF TypeInv
  <1>1. Registered'
    <2>1. late' \subseteq late \cup {CallOf(m)}
      BY DEF Step, BelowGate, Engage, Assigned, Rerouted, Watched, Terminated, StepFails,
             Retry, RolledBack, Cancelled, UnwindingTimesOut, ErrorAnswer, TimesOut, GiveUp
    <2>2. CallOf(m).by = m /\ \A c \in late : c.by \in Morph
      BY DEF CallOf, TypeOK, Calls
    <2>3. QED
      BY <2>1, <2>2, StepRegistered DEF Registered
  <1>2. request_id[m] \in Ids /\ AddressOf[request_id[m]] \in Addresses
    BY StepRegistered, RegisteredFacts
  <1>3. CASE BelowGate(m)
    <2>1. To(m, "idle") /\ task' \in [Morph -> TaskState]
      BY <1>3 DEF BelowGate, Suspend, TaskState, TypeOK
    <2>2. QED
      BY <1>1, <1>3, <2>1, ToTypes
      DEF BelowGate, MorphState, TypeOK, ToolsTypeOK, runVars, toolVars
  <1>4. CASE Engage(m)
    BY <1>1, <1>4, AttemptTypes
    DEF Engage, MorphState, TypeOK, ToolsTypeOK, toolVars
  <1>5. CASE Assigned(m)
    <2> DEFINE a == AddressOf[request_id[m]]
    <2>1. ToolsTypeOK'
      BY <1>2, <1>5, ToolTypes DEF Assigned, TypeOK
    <2>2. ghost_session_id' \in [Morph -> Nat] /\ consecutive_failures' \in [Morph -> Nat]
      BY <1>2, <1>5, <2>1 DEF Assigned, TypeOK, ToolsTypeOK
    <2>3. Attempt(m, "rerouting", session'[a])
      BY <1>5 DEF Assigned
    <2>4. QED
      BY <1>1, <1>5, <2>1, <2>2, <2>3, AttemptTypes DEF Assigned, MorphState, TypeOK
  <1>6. CASE Rerouted(m)
    <2>1. ToolsTypeOK'
      BY <1>2, <1>6, ToolTypes DEF Rerouted, TypeOK
    <2>2. lb_rule_id' \in [Morph -> Nat] /\ consecutive_failures' \in [Morph -> Nat]
      <3>1. RuleIds \subseteq Nat
        BY DEF RuleIds, TypeOK, ToolsTypeOK
      <3> QED BY <1>6, <3>1 DEF Rerouted, TypeOK
    <2>3. QED
      BY <1>1, <1>6, <2>1, <2>2, AttemptTypes DEF Rerouted, MorphState, TypeOK
  <1>7. CASE Watched(m)
    BY <1>1, <1>7, AttemptTypes
    DEF Watched, MorphState, TypeOK, ToolsTypeOK, toolVars
  <1>8. CASE Terminated(m)
    <2>1. To(m, "idle") /\ task' \in [Morph -> TaskState]
      BY <1>8 DEF Terminated, Suspend, TaskState, TypeOK
    <2>2. TerminateSucceeds(m)
      BY <1>8 DEF Terminated
    <2>3. QED
      BY <1>2, <1>1, <1>8, <2>1, <2>2, ToTypes, OutcomeTypes DEF Terminated, MorphState, TypeOK
  <1>9. CASE StepFails(m)
    <2>1. ErrorAnswer(m) \/ GiveUp(m)
      BY <1>9 DEF StepFails, TimesOut
    <2>2. /\ state' \in [Morph -> MorphState]
          /\ ACTIVE' \in Stores
          /\ task' \in [Morph -> TaskState]
      <3>1. CASE StartRollback(m, "rolling", ghost_session_id[m])
        BY <3>1, RollbackTypes
      <3>2. CASE Suspend(m, "backoff") /\ UNCHANGED <<state, ACTIVE>>
        BY <3>2 DEF Suspend, TaskState, TypeOK
      <3>3. QED
        BY <1>9, <3>1, <3>2 DEF StepFails
    <2>3. faults' \in [Morph -> SUBSET Tools] /\ ToolsTypeOK' /\ late' \in SUBSET Calls
      BY <1>2, <2>1, OutcomeTypes
    <2>4. consecutive_failures' \in [Morph -> Nat]
      BY <1>9 DEF StepFails, TypeOK
    <2>5. QED
      BY <1>1, <1>9, <2>2, <2>3, <2>4 DEF StepFails, TypeOK
  <1>10. CASE Retry(m)
    <2>1. state[m] \in MorphState
      BY DEF TypeOK
    <2>2. QED
      BY <1>1, <1>10, <2>1, AttemptTypes DEF Retry, TypeOK, ToolsTypeOK, toolVars
  <1>11. CASE RolledBack(m)
    <2>1. To(m, "error") /\ task' \in [Morph -> TaskState]
      BY <1>11 DEF RolledBack, Suspend, TaskState, TypeOK
    <2>2. (TerminateSucceeds(m) /\ UNCHANGED late) \/ ErrorAnswer(m) \/ GiveUp(m)
      BY <1>11 DEF RolledBack, TimesOut
    <2>3. faults' \in [Morph -> SUBSET Tools] /\ ToolsTypeOK' /\ late' \in SUBSET Calls
      BY <1>2, <2>2, OutcomeTypes DEF TypeOK
    <2>4. QED
      BY <1>1, <1>11, <2>1, <2>3, ToTypes DEF RolledBack, MorphState, TypeOK, runVars
  <1>12. CASE Cancelled(m)
    <2>1. faults' \in [Morph -> SUBSET Tools] /\ ToolsTypeOK' /\ late' \in SUBSET Calls
      BY <1>2, <1>12, OutcomeTypes DEF Cancelled, TypeOK, ToolsTypeOK, toolVars
    <2>2. /\ state' \in [Morph -> MorphState]
          /\ ACTIVE' \in Stores
          /\ task' \in [Morph -> TaskState]
      <3>1. CASE StartRollback(m, "unwinding", ghost_session_id[m])
        BY <3>1, RollbackTypes
      <3>2. CASE Suspend(m, "done") /\ UNCHANGED <<state, ACTIVE>>
        BY <3>2 DEF Suspend, TaskState, TypeOK
      <3>3. QED
        BY <1>12, <3>1, <3>2 DEF Cancelled
    <2>3. cancel' \in [Morph -> {"no", "requested", "delivered"}]
      BY <1>12 DEF Cancelled, TypeOK
    <2>4. QED
      BY <1>1, <1>12, <2>1, <2>2, <2>3 DEF Cancelled, TypeOK, runVars
  <1>13. CASE UnwindingTimesOut(m)
    <2>1. GiveUp(m) /\ task' \in [Morph -> TaskState]
      BY <1>13 DEF UnwindingTimesOut, TimesOut, Suspend, TaskState, TypeOK
    <2>2. QED
      BY <1>2, <1>1, <1>13, <2>1, OutcomeTypes DEF UnwindingTimesOut, TypeOK, ctxVars, runVars
  <1>14. QED
    BY <1>3, <1>4, <1>5, <1>6, <1>7, <1>8, <1>9, <1>10, <1>11, <1>12, <1>13 DEF Step

LEMMA TypeOthers ==
  ASSUME TypeInv,
         AdminReset \/ Shutdown \/ (\E c \in late : LateCall(c))
           \/ (\E a \in Addresses : GhostShellActs(a))
           \/ (\E p \in Policies : ReroutePurged(p)) \/ UNCHANGED vars
  PROVE  TypeInv'
  <1> USE DEF TypeInv
  <1>1. CASE AdminReset \/ Shutdown
    <2>1. cancel' \in [Morph -> {"no", "requested", "delivered"}]
      BY <1>1 DEF AdminReset, Shutdown, CancelAll, TypeOK
    <2>2. ACTIVE' \in Stores /\ resets' \in Nat
      BY <1>1, EmptyStoreFacts DEF AdminReset, Shutdown, TypeOK
    <2>3. up' \in BOOLEAN
      BY <1>1 DEF AdminReset, Shutdown, TypeOK
    <2>4. QED
      BY <1>1, <2>1, <2>2, <2>3
      DEF AdminReset, Shutdown, TypeOK, ToolsTypeOK, Registered, ctxVars, runVars, toolVars
  <1>2. ASSUME NEW c \in late, LateCall(c)
        PROVE  TypeInv'
    <2>1. c \in Calls /\ late' \in SUBSET Calls /\ late' \subseteq late
      BY <1>2 DEF LateCall, TypeOK
    <2>2. ToolsTypeOK'
      <3>1. request_id[c.by] \in Ids
        BY <2>1 DEF Registered, TypeOK, Calls
      <3>2. QED
        BY <1>2, <2>1, <3>1, PerformTypes DEF LateCall
    <2>3. QED
      BY <1>2, <2>1, <2>2 DEF LateCall, TypeOK, Registered, ctxVars, runVars
  <1>3. ASSUME NEW a \in Addresses, GhostShellActs(a)
        PROVE  TypeInv'
    <2>1. ToolsTypeOK'
      BY <1>3, ToolTypes DEF GhostShellActs, TypeOK
    <2>2. QED
      BY <1>3, <2>1 DEF GhostShellActs, TypeOK, Registered, ctxVars, runVars
  <1>4. ASSUME NEW p \in Policies, ReroutePurged(p)
        PROVE  TypeInv'
    <2>1. ToolsTypeOK'
      BY <1>4 DEF ReroutePurged, PurgePolicy, DeletePolicy, TypeOK, ToolsTypeOK
    <2>2. QED
      BY <1>4, <2>1 DEF ReroutePurged, TypeOK, Registered, ctxVars, runVars
  <1>5. CASE UNCHANGED vars
    BY <1>5 DEF vars, ctxVars, runVars, toolVars, TypeOK, ToolsTypeOK, Registered
  <1>6. QED
    BY <1>1, <1>2, <1>3, <1>4, <1>5

\* Every variable keeps its type, and a context is registered exactly when its
\* task exists.
LEMMA TypeInvariance == Spec => []TypeInv
  <1>1. TypeInv /\ [Next]_vars => TypeInv'
    <2> SUFFICES ASSUME TypeInv, [Next]_vars
                 PROVE  TypeInv'
      OBVIOUS
    <2>1. ASSUME NEW m \in Morph, NEW i \in Ids, ReceiveSignal(m, i)
          PROVE  TypeInv'
      BY <2>1, TypeSignal
    <2>2. ASSUME NEW m \in Morph, Step(m)
          PROVE  TypeInv'
      BY <2>2, TypeStep
    <2>3. QED
      BY <2>1, <2>2, TypeOthers DEF Next
  <1>2. QED
    BY <1>1, TypeInit, PTL DEF Spec

\* Type correctness of the orchestrator and the infrastructure it changes.
THEOREM TypeCorrect == Spec => []TypeOK
BY TypeInvariance, PTL DEF TypeInv

-----------------------------------------------------------------------------
(* The budget of attempts *)

\* A step of a task touches no other context.
LEMMA StepFrame ==
  ASSUME TypeInv, NEW m \in Morph, Step(m), NEW n \in Morph, n # m
  PROVE  /\ task'[n] = task[n] /\ state'[n] = state[n] /\ cancel'[n] = cancel[n]
         /\ ghost_session_id'[n] = ghost_session_id[n]
         /\ lb_rule_id'[n] = lb_rule_id[n]
         /\ thought_steps'[n] = thought_steps[n]
         /\ consecutive_failures'[n] = consecutive_failures[n]
         /\ faults'[n] = faults[n]
BY DEF Step, BelowGate, Engage, Assigned, Rerouted, Watched, Terminated, StepFails,
       Retry, RolledBack, Cancelled, UnwindingTimesOut, Attempt, StartRollback, To,
       Suspend, TerminateSucceeds, ErrorAnswer, GiveUp, TimesOut, Fault, ctxVars,
       runVars, TypeInv, TypeOK

\* Attempts that a run can have made before it reaches a step.
AttemptsBefore(s) ==
  IF s = "assigning" THEN 0
  ELSE IF s = "rerouting" THEN MAX_CONSECUTIVE_TOOL_FAILURES
  ELSE 2 * MAX_CONSECUTIVE_TOOL_FAILURES + 1

\* The attempts of a run are those before its step, its consecutive failures,
\* which the breaker keeps under its bound, and the attempt under way.
BudgetOf(m) ==
  /\ thought_steps[m] <= 3 * MAX_CONSECUTIVE_TOOL_FAILURES + 1
  /\ task[m] \in {"none", "created"} =>
       thought_steps[m] = 0 /\ consecutive_failures[m] = 0
  /\ task[m] \in {"calling", "backoff"} =>
       /\ state[m] \in {"assigning", "rerouting", "terminating"}
       /\ consecutive_failures[m] < MAX_CONSECUTIVE_TOOL_FAILURES
       /\ thought_steps[m] <= AttemptsBefore(state[m]) + consecutive_failures[m]
                              + (IF task[m] = "calling" THEN 1 ELSE 0)
  /\ task[m] = "watching" =>
       thought_steps[m] <= 2 * MAX_CONSECUTIVE_TOOL_FAILURES + 1

BudgetInv == \A m \in Morph : BudgetOf(m)

LEMMA BudgetStep ==
  ASSUME TypeInv, BudgetInv, NEW m \in Morph, Step(m)
  PROVE  BudgetInv'
  <1>1. ASSUME NEW n \in Morph, n # m
        PROVE  BudgetOf(n)'
    BY <1>1, StepFrame DEF BudgetInv, BudgetOf, AttemptsBefore
  <1>2. BudgetOf(m)'
    <2> USE Constants DEF BudgetOf, AttemptsBefore, TypeInv, TypeOK, Suspend, To
    <2>0. BudgetOf(m)
      BY DEF BudgetInv
    <2>1. CASE BelowGate(m)
      BY <2>0, <2>1 DEF BelowGate, Running, runVars
    <2>2. CASE Engage(m)
      BY <2>0, <2>2 DEF Engage, Running, Attempt, StartRollback
    <2>3. CASE Assigned(m)
      BY <2>0, <2>3 DEF Assigned, Running, Attempt, StartRollback
    <2>4. CASE Rerouted(m)
      BY <2>0, <2>4 DEF Rerouted, Running, Attempt, StartRollback
    <2>5. CASE Watched(m)
      BY <2>0, <2>5 DEF Watched, Running, Attempt, StartRollback
    <2>6. CASE Terminated(m)
      BY <2>0, <2>6 DEF Terminated
    <2>7. CASE StepFails(m)
      BY <2>0, <2>7 DEF StepFails, CircuitBreaks, Running, StartRollback
    <2>8. CASE Retry(m)
      BY <2>0, <2>8 DEF Retry, Running, Attempt, StartRollback
    <2>9. CASE RolledBack(m)
      BY <2>0, <2>9 DEF RolledBack, runVars
    <2>10. CASE Cancelled(m)
      BY <2>0, <2>10 DEF Cancelled, StartRollback, runVars
    <2>11. CASE UnwindingTimesOut(m)
      BY <2>0, <2>11 DEF UnwindingTimesOut, runVars
    <2>12. QED
      BY <2>1, <2>2, <2>3, <2>4, <2>5, <2>6, <2>7, <2>8, <2>9, <2>10, <2>11 DEF Step
  <1>3. QED
    BY <1>1, <1>2 DEF BudgetInv

LEMMA BudgetInvariance == Spec => []BudgetInv
  <1>1. Init => BudgetInv
    BY Constants DEF Init, BudgetInv, BudgetOf
  <1>2. TypeInv /\ BudgetInv /\ [Next]_vars => BudgetInv'
    <2> SUFFICES ASSUME TypeInv, BudgetInv, [Next]_vars
                 PROVE  BudgetInv'
      OBVIOUS
    <2>1. ASSUME NEW m \in Morph, NEW i \in Ids, ReceiveSignal(m, i)
          PROVE  BudgetInv'
      BY <2>1 DEF ReceiveSignal, Suspend, runVars, TypeInv, TypeOK, BudgetInv, BudgetOf,
                  AttemptsBefore
    <2>2. ASSUME NEW m \in Morph, Step(m)
          PROVE  BudgetInv'
      BY <2>2, BudgetStep
    <2>3. CASE UNCHANGED <<ctxVars, runVars, task>>
      BY <2>3 DEF ctxVars, runVars, BudgetInv, BudgetOf, AttemptsBefore
    <2>4. QED
      BY <2>1, <2>2, <2>3 DEF Next, AdminReset, Shutdown, LateCall, GhostShellActs,
                                  ReroutePurged, vars
  <1>3. QED
    BY <1>1, <1>2, TypeInvariance, PTL DEF Spec

\* A run makes at most three times the breaker's bound of attempts, and one:
\* ten with the constants of state_machine.py.
THEOREM ThoughtBudgetHolds == Spec => []ThoughtBudget
  <1>1. BudgetInv => ThoughtBudget
    BY DEF BudgetInv, BudgetOf, ThoughtBudget
  <1>2. QED
    BY <1>1, BudgetInvariance, PTL

-----------------------------------------------------------------------------
(* What a context has on record *)

\* The resources on record follow the step the run is in: nothing before the
\* session is assigned, no rule before the reroute returned, and a teardown is
\* never called without the session. A call given up on is in the history of
\* its morph.
RecordOf(m) ==
  /\ lb_rule_id[m] # 0 => ghost_session_id[m] # 0
  /\ task[m] \in {"none", "created"} => ghost_session_id[m] = 0
  /\ task[m] \in {"calling", "backoff"} =>
       /\ state[m] \in {"assigning", "rerouting", "terminating"}
       /\ state[m] = "assigning" => ghost_session_id[m] = 0
       /\ state[m] # "assigning" => ghost_session_id[m] # 0
       /\ state[m] = "rerouting" => lb_rule_id[m] = 0
  /\ task[m] \in {"watching", "rolling", "unwinding"} => ghost_session_id[m] # 0

LateIsFault == \A c \in late : c.tool \in faults[c.by]

RecordInv == (\A m \in Morph : RecordOf(m)) /\ LateIsFault

\* History is never forgotten.
LEMMA FaultsGrow ==
  ASSUME TypeInv, NEW m \in Morph, Step(m), NEW n \in Morph
  PROVE  faults[n] \subseteq faults'[n]
BY DEF Step, BelowGate, Engage, Assigned, Rerouted, Watched, Terminated, StepFails,
       Retry, RolledBack, Cancelled, UnwindingTimesOut, TerminateSucceeds,
       ErrorAnswer, GiveUp, TimesOut, Fault, TypeInv, TypeOK

\* Only giving up on a call adds to the calls that may act late.
LEMMA LateGrows ==
  ASSUME TypeInv, NEW m \in Morph, Step(m), NEW c \in late', c \notin late
  PROVE  c.by = m /\ c.tool \in faults'[m]
  <1>1. GiveUp(m)
    BY DEF Step, BelowGate, Engage, Assigned, Rerouted, Watched, Terminated, StepFails,
           Retry, RolledBack, Cancelled, UnwindingTimesOut, ErrorAnswer, TimesOut
  <1>2. c = CallOf(m) /\ Fault(m, ToolOf(m))
    BY <1>1 DEF GiveUp
  <1>3. QED
    BY <1>2 DEF CallOf, Fault, TypeInv, TypeOK

LEMMA RecordStep ==
  ASSUME TypeInv, RecordInv, NEW m \in Morph, Step(m)
  PROVE  RecordInv'
  <1>1. ASSUME NEW n \in Morph, n # m
        PROVE  RecordOf(n)'
    BY <1>1, StepFrame DEF RecordInv, RecordOf
  <1>2. RecordOf(m)'
    <2> USE DEF RecordOf, TypeInv, TypeOK, Suspend, To
    <2>0. RecordOf(m) /\ request_id[m] \in Ids /\ AddressOf[request_id[m]] \in Addresses
      BY StepRegistered, RegisteredFacts DEF RecordInv
    <2>1. CASE BelowGate(m)
      BY <2>0, <2>1 DEF BelowGate, Running
    <2>2. CASE Engage(m)
      BY <2>0, <2>2 DEF Engage, Running, Attempt, StartRollback
    <2>3. CASE Assigned(m)
      <3>1. session'[AddressOf[request_id[m]]] \in Nat \ {0}
        BY <2>0, <2>3 DEF Assigned, RouteToGhostShell, GetOrCreate, ToolsTypeOK
      <3>2. QED
        BY <2>0, <2>3, <3>1 DEF Assigned, Running, Attempt, StartRollback
    <2>4. CASE Rerouted(m)
      BY <2>0, <2>4 DEF Rerouted, Running, Attempt, StartRollback
    <2>5. CASE Watched(m)
      BY <2>0, <2>5 DEF Watched, Running, Attempt, StartRollback
    <2>6. CASE Terminated(m)
      BY <2>0, <2>6 DEF Terminated
    <2>7. CASE StepFails(m)
      BY <2>0, <2>7 DEF StepFails, Running, StartRollback
    <2>8. CASE Retry(m)
      BY <2>0, <2>8 DEF Retry, Running, Attempt, StartRollback
    <2>9. CASE RolledBack(m)
      BY <2>0, <2>9 DEF RolledBack
    <2>10. CASE Cancelled(m)
      BY <2>0, <2>10 DEF Cancelled, StartRollback
    <2>11. CASE UnwindingTimesOut(m)
      BY <2>0, <2>11 DEF UnwindingTimesOut, ctxVars
    <2>12. QED
      BY <2>1, <2>2, <2>3, <2>4, <2>5, <2>6, <2>7, <2>8, <2>9, <2>10, <2>11 DEF Step
  <1>3. LateIsFault'
    <2> SUFFICES ASSUME NEW c \in late'
                 PROVE  c.tool \in faults'[c.by]
      BY DEF LateIsFault
    <2>1. CASE c \in late
      <3>1. c.by \in Morph
        BY <2>1 DEF TypeInv, TypeOK, Calls
      <3>2. QED
        BY <2>1, <3>1, FaultsGrow, StepRegistered DEF RecordInv, LateIsFault
    <2>2. CASE c \notin late
      BY <2>2, LateGrows, StepRegistered, RegisteredFacts
    <2>3. QED
      BY <2>1, <2>2
  <1>4. QED
    BY <1>1, <1>2, <1>3 DEF RecordInv

LEMMA RecordInvariance == Spec => []RecordInv
  <1>1. Init => RecordInv
    BY DEF Init, RecordInv, RecordOf, LateIsFault
  <1>2. TypeInv /\ RecordInv /\ [Next]_vars => RecordInv'
    <2> SUFFICES ASSUME TypeInv, RecordInv, [Next]_vars
                 PROVE  RecordInv'
      OBVIOUS
    <2>1. ASSUME NEW m \in Morph, NEW i \in Ids, ReceiveSignal(m, i)
          PROVE  RecordInv'
      <3>1. \A n \in Morph : RecordOf(n)'
        BY <2>1 DEF ReceiveSignal, Suspend, TypeInv, TypeOK, RecordInv, RecordOf
      <3>2. LateIsFault'
        BY <2>1 DEF ReceiveSignal, TypeInv, TypeOK, RecordInv, LateIsFault
      <3>3. QED
        BY <3>1, <3>2 DEF RecordInv
    <2>2. ASSUME NEW m \in Morph, Step(m)
          PROVE  RecordInv'
      BY <2>2, RecordStep
    <2>3. CASE /\ UNCHANGED <<ctxVars, task, faults>>
               /\ late' \subseteq late
      BY <2>3 DEF ctxVars, RecordInv, RecordOf, LateIsFault
    <2>4. QED
      BY <2>1, <2>2, <2>3 DEF Next, AdminReset, Shutdown, LateCall, GhostShellActs, ReroutePurged, vars
  <1>3. QED
    BY <1>1, <1>2, TypeInvariance, PTL DEF Spec

-----------------------------------------------------------------------------
(* What an engagement leaves behind *)

\* The two ways a policy or a session is accounted for by m.
OwnsPolicy(m, x) ==
  /\ request_id[m] # None /\ PolicyOf[request_id[m]] = x.name
  /\ \/ InFlight(m) /\ lb_rule_id[m] = x.id
     \/ faults[m] \cap {"reroute_lb", "terminate_honeypot"} # {}

OwnsSession(m, a) ==
  /\ request_id[m] # None /\ AddressOf[request_id[m]] = a
  /\ \/ InFlight(m) /\ ghost_session_id[m] = session[a]
     \/ faults[m] \cap {"route_to_ghost_shell", "terminate_honeypot"} # {}

\* Tool 2 makes policies of its request's name only, and when it succeeds it answers with
\* the one it makes.
LEMMA RerouteFacts ==
  ASSUME NEW p, NEW rid
  PROVE  /\ RerouteLb(p, rid) => \A x \in policies' : x \in policies \/ (x.name = p /\ x.id = rid)
         /\ RerouteHalfway(p) \/ RerouteStale(p) => \A x \in policies' : x \in policies \/ x.name = p
<1>1. ASSUME NEW gone, NEW ruled, CreatePolicy(p, ruled, gone), NEW x \in policies'
      PROVE  x \in policies \/ (x.name = p /\ x.id = minted + 1)
  BY <1>1 DEF CreatePolicy
<1>2. ASSUME RerouteLb(p, rid), NEW x \in policies'
      PROVE  x \in policies \/ (x.name = p /\ x.id = rid)
  <2>1. CASE UNCHANGED policies
    BY <2>1
  <2>2. ASSUME rid = minted + 1, NEW gone, CreatePolicy(p, TRUE, gone)
        PROVE  x \in policies \/ (x.name = p /\ x.id = rid)
    BY <1>1, <2>2
  <2> QED BY <1>2, <2>1, <2>2 DEF RerouteLb
<1>3. ASSUME RerouteHalfway(p) \/ RerouteStale(p), NEW x \in policies'
      PROVE  x \in policies \/ x.name = p
  <2>1. ASSUME NEW gone, policies' = policies \ gone PROVE x \in policies
    BY <2>1
  <2> QED BY <1>1, <1>3, <2>1 DEF RerouteHalfway, RerouteStale
<1> QED BY <1>2, <1>3

\* A policy that a step leaves standing stood before it, or m created it and
\* accounts for it.
LEMMA PolicyOrigin ==
  ASSUME TypeInv, RecordInv, NEW m \in Morph, Step(m),
         NEW x \in policies'
  PROVE  x \in policies \/ OwnsPolicy(m, x)'
  <1> USE DEF TypeInv, TypeOK, OwnsPolicy
  <1>0. request_id[m] \in Ids /\ request_id'[m] = request_id[m] /\ request_id[m] # None
    BY StepRegistered, RegisteredFacts, Constants
  <1>1. CASE UNCHANGED policies
    BY <1>1
  <1>2. CASE Rerouted(m)
    <2>1. PICK rid \in RuleIds :
            /\ RerouteLb(PolicyOf[request_id[m]], rid)
            /\ lb_rule_id' = [lb_rule_id EXCEPT ![m] = rid]
      BY <1>2 DEF Rerouted
    <2>2. CASE x.name = PolicyOf[request_id[m]] /\ x.id = rid
      <3>1. lb_rule_id'[m] = x.id
        BY <2>1, <2>2
      <3>2. task'[m] \in {"rolling", "done", "calling", "watching"}
        BY <1>2 DEF Rerouted, Attempt, StartRollback, Suspend
      <3>3. task'[m] # "done"
        BY <1>2, StepRegistered
        DEF Rerouted, Running, Attempt, StartRollback, Suspend, RecordInv, RecordOf
      <3>4. QED
        BY <1>0, <2>2, <3>1, <3>2, <3>3 DEF InFlight
    <2>3. QED
      BY <2>1, <2>2, RerouteFacts
  <1>3. CASE ErrorAnswer(m)
    <2>1. CASE ToolOf(m) = "reroute_lb"
      <3>1. faults'[m] \cap {"reroute_lb", "terminate_honeypot"} # {}
        BY <1>3, <2>1 DEF ErrorAnswer, Fault
      <3>2. PolicyOf[request_id[m]] = x.name \/ x \in policies
        BY <1>3, <2>1, RerouteFacts DEF ErrorAnswer, Perform, CallOf, toolVars
      <3>3. QED
        BY <1>0, <3>1, <3>2
    <2>2. CASE ToolOf(m) # "reroute_lb"
      BY <1>3, <2>2
      DEF ErrorAnswer, Perform, CallOf, RouteToGhostShell, TerminateHoneypot, CleanupLbRule,
          DeletePolicy, TerminateHalfway, toolVars
    <2>3. QED
      BY <2>1, <2>2
  <1>4. CASE TerminateSucceeds(m)
    BY <1>4 DEF TerminateSucceeds, TerminateHoneypot, CleanupLbRule, DeletePolicy,
                TerminateHalfway
  <1>5. QED
    BY <1>1, <1>2, <1>3, <1>4
    DEF Step, BelowGate, Engage, Assigned, RouteToGhostShell, Watched, Terminated,
        StepFails, Retry, RolledBack, Cancelled, UnwindingTimesOut, TimesOut, GiveUp,
        toolVars

\* A task keeps accounting for a policy until it removed it.
LEMMA PolicyKept ==
  ASSUME TypeInv, RecordInv, LB_ID, NEW m \in Morph, Step(m),
         NEW x \in policies, x \in policies', OwnsPolicy(m, x)
  PROVE  OwnsPolicy(m, x)'
  <1>0. request_id' = request_id /\ RecordOf(m)
    BY StepRegistered DEF RecordInv
  <1>1. CASE faults[m] \cap {"reroute_lb", "terminate_honeypot"} # {}
    BY <1>0, <1>1, FaultsGrow DEF OwnsPolicy
  <1>2. CASE InFlight(m) /\ lb_rule_id[m] = x.id
    <2> USE DEF TypeInv, TypeOK, ToolsTypeOK
    <2> SUFFICES \/ InFlight(m)' /\ lb_rule_id'[m] = x.id
                 \/ "terminate_honeypot" \in faults'[m]
      BY <1>0 DEF OwnsPolicy
    <2>0. x.id # 0
      OBVIOUS
    <2>1. lb_rule_id[m] # 0 /\ ghost_session_id[m] # 0 /\ task[m] # "created"
      BY <1>0, <1>2, <2>0 DEF RecordOf
    <2>2. CASE BelowGate(m) \/ Engage(m) \/ Assigned(m) \/ Rerouted(m)
      BY <1>0, <2>1, <2>2 DEF BelowGate, Engage, Assigned, Rerouted, Running, RecordOf
    <2>3. CASE Watched(m) \/ Retry(m)
      BY <1>2, <2>1, <2>3
      DEF Watched, Retry, Attempt, StartRollback, Suspend, InFlight
    <2>4. CASE StepFails(m)
      BY <1>2, <2>1, <2>4 DEF StepFails, StartRollback, Suspend, InFlight
    <2>5. CASE Terminated(m) \/ RolledBack(m) \/ UnwindingTimesOut(m)
      <3>1. ToolOf(m) = "terminate_honeypot"
        BY <2>5 DEF Terminated, RolledBack, UnwindingTimesOut, Running, ToolOf
      <3>2. TerminateSucceeds(m) \/ Fault(m, "terminate_honeypot")
        BY <2>5, <3>1 DEF Terminated, RolledBack, UnwindingTimesOut, TimesOut, GiveUp,
                          ErrorAnswer
      <3>3. ~TerminateHoneypot(ghost_session_id[m], lb_rule_id[m])
        BY <1>2, <2>1 DEF TerminateHoneypot, CleanupLbRule, DeletePolicy
      <3>4. QED
        BY <3>2, <3>3 DEF TerminateSucceeds, Fault
    <2>6. CASE Cancelled(m)
      <3>1. CASE task[m] = "unwinding"
        BY <2>6, <3>1 DEF Cancelled, Waiting, GiveUp, Fault, ToolOf
      <3>2. CASE task[m] # "unwinding"
        BY <1>2, <2>1, <2>6, <3>2 DEF Cancelled, StartRollback, Suspend, InFlight
      <3>3. QED
        BY <3>1, <3>2
    <2>7. QED
      BY <2>2, <2>3, <2>4, <2>5, <2>6 DEF Step
  <1>3. QED
    BY <1>1, <1>2 DEF OwnsPolicy

LEMMA PoliciesStep ==
  ASSUME TypeInv, RecordInv, PoliciesAccountedFor, NEW m \in Morph, Step(m)
  PROVE  PoliciesAccountedFor'
  <1> SUFFICES ASSUME LB_ID, NEW x \in policies'
               PROVE  \E n \in Morph : OwnsPolicy(n, x)'
    BY DEF PoliciesAccountedFor, OwnsPolicy
  <1>1. CASE x \in policies
    <2>1. PICK n \in Morph : OwnsPolicy(n, x)
      BY <1>1 DEF PoliciesAccountedFor, OwnsPolicy
    <2>2. CASE n = m
      BY <1>1, <2>1, <2>2, PolicyKept
    <2>3. CASE n # m
      BY <1>1, <2>1, <2>3, StepFrame, StepRegistered DEF OwnsPolicy, InFlight
    <2>4. QED
      BY <2>2, <2>3
  <1>2. CASE x \notin policies
    BY <1>2, PolicyOrigin
  <1>3. QED
    BY <1>1, <1>2

\* A late call can only leave a policy to the request that made it.
LEMMA PoliciesLate ==
  ASSUME TypeInv, RecordInv, PoliciesAccountedFor, NEW c \in late, LateCall(c)
  PROVE  PoliciesAccountedFor'
  <1> SUFFICES ASSUME LB_ID, NEW x \in policies'
               PROVE  \E n \in Morph : OwnsPolicy(n, x)'
    BY DEF PoliciesAccountedFor, OwnsPolicy
  <1>1. CASE x \in policies
    BY <1>1 DEF LateCall, PoliciesAccountedFor, OwnsPolicy, InFlight, ctxVars
  <1>2. CASE x \notin policies
    <2>1. c.by \in Morph /\ c.tool \in faults[c.by] /\ request_id[c.by] # None
      BY DEF RecordInv, LateIsFault, TypeInv, Registered, TypeOK, Calls
    <2>2. ToolsTypeOK /\ ~UNCHANGED policies /\ ~(policies' \subseteq policies)
      BY <1>2 DEF TypeInv, TypeOK
    <2>3. c.tool = "reroute_lb" /\ PolicyOf[request_id[c.by]] = x.name
      BY <1>2, <2>2, RerouteFacts
      DEF LateCall, Perform, RouteToGhostShell, TerminateHoneypot, CleanupLbRule, DeletePolicy,
          TerminateHalfway
    <2>4. OwnsPolicy(c.by, x)'
      BY <2>1, <2>3 DEF LateCall, OwnsPolicy, ctxVars
    <2>5. QED
      BY <2>1, <2>4
  <1>3. QED
    BY <1>1, <1>2

\* At an MCP server that has the load balancer's id, every reroute policy that stands
\* has a running task that has it on record, or a call of its request went wrong: an
\* engagement whose calls succeed leaves none behind, whichever await it was cancelled at
\* (run, _rollback, _drive).
THEOREM PoliciesNeverLost == Spec => []PoliciesAccountedFor
  <1>1. Init => PoliciesAccountedFor
    BY DEF Init, ToolsInit, PoliciesAccountedFor
  <1>2. TypeInv /\ RecordInv /\ PoliciesAccountedFor /\ [Next]_vars => PoliciesAccountedFor'
    <2> SUFFICES ASSUME TypeInv, RecordInv, PoliciesAccountedFor, [Next]_vars
                 PROVE  PoliciesAccountedFor'
      OBVIOUS
    <2>1. ASSUME NEW m \in Morph, NEW i \in Ids, ReceiveSignal(m, i)
          PROVE  PoliciesAccountedFor'
      <3>1. request_id[m] = None
        BY <2>1 DEF ReceiveSignal, TypeInv, Registered
      <3>2. /\ UNCHANGED <<policies, faults, lb_rule_id>>
            /\ \A n \in Morph : n # m => task'[n] = task[n] /\ request_id'[n] = request_id[n]
        BY <2>1 DEF ReceiveSignal, Suspend, toolVars, TypeInv, TypeOK
      <3>3. QED
        BY <3>1, <3>2 DEF PoliciesAccountedFor, InFlight
    <2>2. ASSUME NEW m \in Morph, Step(m)
          PROVE  PoliciesAccountedFor'
      BY <2>2, PoliciesStep
    <2>3. ASSUME NEW c \in late, LateCall(c)
          PROVE  PoliciesAccountedFor'
      BY <2>3, PoliciesLate
    <2>4. CASE UNCHANGED <<ctxVars, task, faults, policies>>
      BY <2>4 DEF ctxVars, PoliciesAccountedFor, InFlight
    <2>5. ASSUME NEW q \in Policies, ReroutePurged(q)
          PROVE  PoliciesAccountedFor'
      <3>1. policies' \subseteq policies /\ UNCHANGED <<ctxVars, task, faults>>
        BY <2>5 DEF ReroutePurged, PurgePolicy, DeletePolicy
      <3>2. QED
        BY <3>1 DEF PoliciesAccountedFor, InFlight, ctxVars
    <2>6. QED
      BY <2>1, <2>2, <2>3, <2>4, <2>5
      DEF Next, AdminReset, Shutdown, GhostShellActs, SessionExpires, Visit, vars, toolVars
  <1>3. QED
    BY <1>1, <1>2, TypeInvariance, RecordInvariance, PTL DEF Spec

\* A session that a step leaves live was live before it, or m created it and
\* accounts for it.
LEMMA SessionOrigin ==
  ASSUME TypeInv, RecordInv, NEW m \in Morph, Step(m),
         NEW a \in leased'
  PROVE  (a \in leased /\ session'[a] = session[a]) \/ OwnsSession(m, a)'
  <1> USE DEF TypeInv, TypeOK, ToolsTypeOK, OwnsSession
  <1>0. request_id[m] \in Ids /\ request_id'[m] = request_id[m] /\ request_id[m] # None
    BY StepRegistered, RegisteredFacts, Constants
  <1>1. CASE UNCHANGED <<session, leased>>
    BY <1>1
  <1>2. CASE Assigned(m)
    <2>1. CASE AddressOf[request_id[m]] = a
      <3>1. ghost_session_id'[m] = session'[a]
        BY <1>2, <2>1 DEF Assigned
      <3>2. session'[a] # 0
        <4>1. a \in Addresses
          BY <1>0, <2>1, Constants
        <4>2. QED
          BY <1>2, <2>1, <4>1 DEF Assigned, RouteToGhostShell, GetOrCreate
      <3>3. task'[m] \in {"rolling", "calling"}
        BY <1>2, <2>1, <3>2 DEF Assigned, Attempt, StartRollback, Suspend
      <3>4. QED
        BY <1>0, <2>1, <3>1, <3>3 DEF InFlight
    <2>2. CASE AddressOf[request_id[m]] # a
      BY <1>2, <2>2 DEF Assigned, RouteToGhostShell, GetOrCreate
    <2>3. QED
      BY <2>1, <2>2
  <1>3. CASE ErrorAnswer(m)
    <2>1. CASE ToolOf(m) = "route_to_ghost_shell"
      <3>1. faults'[m] \cap {"route_to_ghost_shell", "terminate_honeypot"} # {}
        BY <1>3, <2>1 DEF ErrorAnswer, Fault
      <3>2. AddressOf[request_id[m]] = a \/ (a \in leased /\ session'[a] = session[a])
        BY <1>3, <2>1
        DEF ErrorAnswer, Perform, CallOf, RouteToGhostShell, GetOrCreate, toolVars
      <3>3. QED
        BY <1>0, <3>1, <3>2
    <2>2. CASE ToolOf(m) # "route_to_ghost_shell"
      BY <1>3, <2>2
      DEF ErrorAnswer, Perform, CallOf, RerouteLb, RerouteHalfway, TerminateHoneypot,
          TerminateHalfway, EndSession, toolVars
    <2>3. QED
      BY <2>1, <2>2
  <1>4. CASE TerminateSucceeds(m)
    BY <1>4 DEF TerminateSucceeds, TerminateHoneypot, TerminateHalfway, EndSession
  <1>5. QED
    BY <1>1, <1>2, <1>3, <1>4
    DEF Step, BelowGate, Engage, Rerouted, RerouteLb, Watched, Terminated,
        StepFails, Retry, RolledBack, Cancelled, UnwindingTimesOut, TimesOut, GiveUp,
        toolVars

\* A task keeps accounting for a session until it ended it.
LEMMA SessionKept ==
  ASSUME TypeInv, RecordInv, NEW m \in Morph, Step(m),
         NEW a \in leased, a \in leased', session'[a] = session[a], OwnsSession(m, a)
  PROVE  OwnsSession(m, a)'
  <1>0. request_id' = request_id /\ RecordOf(m)
    BY StepRegistered DEF RecordInv
  <1>1. CASE faults[m] \cap {"route_to_ghost_shell", "terminate_honeypot"} # {}
    BY <1>0, <1>1, FaultsGrow DEF OwnsSession
  <1>2. CASE InFlight(m) /\ ghost_session_id[m] = session[a]
    <2> USE DEF TypeInv, TypeOK, ToolsTypeOK
    <2> SUFFICES \/ InFlight(m)' /\ ghost_session_id'[m] = session[a]
                 \/ "terminate_honeypot" \in faults'[m]
      BY <1>0 DEF OwnsSession
    <2>1. ghost_session_id[m] # 0 /\ task[m] # "created"
      BY <1>0, <1>2 DEF RecordOf
    <2>2. CASE BelowGate(m) \/ Engage(m) \/ Assigned(m)
      BY <1>0, <2>1, <2>2 DEF BelowGate, Engage, Assigned, Running, RecordOf
    <2>3. CASE Rerouted(m) \/ Watched(m) \/ Retry(m)
      BY <1>2, <2>1, <2>3
      DEF Rerouted, Watched, Retry, Attempt, StartRollback, Suspend, InFlight
    <2>4. CASE StepFails(m)
      BY <1>2, <2>1, <2>4 DEF StepFails, StartRollback, Suspend, InFlight
    <2>5. CASE Terminated(m) \/ RolledBack(m) \/ UnwindingTimesOut(m)
      <3>1. ToolOf(m) = "terminate_honeypot"
        BY <2>5 DEF Terminated, RolledBack, UnwindingTimesOut, Running, ToolOf
      <3>2. TerminateSucceeds(m) \/ Fault(m, "terminate_honeypot")
        BY <2>5, <3>1 DEF Terminated, RolledBack, UnwindingTimesOut, TimesOut, GiveUp,
                          ErrorAnswer
      <3>3. ~EndSession(ghost_session_id[m])
        BY <1>2, <2>1 DEF EndSession
      <3>4. QED
        BY <3>2, <3>3 DEF TerminateSucceeds, TerminateHoneypot, TerminateHalfway, Fault
    <2>6. CASE Cancelled(m)
      <3>1. CASE task[m] = "unwinding"
        BY <2>6, <3>1 DEF Cancelled, Waiting, GiveUp, Fault, ToolOf
      <3>2. CASE task[m] # "unwinding"
        BY <1>2, <2>1, <2>6, <3>2 DEF Cancelled, StartRollback, Suspend, InFlight
      <3>3. QED
        BY <3>1, <3>2
    <2>7. QED
      BY <2>2, <2>3, <2>4, <2>5, <2>6 DEF Step
  <1>3. QED
    BY <1>1, <1>2 DEF OwnsSession

LEMMA SessionsStep ==
  ASSUME TypeInv, RecordInv, SessionsAccountedFor, NEW m \in Morph, Step(m)
  PROVE  SessionsAccountedFor'
  <1> SUFFICES ASSUME NEW a \in leased'
               PROVE  \E n \in Morph : OwnsSession(n, a)'
    BY DEF SessionsAccountedFor, OwnsSession
  <1>1. CASE a \in leased /\ session'[a] = session[a]
    <2>1. PICK n \in Morph : OwnsSession(n, a)
      BY <1>1 DEF SessionsAccountedFor, OwnsSession
    <2>2. CASE n = m
      BY <1>1, <2>1, <2>2, SessionKept
    <2>3. CASE n # m
      BY <1>1, <2>1, <2>3, StepFrame, StepRegistered DEF OwnsSession, InFlight
    <2>4. QED
      BY <2>2, <2>3
  <1>2. CASE ~(a \in leased /\ session'[a] = session[a])
    BY <1>2, SessionOrigin
  <1>3. QED
    BY <1>1, <1>2

\* A late call can only leave a session to the address of the request that made
\* it.
LEMMA SessionsLate ==
  ASSUME TypeInv, RecordInv, SessionsAccountedFor, NEW c \in late, LateCall(c)
  PROVE  SessionsAccountedFor'
  <1> SUFFICES ASSUME NEW a \in leased'
               PROVE  \E n \in Morph : OwnsSession(n, a)'
    BY DEF SessionsAccountedFor, OwnsSession
  <1>1. CASE a \in leased /\ session'[a] = session[a]
    BY <1>1 DEF LateCall, SessionsAccountedFor, OwnsSession, InFlight, ctxVars
  <1>2. CASE ~(a \in leased /\ session'[a] = session[a])
    <2>1. c.by \in Morph /\ c.tool \in faults[c.by] /\ request_id[c.by] # None
      BY DEF RecordInv, LateIsFault, TypeInv, Registered, TypeOK, Calls
    <2>2. c.tool = "route_to_ghost_shell" /\ AddressOf[request_id[c.by]] = a
      BY <1>2
      DEF LateCall, Perform, RouteToGhostShell, GetOrCreate, RerouteLb, RerouteHalfway, RerouteStale,
          TerminateHoneypot, TerminateHalfway, EndSession, TypeInv, TypeOK, ToolsTypeOK
    <2>3. OwnsSession(c.by, a)'
      BY <2>1, <2>2 DEF LateCall, OwnsSession, ctxVars
    <2>4. QED
      BY <2>1, <2>3
  <1>3. QED
    BY <1>1, <1>2

\* Every decoy session that is live has a running task that has it on record, or
\* a call of a request of its address went wrong (_assigning, _rollback, _drive).
THEOREM SessionsNeverLost == Spec => []SessionsAccountedFor
  <1>1. Init => SessionsAccountedFor
    BY DEF Init, ToolsInit, SessionsAccountedFor
  <1>2. TypeInv /\ RecordInv /\ SessionsAccountedFor /\ [Next]_vars => SessionsAccountedFor'
    <2> SUFFICES ASSUME TypeInv, RecordInv, SessionsAccountedFor, [Next]_vars
                 PROVE  SessionsAccountedFor'
      OBVIOUS
    <2>1. ASSUME NEW m \in Morph, NEW i \in Ids, ReceiveSignal(m, i)
          PROVE  SessionsAccountedFor'
      <3>1. request_id[m] = None
        BY <2>1 DEF ReceiveSignal, TypeInv, Registered
      <3>2. /\ UNCHANGED <<session, leased, faults, ghost_session_id>>
            /\ \A n \in Morph : n # m => task'[n] = task[n] /\ request_id'[n] = request_id[n]
        BY <2>1 DEF ReceiveSignal, Suspend, toolVars, TypeInv, TypeOK
      <3>3. QED
        BY <3>1, <3>2 DEF SessionsAccountedFor, InFlight
    <2>2. ASSUME NEW m \in Morph, Step(m)
          PROVE  SessionsAccountedFor'
      BY <2>2, SessionsStep
    <2>3. ASSUME NEW c \in late, LateCall(c)
          PROVE  SessionsAccountedFor'
      BY <2>3, SessionsLate
    <2>4. ASSUME NEW b \in Addresses, GhostShellActs(b)
          PROVE  SessionsAccountedFor'
      BY <2>4 DEF GhostShellActs, SessionExpires, Visit, GetOrCreate, ctxVars,
                  SessionsAccountedFor, InFlight, TypeInv, TypeOK, ToolsTypeOK
    <2>5. CASE UNCHANGED <<ctxVars, task, faults, session, leased>>
      BY <2>5 DEF ctxVars, SessionsAccountedFor, InFlight
    <2>6. QED
      BY <2>1, <2>2, <2>3, <2>4, <2>5
      DEF Next, AdminReset, Shutdown, ReroutePurged, PurgePolicy, vars, toolVars
  <1>3. QED
    BY <1>1, <1>2, TypeInvariance, RecordInvariance, PTL DEF Spec

-----------------------------------------------------------------------------
(* Idempotence *)

\* A task does nothing to the store but save its context.
LEMMA StepSaves ==
  ASSUME TypeInv, NEW m \in Morph, Step(m)
  PROVE  /\ request_id[m] \in Ids /\ ACTIVE \in Stores
         /\ ACTIVE' = ACTIVE \/ ACTIVE' = Put(ACTIVE, request_id[m], m)
  <1>1. request_id[m] \in Ids /\ ACTIVE \in Stores
    BY StepRegistered, RegisteredFacts DEF TypeInv, TypeOK
  <1>2. ACTIVE' = ACTIVE \/ ACTIVE' = Put(ACTIVE, request_id[m], m)
    BY DEF Step, BelowGate, Engage, Assigned, Rerouted, Watched, Terminated, StepFails,
           Retry, RolledBack, Cancelled, UnwindingTimesOut, Attempt, StartRollback, To
  <1>3. QED
    BY <1>1, <1>2

\* So it never removes a request from the store.
LEMMA StepTracks ==
  ASSUME TypeInv, NEW m \in Morph, Step(m)
  PROVE  Keys(ACTIVE) \subseteq Keys(ACTIVE')
  BY StepSaves, PutFacts

Idempotence == LiveIsTracked /\ OneEngagementPerRequest

\* A task does not revive an engagement.
LEMMA IdempotenceStep ==
  ASSUME TypeInv, Idempotence, NEW m \in Morph, Step(m)
  PROVE  Idempotence'
  <1>1. \A n \in Morph : Live(n)' => Live(n)
    <2> SUFFICES ASSUME NEW n \in Morph, Live(n)'
                 PROVE  Live(n)
      OBVIOUS
    <2>1. CASE n # m
      BY <2>1, StepFrame DEF Live, InFlight
    <2>2. CASE n = m
      BY <2>2
      DEF Live, Step, BelowGate, Engage, Assigned, Rerouted, Watched, Terminated,
          StepFails, Retry, RolledBack, Cancelled, UnwindingTimesOut, Running, InFlight,
          TypeInv, TypeOK
    <2>3. QED
      BY <2>1, <2>2
  <1>2. QED
    BY <1>1, StepTracks, StepRegistered
    DEF Idempotence, LiveIsTracked, OneEngagementPerRequest

LEMMA IdempotenceInvariance ==
  ASSUME IsFiniteSet(Ids), Cardinality(Ids) <= MAX_ACTIVE
  PROVE  Spec => []Idempotence
  <1>1. Init => Idempotence
    BY DEF Init, Live, InFlight, Idempotence, LiveIsTracked, OneEngagementPerRequest
  <1>2. TypeInv /\ Idempotence /\ [Next]_vars => Idempotence'
    <2> SUFFICES ASSUME TypeInv, Idempotence, [Next]_vars
                 PROVE  Idempotence'
      OBVIOUS
    <2> USE DEF Idempotence, LiveIsTracked, OneEngagementPerRequest
    <2>1. ASSUME NEW m \in Morph, NEW i \in Ids, ReceiveSignal(m, i)
          PROVE  Idempotence'
      <3>1. ACTIVE' = Put(ACTIVE, i, m)
        <4>1. Put(ACTIVE, i, m) \in Stores
          BY PutType DEF TypeInv, TypeOK
        <4>2. Cardinality(Keys(Put(ACTIVE, i, m))) <= MAX_ACTIVE
          BY <4>1, KeysBound, Constants
        <4>3. ~(Cardinality(Keys(Put(ACTIVE, i, m))) > MAX_ACTIVE)
          BY <4>1, <4>2, KeysBound, Constants
        <4>4. QED
          BY <2>1, <4>3 DEF ReceiveSignal
      <3>2. Keys(ACTIVE') = Keys(ACTIVE) \cup {i} /\ i \notin Keys(ACTIVE)
        <4>1. i \notin Keys(ACTIVE)
          BY <2>1 DEF ReceiveSignal, Duplicate
        <4>2. ACTIVE \in Stores
          BY DEF TypeInv, TypeOK
        <4>3. QED
          BY <3>1, <4>1, <4>2, PutFacts
      <3>3. /\ request_id'[m] = i
            /\ \A n \in Morph : n # m => request_id'[n] = request_id[n] /\ (Live(n)' <=> Live(n))
        BY <2>1 DEF ReceiveSignal, Suspend, Live, InFlight, TypeInv, TypeOK
      <3>4. QED
        BY <3>2, <3>3
    <2>2. ASSUME NEW m \in Morph, Step(m)
          PROVE  Idempotence'
      BY <2>2, IdempotenceStep
    <2>3. CASE AdminReset \/ Shutdown
      <3>1. \A n \in Morph : ~Live(n)'
        BY <2>3 DEF AdminReset, Shutdown, CancelAll, Live, InFlight, TypeInv, TypeOK
      <3>2. QED
        BY <3>1
    <2>4. CASE UNCHANGED <<ACTIVE, ctxVars, task, cancel>>
      BY <2>4 DEF ctxVars, Live, InFlight
    <2>5. QED
      BY <2>1, <2>2, <2>3, <2>4 DEF Next, LateCall, GhostShellActs, ReroutePurged, vars
  <1>3. QED
    BY <1>1, <1>2, TypeInvariance, PTL DEF Spec

\* While the store never has to evict, a live engagement is tracked, so that /state
\* and a repeated signal find it (receive_signal). The run of a store of capacity
\* two shows what eviction still promises.
THEOREM LiveStaysTracked ==
  ASSUME IsFiniteSet(Ids), Cardinality(Ids) <= MAX_ACTIVE
  PROVE  Spec => []LiveIsTracked
  <1>1. Idempotence => LiveIsTracked
    BY DEF Idempotence
  <1>2. QED
    BY <1>1, IdempotenceInvariance, PTL

\* While the store never has to evict, a request has at most one live engagement,
\* however often its signal is repeated (receive_signal).
THEOREM SignalsAreIdempotent ==
  ASSUME IsFiniteSet(Ids), Cardinality(Ids) <= MAX_ACTIVE
  PROVE  Spec => []OneEngagementPerRequest
  <1>1. Idempotence => OneEngagementPerRequest
    BY DEF Idempotence
  <1>2. QED
    BY <1>1, IdempotenceInvariance, PTL

-----------------------------------------------------------------------------
(* The documented life cycle *)


\* Where a task is suspended determines the state of its context; only the
\* handler of a cancellation leaves ROLLBACK behind.
PlaceOf(m) ==
  /\ task[m] \in {"none", "created"} => state[m] = "idle" /\ thought_steps[m] = 0
  /\ task[m] = "watching" => state[m] = "monitoring"
  /\ task[m] \in {"rolling", "unwinding"} => state[m] = "rollback"
  /\ task[m] = "unwinding" => cancel[m] # "no"
  /\ task[m] = "done" =>
       state[m] \in {"idle", "error", "rollback"}
       /\ (cancel[m] = "no" => state[m] \in Terminal)

PlaceInv == \A m \in Morph : PlaceOf(m)

LEMMA PlaceStep ==
  ASSUME TypeInv, RecordInv, PlaceInv, NEW m \in Morph, Step(m)
  PROVE  PlaceInv'
  <1>1. ASSUME NEW n \in Morph, n # m
        PROVE  PlaceOf(n)'
    BY <1>1, StepFrame DEF PlaceInv, PlaceOf
  <1>2. PlaceOf(m)'
    <2> USE DEF PlaceOf, TypeInv, TypeOK, Suspend, To, Terminal
    <2>0. PlaceOf(m) /\ RecordOf(m)
      BY DEF PlaceInv, RecordInv
    <2>1. CASE BelowGate(m) \/ Terminated(m) \/ RolledBack(m)
      BY <2>0, <2>1 DEF BelowGate, Terminated, RolledBack
    <2>2. CASE Engage(m) \/ Assigned(m) \/ Rerouted(m) \/ Watched(m)
      BY <2>0, <2>2
      DEF Engage, Assigned, Rerouted, Watched, Running, Attempt, StartRollback
    <2>3. CASE StepFails(m)
      BY <2>0, <2>3 DEF StepFails, Running, StartRollback
    <2>4. CASE Retry(m)
      BY <2>0, <2>4 DEF Retry, Running, Attempt, StartRollback, RecordOf
    <2>5. CASE Cancelled(m)
      BY <2>0, <2>5 DEF Cancelled, StartRollback
    <2>6. CASE UnwindingTimesOut(m)
      BY <2>0, <2>6 DEF UnwindingTimesOut, Running, ctxVars, runVars
    <2>7. QED
      BY <2>1, <2>2, <2>3, <2>4, <2>5, <2>6 DEF Step
  <1>3. QED
    BY <1>1, <1>2 DEF PlaceInv

LEMMA PlaceInvariance == Spec => []PlaceInv
  <1>1. Init => PlaceInv
    BY DEF Init, PlaceInv, PlaceOf
  <1>2. TypeInv /\ RecordInv /\ PlaceInv /\ [Next]_vars => PlaceInv'
    <2> SUFFICES ASSUME TypeInv, RecordInv, PlaceInv, [Next]_vars
                 PROVE  PlaceInv'
      OBVIOUS
    <2> USE DEF PlaceInv, PlaceOf
    <2>1. ASSUME NEW m \in Morph, NEW i \in Ids, ReceiveSignal(m, i)
          PROVE  PlaceInv'
      BY <2>1 DEF ReceiveSignal, Suspend, runVars, TypeInv, TypeOK
    <2>2. ASSUME NEW m \in Morph, Step(m)
          PROVE  PlaceInv'
      BY <2>2, PlaceStep
    <2>3. CASE AdminReset \/ Shutdown
      BY <2>3 DEF AdminReset, Shutdown, CancelAll, InFlight, ctxVars, runVars, TypeInv, TypeOK
    <2>4. CASE UNCHANGED <<ctxVars, runVars, task, cancel>>
      BY <2>4 DEF ctxVars, runVars
    <2>5. QED
      BY <2>1, <2>2, <2>3, <2>4 DEF Next, LateCall, GhostShellActs, ReroutePurged, vars
  <1>3. QED
    BY <1>1, <1>2, TypeInvariance, RecordInvariance, PTL DEF Spec

\* A task that was not cancelled ends in a state that evict_terminal can free.
THEOREM EndsAreEvictable == Spec => []EndsEvictable
  <1>1. PlaceInv => EndsEvictable
    BY DEF PlaceInv, PlaceOf, EndsEvictable
  <1>2. QED
    BY <1>1, PlaceInvariance, PTL

\* Eviction spares a started live engagement: its context is in none of the states
\* that evict_terminal frees, and neither a save nor another signal removes its entry.
THEOREM StartedIsNeverEvicted == Spec => StartedStaysTracked
  <1>1. TypeInv /\ RecordInv /\ PlaceInv /\ [Next]_vars =>
          [\A m \in Morph :
             /\ Live(m) /\ task[m] # "created" /\ Live(m)'
             /\ ACTIVE.ctx[request_id[m]] = m
             => request_id[m] \in Keys(ACTIVE)']_vars
    <2> SUFFICES ASSUME TypeInv, RecordInv, PlaceInv, [Next]_vars, NEW m \in Morph,
                        Live(m), task[m] # "created", Live(m)', ACTIVE.ctx[request_id[m]] = m
                 PROVE  request_id[m] \in Keys(ACTIVE')
      BY DEF Keys
    <2>1. task[m] # "none" /\ task[m] \in {"calling", "backoff", "watching", "rolling", "unwinding"}
      BY DEF Live, InFlight, TypeInv, TypeOK, TaskState
    <2>2. state[m] \notin Terminal
      BY <2>1 DEF PlaceInv, PlaceOf, RecordInv, RecordOf, Terminal
    <2>3. /\ request_id[m] \in Ids /\ ACTIVE \in Stores
          /\ request_id[m] \in Keys(ACTIVE)
      BY <2>1, RegisteredFacts, NoneAssumption DEF TypeInv, TypeOK, Keys
    <2>4. ASSUME NEW n \in Morph, NEW i \in Ids, ReceiveSignal(n, i)
          PROVE  request_id[m] \in Keys(ACTIVE')
      <3> DEFINE added    == Put(ACTIVE, i, n)
                 terminal == {x \in Morph : state[x] \in Terminal}
                 left     == evict_terminal(added, MAX_ACTIVE, terminal)
      <3>1. ACTIVE' = left \/ ACTIVE' = added
        BY <2>4 DEF ReceiveSignal
      <3>2. i # request_id[m]
        BY <2>3, <2>4 DEF ReceiveSignal, Duplicate
      <3>3. /\ added \in Stores /\ added.ctx[request_id[m]] = m
            /\ request_id[m] \in Keys(added)
        BY <2>3, <3>2, PutType, PutFacts
      <3>4. m \notin terminal
        BY <2>2
      <3> HIDE DEF added, terminal
      <3>5. left.ctx[request_id[m]] = m
        BY <3>3, <3>4, EvictFacts, Constants
      <3>6. request_id[m] \in Keys(left)
        BY <2>3, <3>5, NoneAssumption DEF Keys
      <3> QED BY <3>1, <3>3, <3>6
    <2>5. ASSUME NEW n \in Morph, Step(n)
          PROVE  request_id[m] \in Keys(ACTIVE')
      BY <2>3, <2>5, StepTracks
    <2>6. CASE AdminReset \/ Shutdown
      BY <2>6 DEF AdminReset, Shutdown, CancelAll, Live, InFlight, TypeInv, TypeOK
    <2>7. CASE UNCHANGED ACTIVE
      BY <2>3, <2>7
    <2> QED BY <2>4, <2>5, <2>6, <2>7 DEF Next, LateCall, GhostShellActs, ReroutePurged, vars
  <1> QED BY <1>1, TypeInvariance, RecordInvariance, PlaceInvariance, PTL
          DEF Spec, StartedStaysTracked

\* The store is such that the loop of evict_terminal can list its keys in the order of
\* their insertion, and pops what is evicted: the oldest that may go, no more of them
\* than are too many.
LoopEvicts(s) ==
  \E keys \in Seq(Ids) :
    /\ InOrder(s, keys)
    /\ \A max \in Nat, terminal \in SUBSET Morph :
         Popped(s, max, terminal, keys) = Evicted(s, max, terminal)

\* Whatever signal is accepted next, what evict_terminal pops from the store it was
\* added to is what the model says in one go.
THEOREM EvictionIsTheLoop ==
  Spec => [](\A m \in Morph, i \in Ids : LoopEvicts(Put(ACTIVE, i, m)))
  <1>1. Init => Numbered(ACTIVE)
    BY EmptyStoreFacts DEF Init, Numbered
  <1>2. TypeInv /\ Numbered(ACTIVE) /\ [Next]_vars => Numbered(ACTIVE)'
    <2> SUFFICES ASSUME TypeInv, Numbered(ACTIVE), [Next]_vars
                 PROVE  Numbered(ACTIVE')
      OBVIOUS
    <2>0. ACTIVE \in Stores
      BY DEF TypeInv, TypeOK
    <2>1. ASSUME NEW m \in Morph, NEW i \in Ids, ReceiveSignal(m, i)
          PROVE  Numbered(ACTIVE')
      <3> DEFINE added    == Put(ACTIVE, i, m)
                 terminal == {x \in Morph : state[x] \in Terminal}
      <3>1. ACTIVE' = evict_terminal(added, MAX_ACTIVE, terminal) \/ ACTIVE' = added
        BY <2>1 DEF ReceiveSignal
      <3>2. added \in Stores /\ Numbered(added)
        BY <2>0, PutType, PutNumbered
      <3> HIDE DEF added, terminal
      <3> QED BY <3>1, <3>2, EvictNumbered
    <2>2. ASSUME NEW m \in Morph, Step(m)
          PROVE  Numbered(ACTIVE')
      BY <2>2, StepSaves, PutNumbered
    <2>3. CASE AdminReset
      BY <2>3, EmptyStoreFacts DEF AdminReset, Numbered
    <2>4. CASE UNCHANGED ACTIVE
      BY <2>4
    <2> QED BY <2>1, <2>2, <2>3, <2>4
            DEF Next, Shutdown, LateCall, GhostShellActs, ReroutePurged, vars
  <1>3. TypeInv /\ Numbered(ACTIVE) => \A m \in Morph, i \in Ids : LoopEvicts(Put(ACTIVE, i, m))
    <2> SUFFICES ASSUME TypeInv, Numbered(ACTIVE), NEW m \in Morph, NEW i \in Ids
                 PROVE  LoopEvicts(Put(ACTIVE, i, m))
      OBVIOUS
    <2> DEFINE added == Put(ACTIVE, i, m)
    <2>1. added \in Stores /\ Numbered(added)
      BY PutType, PutNumbered DEF TypeInv, TypeOK
    <2> HIDE DEF added
    <2>2. PICK keys \in Seq(Ids) : InOrder(added, keys)
      BY <2>1, OrderExists
    <2>3. \A max \in Nat, terminal \in SUBSET Morph :
            Popped(added, max, terminal, keys) = Evicted(added, max, terminal)
      BY <2>1, <2>2, LoopPopsEvicted
    <2>4. LoopEvicts(added)
      BY <2>2, <2>3 DEF LoopEvicts
    <2> QED BY <2>4 DEF added
  <1> QED BY <1>1, <1>2, <1>3, TypeInvariance, PTL DEF Spec

Inv == TypeInv /\ RecordInv /\ PlaceInv

\* A step of a task is an arrow of the life cycle or leaves the phase alone.
LEMMA PhaseStep ==
  ASSUME Inv, NEW m \in Morph, Step(m)
  PROVE  \/ PhaseOf(m)' = PhaseOf(m)
         \/ PhaseOf(m)' \in Lifecycle!Phases /\ <<PhaseOf(m), PhaseOf(m)'>> \in Lifecycle!Arrows
  <1> USE DEF Inv, PhaseOf, InFlight, Suspend, To, Lifecycle!Phases, Lifecycle!Arrows,
              Lifecycle!Ends, TypeInv, TypeOK
  <1>0. PlaceOf(m) /\ RecordOf(m)
    BY DEF PlaceInv, RecordInv
  <1>1. CASE BelowGate(m)
    BY <1>0, <1>1 DEF BelowGate, Running
  <1>2. CASE Engage(m)
    BY <1>0, <1>2, Constants DEF Engage, Running, Attempt, PlaceOf
  <1>3. CASE Assigned(m)
    BY <1>0, <1>3, RecordStep DEF Assigned, Running, Attempt, StartRollback, RecordOf, RecordInv
  <1>4. CASE Rerouted(m)
    BY <1>0, <1>4 DEF Rerouted, Running, Attempt, StartRollback, RecordOf
  <1>5. CASE Watched(m)
    BY <1>0, <1>5 DEF Watched, Running, Attempt, StartRollback, RecordOf, PlaceOf
  <1>6. CASE Terminated(m)
    BY <1>0, <1>6 DEF Terminated, Running
  <1>7. CASE StepFails(m)
    BY <1>0, <1>7 DEF StepFails, Running, StartRollback, RecordOf
  <1>8. CASE Retry(m)
    BY <1>0, <1>8 DEF Retry, Running, Attempt, StartRollback, RecordOf
  <1>9. CASE RolledBack(m)
    BY <1>0, <1>9 DEF RolledBack, Running, PlaceOf
  <1>10. CASE Cancelled(m)
    <2>1. CASE task[m] \in {"created", "unwinding"}
      BY <1>0, <1>10, <2>1 DEF Cancelled, PlaceOf
    <2>2. CASE task[m] \in {"watching", "rolling"}
      BY <1>0, <1>10, <2>2 DEF Cancelled, StartRollback, PlaceOf, RecordOf
    <2>3. CASE task[m] \in {"calling", "backoff"}
      <3>1. state[m] \in {"assigning", "rerouting", "terminating"}
        BY <1>0, <2>3 DEF RecordOf
      <3>2. StartRollback(m, "unwinding", ghost_session_id[m])
        BY <1>10, <2>3 DEF Cancelled
      <3>3. CASE ghost_session_id[m] # 0
        <4>1. state'[m] = "rollback" /\ task'[m] = "unwinding"
          BY <3>2, <3>3 DEF StartRollback
        <4>2. QED
          BY <3>1, <4>1, <2>3
      <3>4. CASE ghost_session_id[m] = 0
        <4>1. state'[m] = "error" /\ task'[m] = "done"
          BY <3>2, <3>4 DEF StartRollback
        <4>2. state[m] = "assigning"
          BY <1>0, <2>3, <3>1, <3>4 DEF RecordOf
        <4>3. QED
          BY <4>1, <4>2, <2>3
      <3>5. QED
        BY <3>3, <3>4
    <2>4. QED
      BY <1>10, <2>1, <2>2, <2>3 DEF Cancelled, TaskState
  <1>11. CASE UnwindingTimesOut(m)
    BY <1>0, <1>11 DEF UnwindingTimesOut, Running, PlaceOf, ctxVars
  <1>12. QED
    BY <1>1, <1>2, <1>3, <1>4, <1>5, <1>6, <1>7, <1>8, <1>9, <1>10, <1>11 DEF Step

\* The phase of a task that does not move stays.
LEMMA PhaseFrame ==
  ASSUME NEW m \in Morph, UNCHANGED <<task[m], state[m]>>
  PROVE  PhaseOf(m)' = PhaseOf(m)
BY DEF PhaseOf, InFlight

\* The orchestrator implements the documented life cycle, for every number of
\* morphs and whatever errors and cancellations it meets.
THEOREM LifecycleImplemented == Spec => ImplementsLifecycle
  <1> DEFINE phase == [m \in Morph |-> PhaseOf(m)]
  <1>1. Init => Lifecycle!Init
    BY DEF Init, Lifecycle!Init, PhaseOf, InFlight
  <1>2. Inv /\ [Next]_vars => [Lifecycle!Next]_phase
    <2> SUFFICES ASSUME Inv, [Next]_vars
                 PROVE  Lifecycle!Next \/ phase' = phase
      OBVIOUS
    <2>1. ASSUME NEW m \in Morph,
                 \A n \in Morph : n # m => PhaseOf(n)' = PhaseOf(n),
                 \/ PhaseOf(m)' = PhaseOf(m)
                 \/ /\ PhaseOf(m)' \in Lifecycle!Phases
                    /\ <<PhaseOf(m), PhaseOf(m)'>> \in Lifecycle!Arrows
          PROVE  Lifecycle!Next \/ phase' = phase
      <3>1. phase' = [phase EXCEPT ![m] = PhaseOf(m)']
        BY <2>1
      <3>2. CASE PhaseOf(m)' = PhaseOf(m)
        BY <3>1, <3>2
      <3>3. CASE /\ PhaseOf(m)' \in Lifecycle!Phases
                 /\ <<PhaseOf(m), PhaseOf(m)'>> \in Lifecycle!Arrows
        BY <3>1, <3>3 DEF Lifecycle!Next, Lifecycle!Move
      <3>4. QED
        BY <2>1, <3>2, <3>3
    <2>2. ASSUME NEW m \in Morph, NEW i \in Ids, ReceiveSignal(m, i)
          PROVE  Lifecycle!Next \/ phase' = phase
      <3>1. task[m] = "none" /\ task'[m] = "created"
        BY <2>2 DEF ReceiveSignal, Suspend, Inv, TypeInv, TypeOK
      <3>2. PhaseOf(m) = "none" /\ PhaseOf(m)' = "waiting"
        BY <3>1 DEF PhaseOf, InFlight
      <3>3. \A n \in Morph : n # m => PhaseOf(n)' = PhaseOf(n)
        <4>1. \A n \in Morph : n # m => UNCHANGED <<task[n], state[n]>>
          BY <2>2 DEF ReceiveSignal, Suspend, Inv, TypeInv, TypeOK
        <4>2. QED
          BY <4>1, PhaseFrame
      <3>4. QED
        BY <2>1, <3>2, <3>3 DEF Lifecycle!Phases, Lifecycle!Arrows
    <2>3. ASSUME NEW m \in Morph, Step(m)
          PROVE  Lifecycle!Next \/ phase' = phase
      <3>1. \A n \in Morph : n # m => PhaseOf(n)' = PhaseOf(n)
        BY <2>3, StepFrame, PhaseFrame DEF Inv
      <3>2. QED
        BY <2>1, <2>3, <3>1, PhaseStep
    <2>4. CASE UNCHANGED <<task, state>>
      BY <2>4, PhaseFrame
    <2>5. QED
      BY <2>2, <2>3, <2>4
      DEF Next, AdminReset, Shutdown, LateCall, GhostShellActs, ReroutePurged, ctxVars, vars
  <1>3. QED
    BY <1>1, <1>2, TypeInvariance, RecordInvariance, PlaceInvariance, PTL
    DEF Spec, Inv, ImplementsLifecycle, Lifecycle!Spec

-----------------------------------------------------------------------------
(* The rate limiter in front of the tools, for every rate and every window *)

LEMMA CapacityFacts == Capacity \in Nat /\ UNIT <= Capacity
  <1>1. RATE >= 1 /\ RATE \in Nat /\ UNIT \in Nat
    BY TokenBucketAssumption
  <1>2. RATE * UNIT \in Nat /\ UNIT <= RATE * UNIT
    BY <1>1
  <1>3. QED
    BY <1>2 DEF Capacity

\* Before the window nothing is counted. In it, what went out and what the
\* bucket still holds are bounded by a full bucket and the credit up to `last`:
\* the credit since then is not in the bucket yet.
WindowInv ==
  /\ BucketTypeOK
  /\ last < WindowStart => sent = 0
  /\ last >= WindowStart => sent + tokens <= Capacity + (last - WindowStart)

\* A refill is a number of units that fits the bucket.
LEMMA RefillFacts ==
  ASSUME BucketTypeOK
  PROVE  /\ Refilled \in 0..Capacity
         /\ Refilled <= tokens + (clock - last)
BY CapacityFacts DEF BucketTypeOK, Refilled, AtMost

\* The body of acquire keeps the invariant, whoever runs it.
LEMMA TakeKeeps ==
  ASSUME WindowInv, Take, clock' = clock, waiting' \in Nat, calls' \in Nat
  PROVE  WindowInv'
  <1> USE CapacityFacts, RefillFacts, TokenBucketAssumption DEF WindowInv, BucketTypeOK
  <1>1. CASE Enough(Refilled)
    <2>1. /\ last' = clock /\ tokens' = Refilled - UNIT
          /\ sent' = IF clock >= WindowStart THEN sent + UNIT ELSE sent
          /\ sleeping' = FALSE /\ wake' = 0
      BY <1>1 DEF Take
    <2>2. UNIT <= Refilled
      BY <1>1 DEF Enough
    <2>3. BucketTypeOK'
      <3>1. sleeping' \in BOOLEAN
        BY <2>1
      <3>2. tokens' \in 0..Capacity /\ last' \in 0..clock' /\ wake' \in Nat /\ sent' \in Nat
        BY <2>1, <2>2
      <3>3. QED
        BY <3>1, <3>2
    <2>4. CASE clock < WindowStart
      BY <2>1, <2>3, <2>4
    <2>5. CASE clock >= WindowStart
      <3>1. sent' + tokens' = sent + Refilled
        BY <2>1, <2>2, <2>5
      <3>2. sent + Refilled <= Capacity + (clock - WindowStart)
        BY <2>5
      <3>3. QED
        BY <2>1, <2>3, <2>5, <3>1, <3>2
    <2>6. QED
      BY <2>4, <2>5
  <1>2. CASE ~Enough(Refilled)
    <2>1. /\ last' = clock /\ tokens' = Refilled /\ sent' = sent
          /\ sleeping' = TRUE /\ wake' = clock + (UNIT - Refilled)
      BY <1>2 DEF Take
    <2>2. Refilled < UNIT
      BY <1>2 DEF Enough
    <2>3. BucketTypeOK'
      BY <2>1, <2>2
    <2>4. clock >= WindowStart => sent + Refilled <= Capacity + (clock - WindowStart)
      OBVIOUS
    <2>5. QED
      BY <2>1, <2>3, <2>4
  <1>3. QED
    BY <1>1, <1>2

LEMMA WindowInvariance == BucketSpec => []WindowInv
  <1>1. BucketInit => WindowInv
    <2>1. BucketInit => sleeping \in BOOLEAN
      BY DEF BucketInit
    <2>2. QED
      BY <2>1, CapacityFacts, TokenBucketAssumption DEF BucketInit, WindowInv, BucketTypeOK
  <1>2. WindowInv /\ [BucketNext]_bucketVars => WindowInv'
    <2> SUFFICES ASSUME WindowInv, [BucketNext]_bucketVars
                 PROVE  WindowInv'
      OBVIOUS
    <2>1. CASE Acquire \/ Enter \/ Wake
      <3>1. Take /\ clock' = clock /\ waiting' \in Nat /\ calls' \in Nat
        BY <2>1 DEF Acquire, Enter, Wake, WindowInv, BucketTypeOK
      <3>2. QED
        BY <3>1, TakeKeeps
    <2>2. CASE Queue \/ CancelHolder \/ CancelWaiter
      <3>1. sleeping' \in BOOLEAN
        BY <2>2 DEF Queue, CancelHolder, CancelWaiter, WindowInv, BucketTypeOK
      <3>2. UNCHANGED <<clock, tokens, last, sent>>
        BY <2>2 DEF Queue, CancelHolder, CancelWaiter
      <3>3. wake' \in Nat /\ waiting' \in Nat /\ calls' \in Nat
        BY <2>2 DEF Queue, CancelHolder, CancelWaiter, WindowInv, BucketTypeOK
      <3>4. QED
        BY <3>1, <3>2, <3>3 DEF WindowInv, BucketTypeOK
    <2>3. CASE Tick
      BY <2>3 DEF Tick, WindowInv, BucketTypeOK
    <2>4. CASE UNCHANGED bucketVars
      BY <2>4 DEF bucketVars, WindowInv, BucketTypeOK
    <2>5. QED
      BY <2>1, <2>2, <2>3, <2>4 DEF BucketNext
  <1>3. QED
    BY <1>1, <1>2, PTL DEF BucketSpec

\* The bucket never holds more than RATE tokens, never a negative number of them,
\* and was never refilled in the future (acquire, lines 32-38).
THEOREM BucketTypeCorrect == BucketSpec => []BucketTypeOK
  <1>1. WindowInv => BucketTypeOK
    BY DEF WindowInv
  <1>2. QED
    BY <1>1, WindowInvariance, PTL

\* From any moment on, at most one full bucket and the credit for the time since
\* leave the limiter (acquire, lines 29-44).
THEOREM WindowBoundHolds == BucketSpec => []WindowBound
  <1>1. WindowInv => WindowBound
    BY CapacityFacts, TokenBucketAssumption DEF WindowInv, BucketTypeOK, WindowBound
  <1>2. QED
    BY <1>1, WindowInvariance, PTL
=============================================================================
