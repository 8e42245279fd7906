----------------------------- MODULE MetricsProofs -----------------------------
(***************************************************************************)
(* Proofs about the metrics service, for any number of sockets, events and *)
(* resets. Walks never pass each other while no socket leaves the list, so *)
(* that the push that started last ends last, and it carries what is       *)
(* current: the invariant is about the walk that is behind all others      *)
(* (RearIsFresh).                                                          *)
(***************************************************************************)
EXTENDS Metrics, ListProofs, FiniteSetTheorems

-----------------------------------------------------------------------------
(* The sum over the sessions *)

Some(s) == CHOOSE x \in s : TRUE

\* F computes the sums over the subsets of D that have up to n elements.
SumsUpTo(F, tokens, D, n) ==
  F = [s \in {s \in SUBSET D : Cardinality(s) <= n} |->
         IF s = {} THEN 0 ELSE tokens[Some(s)] + F[s \ {Some(s)}]]

Sums(F, tokens, D) ==
  F = [s \in SUBSET D |-> IF s = {} THEN 0 ELSE tokens[Some(s)] + F[s \ {Some(s)}]]

LEMMA SmallerSet ==
  ASSUME NEW D, IsFiniteSet(D), NEW s \in SUBSET D
  PROVE  /\ IsFiniteSet(s) /\ Cardinality(s) \in Nat /\ Cardinality(s) <= Cardinality(D)
         /\ s = {} <=> Cardinality(s) = 0
         /\ s # {} => /\ Some(s) \in s /\ s \ {Some(s)} \in SUBSET D
                      /\ Cardinality(s \ {Some(s)}) = Cardinality(s) - 1
<1>1. IsFiniteSet(s) /\ Cardinality(s) <= Cardinality(D)
  BY FS_Subset
<1>2. Cardinality(s) \in Nat /\ (s = {} <=> Cardinality(s) = 0)
  BY <1>1, FS_CardinalityType, FS_EmptySet
<1>3. ASSUME s # {} PROVE Some(s) \in s
  BY <1>3 DEF Some
<1>4. ASSUME s # {} PROVE Cardinality(s \ {Some(s)}) = Cardinality(s) - 1
  <2> DEFINE x == Some(s)
  <2>1. x \in s
    BY <1>3, <1>4
  <2> HIDE DEF x
  <2>2. Cardinality(s \ {x}) = Cardinality(s) - 1
    BY <2>1, <1>1, FS_RemoveElement
  <2> QED BY <2>2 DEF x
<1> QED BY <1>1, <1>2, <1>3, <1>4

\* The recursion of the sum is well founded: some function satisfies it.
LEMMA SumsExist ==
  ASSUME NEW tokens, NEW D, IsFiniteSet(D)
  PROVE  \E F : Sums(F, tokens, D)
<1> DEFINE T == {n \in Nat : ~ \E F : SumsUpTo(F, tokens, D, n)}
<1>1. ASSUME T # {} PROVE FALSE
  <2>1. PICK n \in T : \A m \in T : n <= m
    BY <1>1, LeastNumber
  <2>2. n # 0
    <3> DEFINE F == [s \in {s \in SUBSET D : Cardinality(s) <= 0} |-> 0]
    <3>1. ASSUME NEW s \in SUBSET D, Cardinality(s) <= 0 PROVE s = {}
      <4>1. Cardinality(s) \in Nat /\ (s = {} <=> Cardinality(s) = 0)
        BY SmallerSet
      <4> QED BY <3>1, <4>1
    <3>2. SumsUpTo(F, tokens, D, 0)
      BY <3>1 DEF SumsUpTo
    <3> QED BY <3>2, <2>1
  <2>3. n \in Nat /\ n - 1 \in Nat /\ n - 1 \notin T
    BY <2>1, <2>2
  <2>4. PICK F : SumsUpTo(F, tokens, D, n - 1)
    BY <2>3
  <2> DEFINE A == {s \in SUBSET D : Cardinality(s) <= n - 1}
             B == {s \in SUBSET D : Cardinality(s) <= n}
             G == [s \in B |-> IF s = {} THEN 0 ELSE tokens[Some(s)] + F[s \ {Some(s)}]]
  <2>5. \A s \in A : s \in B /\ F[s] = IF s = {} THEN 0 ELSE tokens[Some(s)] + F[s \ {Some(s)}]
    <3>1. ASSUME NEW s \in A PROVE s \in B
      <4>1. Cardinality(s) \in Nat
        BY SmallerSet
      <4> QED BY <4>1, <2>3
    <3> QED BY <2>4, <3>1 DEF SumsUpTo
  <2>6. \A s \in A : G[s] = F[s]
    BY <2>5
  <2>7. \A s \in B : s # {} => s \ {Some(s)} \in A
    BY <2>3, SmallerSet
  <2>8. SumsUpTo(G, tokens, D, n)
    <3>1. \A s \in B : G[s] = IF s = {} THEN 0 ELSE tokens[Some(s)] + G[s \ {Some(s)}]
      BY <2>6, <2>7
    <3>2. G = [s \in B |-> G[s]]
      OBVIOUS
    <3> HIDE DEF G
    <3> QED BY <3>1, <3>2 DEF SumsUpTo
  <2> QED BY <2>1, <2>8
<1>2. Cardinality(D) \in Nat
  BY FS_CardinalityType
<1>3. PICK F : SumsUpTo(F, tokens, D, Cardinality(D))
  BY <1>1, <1>2
<1>4. {s \in SUBSET D : Cardinality(s) <= Cardinality(D)} = SUBSET D
  BY SmallerSet
<1>5. Sums(F, tokens, D)
  BY <1>3, <1>4 DEF SumsUpTo, Sums
<1> QED BY <1>5

\* total_all_sessions returns a number.
LEMMA TotalIsNat ==
  ASSUME NEW tokens, IsFiniteSet(DOMAIN tokens), \A sid \in DOMAIN tokens : tokens[sid] \in Nat
  PROVE  total_all_sessions(tokens) \in Nat
<1> DEFINE D == DOMAIN tokens
           F == CHOOSE F : Sums(F, tokens, D)
<1>1. total_all_sessions(tokens) = F[D]
  BY DEF total_all_sessions, MapThenSumSet, MapThenFoldSet, Sums, Some
<1>2. Sums(F, tokens, D)
  BY SumsExist
<1> HIDE DEF F
<1> DEFINE T == {n \in Nat : \E s \in SUBSET D : Cardinality(s) = n /\ F[s] \notin Nat}
<1>3. ASSUME T # {} PROVE FALSE
  <2>1. PICK n \in T : \A m \in T : n <= m
    BY <1>3, LeastNumber
  <2>2. PICK s \in SUBSET D : Cardinality(s) = n /\ F[s] \notin Nat
    BY <2>1
  <2>3. F[s] = IF s = {} THEN 0 ELSE tokens[Some(s)] + F[s \ {Some(s)}]
    BY <1>2 DEF Sums
  <2>4. s # {}
    BY <2>2, <2>3
  <2> DEFINE rest == s \ {Some(s)}
  <2>5. /\ Some(s) \in s /\ rest \in SUBSET D /\ n \in Nat
        /\ Cardinality(rest) \in Nat /\ Cardinality(rest) = n - 1
    <3>1. Some(s) \in s /\ rest \in SUBSET D /\ Cardinality(rest) = Cardinality(s) - 1
      BY <2>4, SmallerSet
    <3>2. Cardinality(rest) \in Nat
      BY <3>1, SmallerSet
    <3> QED BY <3>1, <3>2, <2>1, <2>2
  <2>6. tokens[Some(s)] \in Nat
    BY <2>5
  <2>7. F[rest] \in Nat
    <3> HIDE DEF T, rest
    <3>1. Cardinality(rest) \notin T
      <4>1. n - 1 \notin T
        BY <2>1, <2>5
      <4> QED BY <4>1, <2>5
    <3> QED BY <3>1, <2>5 DEF T
  <2> QED BY <2>2, <2>3, <2>4, <2>6, <2>7
<1>4. Cardinality(D) \in Nat
  BY FS_CardinalityType
<1> QED BY <1>1, <1>3, <1>4

\* A snapshot of what was served is one.
LEMMA SnapshotIsOne ==
  ASSUME NEW tokens, DOMAIN tokens \subseteq Sessions,
         \A sid \in DOMAIN tokens : tokens[sid] \in Nat
  PROVE  SnapshotOf(tokens) \in Snapshot
<1>1. IsFiniteSet(DOMAIN tokens)
  BY MetricsAssumption, FS_Subset
<1>2. Cardinality(DOMAIN tokens) \in Nat /\ total_all_sessions(tokens) \in Nat
  BY <1>1, FS_CardinalityType, TotalIsNat
<1> QED BY <1>2 DEF SnapshotOf, Snapshot

-----------------------------------------------------------------------------
(* The invariant *)

\* A walk waits for the socket at its position, unless the list has changed under it.
InPlace ==
  ~disturbed => \A i \in DOMAIN walks :
                  /\ walks[i].at \in DOMAIN CONNECTED_WEBSOCKETS
                  /\ walks[i].on = CONNECTED_WEBSOCKETS[walks[i].at]

\* No walk is behind the walk r: one at the same position has written before it.
Rear(r) ==
  \A i \in DOMAIN walks :
    walks[i].at > walks[r].at \/ (walks[i].at = walks[r].at /\ i <= r)

\* The dashboards at the first n positions that are open show what is current.
FreshUpTo(n) ==
  \A p \in 1..n :
    CONNECTED_WEBSOCKETS[p] \notin closed => got[CONNECTED_WEBSOCKETS[p]] \in since

\* When every push has started, the walk that is behind all others carries what is
\* current and has shown it up to where it is.
RearIsFresh ==
  ~disturbed /\ spawned = 0 /\ walks # <<>> =>
    \E r \in DOMAIN walks :
      Rear(r) /\ walks[r].snap \in since /\ FreshUpTo(walks[r].at)

Joins == \A i \in DOMAIN CONNECTED_WEBSOCKETS : CONNECTED_WEBSOCKETS[i] \in DOMAIN got

Inv == TypeOK /\ Joins /\ _build_snapshot \in since /\ InPlace /\ RearIsFresh /\ QuietMeansFresh

-----------------------------------------------------------------------------
(* Lists and walks *)

\* What RemoveAt returns.
LEMMA RemoveAtFacts ==
  ASSUME NEW S, NEW W \in Seq(S), NEW i \in DOMAIN W
  PROVE  /\ RemoveAt(W, i) \in Seq(S)
         /\ Len(W) \in Nat /\ i \in 1..Len(W) /\ Len(RemoveAt(W, i)) = Len(W) - 1
         /\ \A k \in 1..Len(W) - 1 : RemoveAt(W, i)[k] = W[IF k < i THEN k ELSE k + 1]
<1> DEFINE a == SubSeq(W, 1, i - 1)  b == SubSeq(W, i + 1, Len(W))
<1>1. Len(W) \in Nat /\ DOMAIN W = 1..Len(W) /\ \A k \in 1..Len(W) : W[k] \in S
  BY LenProperties, ElementOfSeq
<1>2. /\ a \in Seq(S) /\ Len(a) = i - 1 /\ \A k \in 1..i - 1 : a[k] = W[k]
  <2>1. 1 \in Int /\ i - 1 \in Int /\ \A k \in 1..i - 1 : W[k] \in S
    BY <1>1
  <2>2. /\ SubSeq(W, 1, i - 1) \in Seq(S)
        /\ Len(SubSeq(W, 1, i - 1)) = IF 1 <= i - 1 THEN i - 1 - 1 + 1 ELSE 0
        /\ \A k \in 1..i - 1 - 1 + 1 : SubSeq(W, 1, i - 1)[k] = W[1 + k - 1]
    BY <2>1, SubSeqProperties
  <2> QED BY <2>2, <1>1
<1>3. /\ b \in Seq(S) /\ Len(b) = Len(W) - i /\ \A k \in 1..Len(W) - i : b[k] = W[i + k]
  <2>1. i + 1 \in Int /\ Len(W) \in Int /\ \A k \in i + 1..Len(W) : W[k] \in S
    BY <1>1
  <2>2. /\ SubSeq(W, i + 1, Len(W)) \in Seq(S)
        /\ Len(SubSeq(W, i + 1, Len(W))) = IF i + 1 <= Len(W) THEN Len(W) - (i + 1) + 1 ELSE 0
        /\ \A k \in 1..Len(W) - (i + 1) + 1 : SubSeq(W, i + 1, Len(W))[k] = W[i + 1 + k - 1]
    BY <2>1, SubSeqProperties
  <2> QED BY <2>2, <1>1
<1> HIDE DEF a, b
<1>4. /\ a \o b \in Seq(S) /\ Len(a \o b) = Len(a) + Len(b)
      /\ \A k \in 1..Len(a) + Len(b) : (a \o b)[k] = IF k <= Len(a) THEN a[k] ELSE b[k - Len(a)]
  BY <1>2, <1>3, ConcatProperties
<1>5. \A k \in 1..Len(W) - 1 : (a \o b)[k] = W[IF k < i THEN k ELSE k + 1]
  <2> SUFFICES ASSUME NEW k \in 1..Len(W) - 1 PROVE (a \o b)[k] = W[IF k < i THEN k ELSE k + 1]
    OBVIOUS
  <2>1. k \in 1..Len(a) + Len(b)
    BY <1>1, <1>2, <1>3
  <2>2. CASE k < i
    BY <2>1, <2>2, <1>1, <1>2, <1>4
  <2>3. CASE ~(k < i)
    <3>1. k - (i - 1) \in 1..Len(W) - i /\ ~(k <= Len(a)) /\ i + (k - (i - 1)) = k + 1
      BY <2>3, <1>1, <1>2
    <3> QED BY <2>1, <2>3, <3>1, <1>2, <1>3, <1>4
  <2> QED BY <2>2, <2>3
<1>6. RemoveAt(W, i) = a \o b
  BY DEF RemoveAt, a, b
<1>7. i \in 1..Len(W) /\ Len(a \o b) = Len(W) - 1
  BY <1>1, <1>2, <1>3, <1>4
<1> QED BY <1>1, <1>4, <1>5, <1>6, <1>7

\* The list after a removal: what is left of it, and all of it, in its place, if
\* nothing is disturbed while others walk.
LEMMA RemovesFacts ==
  ASSUME TypeOK, NEW S, NEW ws, Removes(S, ws)
  PROVE  /\ CONNECTED_WEBSOCKETS' \in Seq(Sockets) /\ IsInjective(CONNECTED_WEBSOCKETS')
         /\ disturbed' \in BOOLEAN
         /\ \A p \in DOMAIN CONNECTED_WEBSOCKETS' :
              \E q \in DOMAIN CONNECTED_WEBSOCKETS :
                CONNECTED_WEBSOCKETS'[p] = CONNECTED_WEBSOCKETS[q]
         /\ ~disturbed' => ~disturbed
         /\ ~disturbed' /\ ws # <<>> =>
              /\ DOMAIN CONNECTED_WEBSOCKETS' = DOMAIN CONNECTED_WEBSOCKETS
              /\ \A p \in DOMAIN CONNECTED_WEBSOCKETS :
                   CONNECTED_WEBSOCKETS'[p] = CONNECTED_WEBSOCKETS[p]
<1> DEFINE C == CONNECTED_WEBSOCKETS
<1>1. /\ C \in Seq(Sockets) /\ C' \in Seq(Sockets) /\ LeftOf(C', C, S, Len(C))
      /\ Len(C) \in Nat /\ DOMAIN C = 1..Len(C) /\ DOMAIN C' = 1..Len(C')
  <2>1. C \in Seq(Sockets) /\ C' = Less(C, S)
    BY DEF TypeOK, Removes
  <2>2. C' \in Seq(Sockets) /\ LeftOf(C', C, S, Len(C))
    BY <2>1, LessFacts
  <2> QED BY <2>1, <2>2, LenProperties
<1>2. IsInjective(C')
  BY <1>1 DEF LeftOf, Distinct, IsInjective, TypeOK
<1>3. \A p \in DOMAIN C' : \E q \in DOMAIN C : C'[p] = C[q]
  BY <1>1 DEF LeftOf
<1>4. disturbed' \in BOOLEAN /\ (~disturbed' => ~disturbed)
  BY DEF Removes, TypeOK
<1>5. ASSUME ~disturbed', ws # <<>>
      PROVE  DOMAIN C' = DOMAIN C /\ \A p \in DOMAIN C : C'[p] = C[p]
  <2>1. \A k \in 1..Len(C) : C[k] \notin S
    BY <1>1, <1>5 DEF Removes
  <2> QED BY <1>1, <2>1 DEF LeftOf
<1> QED BY <1>1, <1>2, <1>3, <1>4, <1>5

-----------------------------------------------------------------------------
(* Types *)

Base == TypeOK /\ Joins /\ _build_snapshot \in since

\* A walk that goes on, or ends.
LEMMA GoesTypes ==
  ASSUME Base, NEW w \in Walk, NEW i \in Nat \ {0}, NEW others \in Seq(Walk), Goes(w, i, others)
  PROVE  /\ walks' \in Seq(Walk) /\ got' \in Seq(Snapshot)
         /\ Len(got') = Len(got) /\ DOMAIN got' = DOMAIN got
         /\ CONNECTED_WEBSOCKETS' \in Seq(Sockets) /\ IsInjective(CONNECTED_WEBSOCKETS')
         /\ disturbed' \in BOOLEAN
         /\ \A p \in DOMAIN CONNECTED_WEBSOCKETS' : CONNECTED_WEBSOCKETS'[p] \in DOMAIN got
<1> DEFINE C == CONNECTED_WEBSOCKETS
<1>1. /\ C \in Seq(Sockets) /\ got \in Seq(Snapshot) /\ DOMAIN got = 1..Len(got)
      /\ w.snap \in Snapshot /\ w.dead \in SUBSET Sockets
      /\ \A p \in DOMAIN C : C[p] \in Sockets /\ C[p] \in DOMAIN got
  BY LenProperties, ElementOfSeq DEF Base, TypeOK, Joins, Walk
<1>2. CASE i \in DOMAIN C
  <2> DEFINE ws == C[i]
             new == [w EXCEPT !.at = i, !.on = ws, !.dead = IF ws \in closed THEN @ \cup {ws} ELSE @]
  <2>1. walks' = Append(others, new) /\ got' = IF ws \in closed THEN got ELSE [got EXCEPT ![ws] = w.snap]
    BY <1>2 DEF Goes
  <2>2. UNCHANGED <<CONNECTED_WEBSOCKETS, disturbed>>
    BY <1>2 DEF Goes
  <2>3. ws \in Sockets /\ ws \in 1..Len(got)
    BY <1>1, <1>2
  <2> HIDE DEF ws
  <2>4. new \in Walk
    BY <2>3, <1>1 DEF Walk
  <2> HIDE DEF new
  <2>5. walks' \in Seq(Walk)
    BY <2>1, <2>4, AppendProperties
  <2>6. got' \in Seq(Snapshot) /\ Len(got') = Len(got)
    <3>1. /\ [got EXCEPT ![ws] = w.snap] \in Seq(Snapshot)
          /\ Len([got EXCEPT ![ws] = w.snap]) = Len(got)
      BY <2>3, <1>1, ExceptSeq
    <3> QED BY <3>1, <2>1, <1>1
  <2>7. DOMAIN got' = DOMAIN got
    BY <2>6, <1>1, LenProperties
  <2> QED BY <2>2, <2>5, <2>6, <2>7, <1>1 DEF Base, TypeOK
<1>3. CASE i \notin DOMAIN C
  <2>1. walks' = others /\ Removes(w.dead, others) /\ got' = got
    BY <1>3 DEF Goes
  <2>2. /\ C' \in Seq(Sockets) /\ IsInjective(C') /\ disturbed' \in BOOLEAN
        /\ \A p \in DOMAIN C' : \E q \in DOMAIN C : C'[p] = C[q]
    BY <2>1, RemovesFacts DEF Base
  <2> QED BY <2>1, <2>2, <1>1
<1> QED BY <1>2, <1>3

\* What is left of the walks when one goes on.
LEMMA OthersTypes ==
  ASSUME TypeOK, NEW i \in DOMAIN walks
  PROVE  /\ walks[i] \in Walk /\ RemoveAt(walks, i) \in Seq(Walk)
         /\ NextAt(i) \in Nat \ {0} /\ NextAt(i) = walks[i].at + 1
<1>1. walks \in Seq(Walk) /\ walks[i] \in Walk
  BY LenProperties, ElementOfSeq DEF TypeOK
<1>2. walks[i].at \in Nat \ {0}
  BY <1>1 DEF Walk
<1> QED BY <1>1, <1>2, RemoveAtFacts DEF NextAt

\* A walk that has waited is the same but for what failed.
LEMMA WaitedTypes ==
  ASSUME NEW w \in Walk, NEW v \in Waited(w)
  PROVE  v \in Walk /\ v.at = w.at /\ v.snap = w.snap
BY DEF Waited, Walk

\* A count that is added to.
LEMMA PlusFacts ==
  ASSUME NEW f, DOMAIN f \subseteq Sessions, NEW sid \in Sessions,
         \A s \in DOMAIN f : f[s] \in Nat
  PROVE  /\ DOMAIN Plus(f, sid, 1) \subseteq Sessions
         /\ \A s \in DOMAIN Plus(f, sid, 1) : Plus(f, sid, 1)[s] \in Nat
BY DEF Plus

\* What is at the start of a push.
LEMMA FirstWalk ==
  ASSUME Base, ~Skips
  PROVE  /\ [at |-> 1, on |-> Head(CONNECTED_WEBSOCKETS), snap |-> _build_snapshot, dead |-> {}] \in Walk
         /\ 1 \in DOMAIN CONNECTED_WEBSOCKETS
<1>1. CONNECTED_WEBSOCKETS \in Seq(Sockets) /\ CONNECTED_WEBSOCKETS # <<>>
  BY DEF Base, TypeOK, Skips
<1>2. Head(CONNECTED_WEBSOCKETS) \in Sockets
  BY <1>1, HeadTailProperties
<1>3. Len(CONNECTED_WEBSOCKETS) \in Nat \ {0} /\ DOMAIN CONNECTED_WEBSOCKETS = 1..Len(CONNECTED_WEBSOCKETS)
  BY <1>1, EmptySeq, LenProperties
<1>4. _build_snapshot \in Snapshot
  BY DEF Base, TypeOK
<1> QED BY <1>2, <1>3, <1>4 DEF Walk

LEMMA BaseInit == Init => Base
<1> SUFFICES ASSUME Init PROVE Base
  OBVIOUS
<1>1. DOMAIN served = {} /\ DOMAIN REAL_OVH.sessions = {} /\ DOMAIN got = {} /\ DOMAIN CONNECTED_WEBSOCKETS = {}
  BY DEF Init
<1>2. SnapshotOf(<<>>) \in Snapshot
  BY <1>1, SnapshotIsOne DEF Init
<1>3. Len(got) = 0 /\ 0 \in 0..MaxSockets
  BY MetricsAssumption, EmptySeq DEF Init
<1>4. got \in Seq(Snapshot) /\ walks \in Seq(Walk) /\ CONNECTED_WEBSOCKETS \in Seq(Sockets)
  BY EmptySeq DEF Init
<1>5. since \subseteq Snapshot /\ _build_snapshot \in since
  BY <1>2 DEF Init, _build_snapshot
<1> QED BY <1>1, <1>3, <1>4, <1>5 DEF Base, TypeOK, Joins, Init, IsInjective

\* A socket connects.
LEMMA ConnectTypes ==
  ASSUME Base, NEW ws \in Sockets, Connect(ws)
  PROVE  Base'
<1> DEFINE C == CONNECTED_WEBSOCKETS
<1>1. /\ C \in Seq(Sockets) /\ Len(C) \in Nat /\ DOMAIN C = 1..Len(C)
      /\ got \in Seq(Snapshot) /\ Len(got) \in Nat /\ DOMAIN got = 1..Len(got)
      /\ _build_snapshot \in Snapshot /\ IsInjective(C)
      /\ \A p \in DOMAIN C : C[p] \in DOMAIN got
  BY LenProperties DEF Base, TypeOK, Joins
<1>2. ws = Len(got) + 1 /\ C' = Append(C, ws) /\ got' = Append(got, _build_snapshot)
  BY DEF Connect, Joined, Greeting
<1>3. /\ C' \in Seq(Sockets) /\ DOMAIN C' = 1..Len(C) + 1
      /\ \A p \in DOMAIN C : C'[p] = C[p]
      /\ C'[Len(C) + 1] = ws
  BY <1>1, <1>2, AppendProperties, LenProperties
<1>4. got' \in Seq(Snapshot) /\ Len(got') = ws /\ DOMAIN got' = 1..ws
  BY <1>1, <1>2, AppendProperties, LenProperties
<1>5. \A p \in DOMAIN C' : p \in DOMAIN C \/ p = Len(C) + 1
  BY <1>1, <1>3
<1>6. \A p \in DOMAIN C : C[p] # ws
  BY <1>1, <1>2
<1>7. IsInjective(C')
  BY <1>1, <1>3, <1>5, <1>6 DEF IsInjective
<1>8. \A p \in DOMAIN C' : C'[p] \in DOMAIN got'
  BY <1>1, <1>2, <1>3, <1>4, <1>5
<1>9. DOMAIN got \subseteq DOMAIN got' /\ ws \in DOMAIN got' /\ Len(got') \in 0..MaxSockets
  BY <1>1, <1>2, <1>4, MetricsAssumption DEF Sockets
<1>10. UNCHANGED <<usage, closed, spawned, walks, events, resets, since, disturbed>>
       /\ serving' = serving \cup {ws}
  BY DEF Connect
<1> QED
  BY <1>3, <1>4, <1>7, <1>8, <1>9, <1>10 DEF Base, TypeOK, Joins, usage, _build_snapshot

LEMMA BaseStep ==
  ASSUME Base, [Next]_vars
  PROVE  Base'
<1> USE DEF Base
<1>1. ASSUME NEW sid \in Sessions, PushTokenEvent(sid, 1) PROVE Base'
  <2>1. DOMAIN served' \subseteq Sessions /\ \A s \in DOMAIN served' : served'[s] \in Nat
    BY <1>1, PlusFacts DEF PushTokenEvent, TypeOK
  <2>2. SnapshotOf(served') \in Snapshot
    BY <2>1, SnapshotIsOne
  <2>3. since' = {SnapshotOf(served')} /\ UNCHANGED REAL_OVH
    BY <1>1 DEF PushTokenEvent
  <2>4. /\ events' \in Nat /\ spawned' \in Nat /\ disturbed' \in BOOLEAN
        /\ UNCHANGED <<sockets, walks, got, resets>>
    BY <1>1 DEF PushTokenEvent, Event, TypeOK
  <2> QED BY <2>1, <2>2, <2>3, <2>4 DEF TypeOK, Joins, sockets, _build_snapshot
<1>2. ASSUME NEW sid \in Sessions, PushAgentUsage(sid, 1) PROVE Base'
  <2>1. REAL_OVH'.total \in Nat /\ DOMAIN REAL_OVH'.sessions \subseteq Sessions
    BY <1>2 DEF PushAgentUsage, Used, Plus, TypeOK
  <2>2. since' = {_build_snapshot} /\ UNCHANGED served
    BY <1>2 DEF PushAgentUsage
  <2>3. /\ events' \in Nat /\ spawned' \in Nat /\ disturbed' \in BOOLEAN
        /\ UNCHANGED <<sockets, walks, got, resets>>
    BY <1>2 DEF PushAgentUsage, Event, TypeOK
  <2> QED BY <2>1, <2>2, <2>3 DEF TypeOK, Joins, sockets, _build_snapshot
<1>3. CASE AdminReset
  <2>1. DOMAIN served' = {} /\ REAL_OVH' = [total |-> 0, sessions |-> <<>>] /\ DOMAIN REAL_OVH'.sessions = {}
    BY <1>3 DEF AdminReset
  <2>2. SnapshotOf(<<>>) \in Snapshot
    BY <2>1, <1>3, SnapshotIsOne DEF AdminReset
  <2>3. since' = since \cup {SnapshotOf(<<>>)} /\ served' = <<>> /\ resets' \in Nat
    BY <1>3 DEF AdminReset, TypeOK
  <2>4. UNCHANGED <<sockets, pushes, events, disturbed>>
    BY <1>3 DEF AdminReset
  <2> QED BY <2>1, <2>2, <2>3, <2>4 DEF TypeOK, Joins, sockets, pushes, _build_snapshot
<1>4. ASSUME NEW ws \in Sockets, Connect(ws) PROVE Base'
  BY <1>4, ConnectTypes
<1>5. ASSUME NEW ws \in Sockets, Close(ws) PROVE Base'
  BY <1>5 DEF Close, TypeOK, Joins, usage, pushes, _build_snapshot
<1>6. ASSUME NEW ws \in Sockets, Leave(ws) PROVE Base'
  <2>1. Removes({ws}, walks)
    BY <1>6 DEF Leave, Forgets
  <2>2. /\ CONNECTED_WEBSOCKETS' \in Seq(Sockets) /\ IsInjective(CONNECTED_WEBSOCKETS')
        /\ disturbed' \in BOOLEAN
        /\ \A p \in DOMAIN CONNECTED_WEBSOCKETS' : CONNECTED_WEBSOCKETS'[p] \in DOMAIN got
    BY <2>1, RemovesFacts DEF Joins
  <2>3. serving' = serving \ {ws} /\ UNCHANGED <<usage, closed, pushes, events, resets, since>>
    BY <1>6 DEF Leave
  <2> QED BY <2>2, <2>3 DEF TypeOK, Joins, usage, pushes, _build_snapshot
<1>7. CASE Start
  <2>1. spawned' \in Nat /\ UNCHANGED <<usage, serving, closed, events, resets, since>>
    BY <1>7 DEF Start, TypeOK
  <2>2. CASE Skips
    BY <2>1, <2>2, <1>7 DEF Start, TypeOK, Joins, usage, _build_snapshot
  <2>3. CASE ~Skips
    <3>1. PICK w \in Walk : Goes(w, 1, walks)
      BY <2>3, <1>7, FirstWalk DEF Start
    <3>2. /\ walks' \in Seq(Walk) /\ got' \in Seq(Snapshot)
          /\ Len(got') = Len(got) /\ DOMAIN got' = DOMAIN got
          /\ CONNECTED_WEBSOCKETS' \in Seq(Sockets) /\ IsInjective(CONNECTED_WEBSOCKETS')
          /\ disturbed' \in BOOLEAN
          /\ \A p \in DOMAIN CONNECTED_WEBSOCKETS' : CONNECTED_WEBSOCKETS'[p] \in DOMAIN got
      <4>1. walks \in Seq(Walk) /\ 1 \in Nat \ {0}
        BY DEF TypeOK
      <4> QED BY <3>1, <4>1, GoesTypes
    <3> QED BY <2>1, <3>2 DEF TypeOK, Joins, usage, _build_snapshot
  <2> QED BY <2>2, <2>3
<1>8. ASSUME NEW i, Continue(i) PROVE Base'
  <2>0. i \in DOMAIN walks
    BY <1>8 DEF Continue
  <2>1. PICK w \in Waited(walks[i]) : Goes(w, NextAt(i), RemoveAt(walks, i))
    BY <1>8 DEF Continue
  <2>2. w \in Walk /\ RemoveAt(walks, i) \in Seq(Walk) /\ NextAt(i) \in Nat \ {0}
    BY <2>0, <2>1, OthersTypes, WaitedTypes
  <2>3. /\ walks' \in Seq(Walk) /\ got' \in Seq(Snapshot)
        /\ Len(got') = Len(got) /\ DOMAIN got' = DOMAIN got
        /\ CONNECTED_WEBSOCKETS' \in Seq(Sockets) /\ IsInjective(CONNECTED_WEBSOCKETS')
        /\ disturbed' \in BOOLEAN
        /\ \A p \in DOMAIN CONNECTED_WEBSOCKETS' : CONNECTED_WEBSOCKETS'[p] \in DOMAIN got
    BY <2>1, <2>2, GoesTypes
  <2>4. UNCHANGED <<usage, serving, closed, spawned, events, resets, since>>
    BY <1>8 DEF Continue
  <2> QED BY <2>3, <2>4 DEF TypeOK, Joins, usage, _build_snapshot
<1>9. CASE UNCHANGED vars
  BY <1>9 DEF vars, usage, sockets, pushes, TypeOK, Joins, _build_snapshot
<1> QED BY <1>1, <1>2, <1>3, <1>4, <1>5, <1>6, <1>7, <1>8, <1>9 DEF Next

-----------------------------------------------------------------------------
(* The order of the walks *)

\* Where a walk was before the walk i was taken out.
From(i, k) == IF k < i THEN k ELSE k + 1

\* The types that the lemmas on walks need.
LEMMA WalkTypes ==
  ASSUME Base
  PROVE  /\ walks \in Seq(Walk) /\ Len(walks) \in Nat /\ DOMAIN walks = 1..Len(walks)
         /\ \A i \in DOMAIN walks : walks[i] \in Walk /\ walks[i].at \in Nat \ {0}
         /\ CONNECTED_WEBSOCKETS \in Seq(Sockets) /\ Len(CONNECTED_WEBSOCKETS) \in Nat
         /\ DOMAIN CONNECTED_WEBSOCKETS = 1..Len(CONNECTED_WEBSOCKETS)
         /\ \A p, q \in DOMAIN CONNECTED_WEBSOCKETS :
              CONNECTED_WEBSOCKETS[p] = CONNECTED_WEBSOCKETS[q] => p = q
         /\ got \in Seq(Snapshot) /\ DOMAIN got = 1..Len(got)
<1>1. \A i \in 1..Len(walks) : walks[i] \in Walk
  BY ElementOfSeq DEF Base, TypeOK
<1>2. \A w \in Walk : w.at \in Nat \ {0}
  BY DEF Walk
<1>3. walks \in Seq(Walk) /\ Len(walks) \in Nat /\ DOMAIN walks = 1..Len(walks)
  BY LenProperties DEF Base, TypeOK
<1> QED BY <1>1, <1>2, <1>3, LenProperties DEF Base, TypeOK, IsInjective

\* A walk that writes to a socket: what it leaves.
LEMMA Writes ==
  ASSUME Base, NEW w \in Walk, NEW i \in DOMAIN CONNECTED_WEBSOCKETS,
         NEW others \in Seq(Walk), Goes(w, i, others)
  PROVE  /\ walks' \in Seq(Walk) /\ Len(walks') = Len(others) + 1
         /\ DOMAIN walks' = 1..Len(others) + 1
         /\ \A k \in 1..Len(others) : walks'[k] = others[k]
         /\ walks'[Len(others) + 1].at = i
         /\ walks'[Len(others) + 1].on = CONNECTED_WEBSOCKETS[i]
         /\ walks'[Len(others) + 1].snap = w.snap
         /\ DOMAIN got' = DOMAIN got
         /\ CONNECTED_WEBSOCKETS[i] \notin closed => got'[CONNECTED_WEBSOCKETS[i]] = w.snap
         /\ \A ws \in DOMAIN got : ws # CONNECTED_WEBSOCKETS[i] => got'[ws] = got[ws]
         /\ UNCHANGED <<CONNECTED_WEBSOCKETS, disturbed>>
<1> DEFINE ws == CONNECTED_WEBSOCKETS[i]
           new == [w EXCEPT !.at = i, !.on = ws, !.dead = IF ws \in closed THEN @ \cup {ws} ELSE @]
<1>1. /\ walks' = Append(others, new)
      /\ got' = IF ws \in closed THEN got ELSE [got EXCEPT ![ws] = w.snap]
      /\ UNCHANGED <<CONNECTED_WEBSOCKETS, disturbed>>
  BY DEF Goes
<1>2. ws \in Sockets /\ ws \in DOMAIN got /\ i \in Nat \ {0}
  <2>1. i \in 1..Len(CONNECTED_WEBSOCKETS) /\ CONNECTED_WEBSOCKETS \in Seq(Sockets)
        /\ Len(CONNECTED_WEBSOCKETS) \in Nat
    BY WalkTypes
  <2> QED BY <2>1, ElementOfSeq DEF Base, Joins
<1>3. DOMAIN got' = DOMAIN got /\ (ws \notin closed => got'[ws] = w.snap)
      /\ \A x \in DOMAIN got : x # ws => got'[x] = got[x]
  <2>1. got \in [DOMAIN got -> Snapshot]
    BY LenProperties DEF Base, TypeOK
  <2> HIDE DEF ws
  <2> QED BY <1>1, <1>2, <2>1
<1> HIDE DEF ws
<1>4. new \in Walk /\ new.at = i /\ new.on = ws /\ new.snap = w.snap
  BY <1>2 DEF Walk
<1> HIDE DEF new
<1>5. /\ walks' \in Seq(Walk) /\ Len(walks') = Len(others) + 1
      /\ DOMAIN walks' = 1..Len(others) + 1
      /\ \A k \in 1..Len(others) : walks'[k] = others[k]
      /\ walks'[Len(others) + 1] = new
  BY <1>1, <1>4, AppendProperties, LenProperties
<1> QED BY <1>1, <1>3, <1>4, <1>5 DEF ws

\* A push that starts is behind all others, and carries what is current.
LEMMA StartFresh ==
  ASSUME Inv, Start
  PROVE  InPlace' /\ RearIsFresh' /\ QuietMeansFresh'
<1> DEFINE C == CONNECTED_WEBSOCKETS
<1>0. Base /\ UNCHANGED <<closed, since>>
  BY DEF Inv, Base, Start
<1>1. CASE Skips
  <2>1. UNCHANGED <<walks, got, CONNECTED_WEBSOCKETS, disturbed>> /\ DOMAIN C = {}
    BY <1>1, EmptySeq DEF Start, Skips
  <2>2. InPlace'
    BY <2>1 DEF Inv, InPlace
  <2>3. ASSUME ~disturbed', walks' # <<>> PROVE FALSE
    <3>1. ~disturbed /\ walks # <<>>
      BY <2>1, <2>3
    <3>2. 1 \in DOMAIN walks
      BY <3>1, <1>0, WalkTypes, EmptySeq
    <3> QED BY <2>1, <3>1, <3>2 DEF Inv, InPlace
  <2> QED BY <2>1, <2>2, <2>3 DEF RearIsFresh, QuietMeansFresh
<1>2. CASE ~Skips
  <2> DEFINE w == [at |-> 1, on |-> Head(C), snap |-> _build_snapshot, dead |-> {}]
  <2>0. PICK n \in Nat : n = Len(walks)
    BY <1>0, WalkTypes
  <2>1. w \in Walk /\ 1 \in DOMAIN C /\ Goes(w, 1, walks) /\ w.snap = _build_snapshot
    BY <1>0, <1>2, FirstWalk DEF Start
  <2> HIDE DEF w
  <2>2. walks \in Seq(Walk) /\ n \in Nat /\ DOMAIN walks = 1..n
        /\ \A k \in 1..n : walks[k].at \in Nat \ {0}
    BY <1>0, <2>0, WalkTypes
  <2>3. /\ DOMAIN walks' = 1..n + 1
        /\ \A k \in 1..n : walks'[k] = walks[k]
        /\ walks'[n + 1].at = 1 /\ walks'[n + 1].on = C[1]
        /\ walks'[n + 1].snap = _build_snapshot
        /\ C[1] \notin closed => got'[C[1]] = _build_snapshot
        /\ UNCHANGED <<CONNECTED_WEBSOCKETS, disturbed>>
    BY <1>0, <2>0, <2>1, <2>2, Writes
  <2>4. \A k \in 1..n + 1 : k \in 1..n \/ k = n + 1
    BY <2>2
  <2>5. InPlace'
    BY <2>1, <2>2, <2>3, <2>4 DEF InPlace, Inv
  <2>6. Rear(n + 1)'
    BY <2>2, <2>3, <2>4 DEF Rear
  <2>7. FreshUpTo(1)'
    BY <1>0, <2>3 DEF FreshUpTo, Inv
  <2>8. n + 1 \in DOMAIN walks' /\ walks'[n + 1].snap \in since' /\ walks'[n + 1].at = 1
    BY <1>0, <2>2, <2>3 DEF Inv
  <2>9. RearIsFresh'
    BY <2>6, <2>7, <2>8 DEF RearIsFresh
  <2>10. ~Quiet'
    BY <2>8 DEF Quiet
  <2> QED BY <2>5, <2>9, <2>10 DEF QuietMeansFresh
<1> QED BY <1>1, <1>2

\* Where the walk j is when the walk i has been taken out.
To(i, j) == IF j < i THEN j ELSE j - 1

\* The rear walk is alone at its position when it goes on: walks at one position wait
\* for one socket, in their order.
LEMMA RearIsLast ==
  ASSUME Inv, ~disturbed, NEW r \in DOMAIN walks, Rear(r),
         \A j \in 1..(r - 1) : walks[j].on # walks[r].on
  PROVE  \A j \in DOMAIN walks : j # r => walks[j].at > walks[r].at
<1>1. DOMAIN walks = 1..Len(walks) /\ Len(walks) \in Nat
  BY WalkTypes DEF Inv, Base
<1> SUFFICES ASSUME NEW j \in DOMAIN walks, j # r, ~(walks[j].at > walks[r].at)
             PROVE  FALSE
  OBVIOUS
<1>2. walks[j].at = walks[r].at /\ j <= r
  BY DEF Rear
<1>3. j \in 1..(r - 1)
  BY <1>1, <1>2
<1>4. walks[j].on = walks[r].on
  BY <1>2 DEF Inv, InPlace
<1> QED BY <1>3, <1>4

\* A walk goes on to the next socket. If it is the rear walk it still is; if it is not,
\* the rear walk is where it was, and what it has shown is untouched.
\* No walk before the one that goes on waits for the same socket.
LEMMA ContinuesFirst ==
  ASSUME NEW i, Continue(i)
  PROVE  \A j \in 1..(i - 1) : walks[j].on # walks[i].on
BY DEF Continue

LEMMA ContinueFresh ==
  ASSUME Inv, NEW i \in DOMAIN walks, Continue(i), NextAt(i) \in DOMAIN CONNECTED_WEBSOCKETS
  PROVE  InPlace' /\ RearIsFresh' /\ QuietMeansFresh'
<1> DEFINE C == CONNECTED_WEBSOCKETS
           R == RemoveAt(walks, i)
<1>0. Base /\ UNCHANGED <<closed, since, spawned>>
  BY DEF Inv, Base, Continue
<1>1. PICK n \in Nat : n = Len(walks)
  BY <1>0, WalkTypes
<1>2. /\ walks \in Seq(Walk) /\ DOMAIN walks = 1..n /\ i \in 1..n
      /\ \A k \in 1..n : walks[k].at \in Nat \ {0}
      /\ \A p, q \in DOMAIN C : C[p] = C[q] => p = q
  BY <1>0, <1>1, WalkTypes
<1>3. PICK next \in Nat \ {0} : next = walks[i].at + 1 /\ next = NextAt(i) /\ next \in DOMAIN C
  BY <1>0, OthersTypes DEF Base
<1>4. /\ R \in Seq(Walk) /\ Len(R) = n - 1
      /\ \A k \in 1..n - 1 : R[k] = walks[From(i, k)]
  BY <1>1, <1>2, RemoveAtFacts DEF From
<1>5. PICK w \in Walk : w.snap = walks[i].snap /\ Goes(w, next, R)
  <2>1. PICK w \in Waited(walks[i]) : Goes(w, next, R)
    BY <1>3 DEF Continue
  <2> QED BY <2>1, <1>0, OthersTypes, WaitedTypes DEF Base
<1> HIDE DEF R
<1>6. /\ DOMAIN walks' = 1..n
      /\ \A k \in 1..n - 1 : walks'[k] = walks[From(i, k)]
      /\ walks'[n].at = next /\ walks'[n].on = C[next] /\ walks'[n].snap = walks[i].snap
      /\ C[next] \notin closed => got'[C[next]] = walks[i].snap
      /\ \A ws \in DOMAIN got : ws # C[next] => got'[ws] = got[ws]
      /\ UNCHANGED <<CONNECTED_WEBSOCKETS, disturbed>>
  <2>1. /\ DOMAIN walks' = 1..Len(R) + 1
        /\ \A k \in 1..Len(R) : walks'[k] = R[k]
        /\ walks'[Len(R) + 1].at = next /\ walks'[Len(R) + 1].on = C[next]
        /\ walks'[Len(R) + 1].snap = w.snap
        /\ C[next] \notin closed => got'[C[next]] = w.snap
        /\ \A ws \in DOMAIN got : ws # C[next] => got'[ws] = got[ws]
        /\ UNCHANGED <<CONNECTED_WEBSOCKETS, disturbed>>
    BY <1>0, <1>3, <1>4, <1>5, Writes
  <2>2. Len(R) = n - 1 /\ Len(R) + 1 = n
    BY <1>4
  <2>3. w.snap = walks[i].snap
    BY <1>5
  <2> QED BY <2>1, <2>2, <2>3, <1>4
<1>7. /\ \A k \in 1..n : k \in 1..n - 1 \/ k = n
      /\ \A k \in 1..n - 1 : From(i, k) \in 1..n /\ From(i, k) # i
      /\ \A j \in 1..n : j # i => To(i, j) \in 1..n - 1 /\ From(i, To(i, j)) = j
      /\ \A j \in 1..n, k \in 1..n - 1 : j # i /\ From(i, k) <= j => k <= To(i, j)
      /\ n \in 1..n
  BY <1>2 DEF From, To
<1>8. InPlace'
  BY <1>2, <1>3, <1>6, <1>7 DEF InPlace, Inv
<1>9. ~Quiet'
  BY <1>6, <1>7, EmptySeq DEF Quiet
<1>10. ASSUME ~disturbed', spawned' = 0 PROVE RearIsFresh'
  <2>1. ~disturbed /\ spawned = 0 /\ walks # <<>>
    BY <1>0, <1>2, <1>6, <1>10
  <2>2. PICK r \in 1..n : Rear(r) /\ walks[r].snap \in since /\ FreshUpTo(walks[r].at)
    BY <1>2, <2>1 DEF Inv, RearIsFresh
  <2>3. walks[r].at \in Nat \ {0} /\ walks[r].at \in DOMAIN C
    BY <1>2, <2>1 DEF Inv, InPlace
  <2>4. \A p \in 1..walks[r].at : p \in DOMAIN C /\ C[p] \in DOMAIN got
    <3>1. DOMAIN C = 1..Len(C) /\ Len(C) \in Nat
      BY <1>0, WalkTypes
    <3> QED BY <2>3, <3>1, <1>0 DEF Base, Joins
  <2>5. CASE i = r
    <3>1. \A j \in 1..n : j # i => walks[j].at >= next
      BY <2>1, <2>2, <2>5, <1>2, <1>3, RearIsLast, ContinuesFirst
    <3>2. Rear(n)'
      <4>1. \A k \in 1..n - 1 : walks'[k].at >= next /\ k <= n
        BY SMTT(60), <3>1, <1>1, <1>6, <1>7
      <4>2. \A k \in 1..n - 1 : walks'[k].at \in Nat
        BY <1>2, <1>6, <1>7
      <4>3. walks'[n].at = next /\ DOMAIN walks' = 1..n
        BY <1>6
      <4>4. ASSUME NEW k \in 1..n
            PROVE  walks'[k].at > next \/ (walks'[k].at = next /\ k <= n)
        <5>1. CASE k \in 1..n - 1
          BY <4>1, <4>2, <5>1, <1>3
        <5>2. CASE k = n
          BY <4>3, <5>2
        <5> QED BY <5>1, <5>2, <1>7
      <4> QED BY <4>3, <4>4 DEF Rear
    <3>3. FreshUpTo(next)'
      <4> SUFFICES ASSUME NEW p \in 1..next, C[p] \notin closed PROVE got'[C[p]] \in since
        BY <1>0, <1>6 DEF FreshUpTo
      <4>1. CASE p = next
        BY <4>1, <1>6, <2>2, <2>5
      <4>2. CASE p # next
        <5>1. p \in 1..walks[r].at
          BY <4>2, <1>3, <2>3, <2>5
        <5>2. got[C[p]] \in since /\ C[p] \in DOMAIN got
          BY <5>1, <2>2, <2>4 DEF FreshUpTo
        <5>3. C[p] # C[next]
          BY <5>1, <4>2, <2>4, <1>2, <1>3
        <5> QED BY <5>2, <5>3, <1>6
      <4> QED BY <4>1, <4>2
    <3>4. n \in DOMAIN walks' /\ walks'[n].snap \in since' /\ walks'[n].at = next
      BY <1>0, <1>6, <1>7, <2>2, <2>5
    <3> QED BY <3>2, <3>3, <3>4 DEF RearIsFresh
  <2>6. CASE i # r
    <3>1. PICK t \in 1..n - 1 : t = To(i, r) /\ From(i, t) = r
      BY <2>6, <1>7
    <3>2. walks'[t] = walks[r] /\ t \in DOMAIN walks'
      BY <3>1, <1>6, <1>7
    <3>3. next > walks[r].at
      <4>1. walks[i].at >= walks[r].at /\ walks[i].at \in Nat
        BY <2>2, <2>3, <1>2 DEF Rear
      <4> QED BY <4>1, <2>3, <1>3
    <3>4. Rear(t)'
      <4> SUFFICES ASSUME NEW k \in 1..n
                   PROVE  walks'[k].at > walks'[t].at \/ (walks'[k].at = walks'[t].at /\ k <= t)
        BY <1>6 DEF Rear
      <4>1. CASE k = n
        BY <4>1, <3>2, <3>3, <1>6
      <4>2. CASE k \in 1..n - 1
        <5>1. walks'[k] = walks[From(i, k)] /\ From(i, k) \in 1..n
          BY <4>2, <1>6, <1>7
        <5>2. walks[From(i, k)].at > walks[r].at
              \/ (walks[From(i, k)].at = walks[r].at /\ From(i, k) <= r)
          BY <5>1, <2>2, <1>2 DEF Rear
        <5>3. From(i, k) <= r => k <= t
          BY <4>2, <3>1, <2>6, <1>7
        <5> QED BY <5>1, <5>2, <5>3, <3>2
      <4> QED BY <4>1, <4>2, <1>7
    <3>0. PICK front \in Nat : front = walks[r].at
      BY <2>3
    <3>5. FreshUpTo(front)'
      <4> SUFFICES ASSUME NEW p \in 1..front, C[p] \notin closed PROVE got'[C[p]] \in since
        BY <1>0, <1>6 DEF FreshUpTo
      <4>1. got[C[p]] \in since /\ C[p] \in DOMAIN got /\ p \in DOMAIN C
        BY <2>2, <2>4, <3>0 DEF FreshUpTo
      <4>2. p # next
        BY <3>0, <3>3
      <4>3. C[p] # C[next]
        BY <4>1, <4>2, <1>2, <1>3
      <4> QED BY <4>1, <4>3, <1>6
    <3> QED BY <1>0, <2>2, <3>0, <3>2, <3>4, <3>5 DEF RearIsFresh
  <2> QED BY <2>5, <2>6
<1> QED BY <1>8, <1>9, <1>10 DEF RearIsFresh, QuietMeansFresh

\* A walk ends and removes the sockets that failed. If it was the rear walk it was the
\* last one, and has shown what is current to the whole list.
LEMMA EndFresh ==
  ASSUME Inv, NEW i \in DOMAIN walks, Continue(i), NextAt(i) \notin DOMAIN CONNECTED_WEBSOCKETS
  PROVE  InPlace' /\ RearIsFresh' /\ QuietMeansFresh'
<1> DEFINE C == CONNECTED_WEBSOCKETS
           R == RemoveAt(walks, i)
<1>0. Base /\ UNCHANGED <<closed, since, spawned>>
  BY DEF Inv, Base, Continue
<1>1. PICK n \in Nat : n = Len(walks)
  BY <1>0, WalkTypes
<1>2. /\ walks \in Seq(Walk) /\ DOMAIN walks = 1..n /\ i \in 1..n
      /\ \A k \in 1..n : walks[k].at \in Nat \ {0}
      /\ DOMAIN C = 1..Len(C) /\ Len(C) \in Nat
  BY <1>0, <1>1, WalkTypes
<1>3. /\ R \in Seq(Walk) /\ Len(R) = n - 1 /\ DOMAIN R = 1..n - 1
      /\ \A k \in 1..n - 1 : R[k] = walks[From(i, k)]
  BY <1>1, <1>2, RemoveAtFacts, LenProperties DEF From
<1>4. PICK dead : /\ walks' = R /\ Removes(dead, R) /\ got' = got
                  /\ ~(walks[i].at + 1 \in DOMAIN C)
  <2>1. PICK w \in Waited(walks[i]) : Goes(w, NextAt(i), R)
    BY DEF Continue
  <2> QED BY <2>1, <1>0, OthersTypes DEF Goes, Base
<1> HIDE DEF R
<1>5. /\ \A p \in DOMAIN C' : \E q \in DOMAIN C : C'[p] = C[q]
      /\ ~disturbed' => ~disturbed
      /\ ~disturbed' /\ walks' # <<>> =>
           DOMAIN C' = DOMAIN C /\ \A p \in DOMAIN C : C'[p] = C[p]
  BY <1>0, <1>4, RemovesFacts DEF Base
<1>6. /\ \A k \in 1..n - 1 : From(i, k) \in 1..n /\ From(i, k) # i
      /\ \A j \in 1..n : j # i => To(i, j) \in 1..n - 1 /\ From(i, To(i, j)) = j
      /\ \A j \in 1..n, k \in 1..n - 1 : j # i /\ From(i, k) <= j => k <= To(i, j)
  BY SMTT(60), <1>2 DEF From, To
<1>7. walks' # <<>> <=> n - 1 # 0
  <2>1. R = <<>> => Len(R) = 0
    BY EmptySeq
  <2>2. R # <<>> => Len(R) # 0
    BY <1>3, EmptySeq
  <2> QED BY <2>1, <2>2, <1>3, <1>4
<1>8. InPlace'
  <2> SUFFICES ASSUME ~disturbed', NEW k \in 1..n - 1
               PROVE  walks'[k].at \in DOMAIN C' /\ walks'[k].on = C'[walks'[k].at]
    BY <1>3, <1>4 DEF InPlace
  <2>1. walks' # <<>>
    BY <1>2, <1>7
  <2>2. walks'[k] = walks[From(i, k)] /\ From(i, k) \in DOMAIN walks
    BY <1>2, <1>3, <1>4, <1>6
  <2> QED BY <2>1, <2>2, <1>5 DEF InPlace, Inv
<1>9. ASSUME ~disturbed', spawned' = 0
      PROVE  RearIsFresh' /\ QuietMeansFresh'
  <2>1. ~disturbed /\ spawned = 0 /\ walks # <<>>
    BY <1>0, <1>2, <1>5, <1>9, EmptySeq
  <2>2. PICK r \in 1..n : Rear(r) /\ walks[r].snap \in since /\ FreshUpTo(walks[r].at)
    BY <1>2, <2>1 DEF Inv, RearIsFresh
  <2>3. \A j \in 1..n : walks[j].at \in Nat \ {0} /\ walks[j].at <= Len(C)
    BY <1>2, <2>1 DEF Inv, InPlace
  <2>4. walks[i].at = Len(C)
    <3>1. walks[i].at \in Nat \ {0} /\ walks[i].at <= Len(C) /\ ~(walks[i].at + 1 \in 1..Len(C))
      BY <1>2, <1>4, <2>3
    <3> QED BY <3>1, <1>2
  <2>5. CASE i = r
    <3>1. \A j \in 1..n : j = i
      <4>1. \A j \in 1..n : j # i => walks[j].at > walks[i].at
        BY <2>1, <2>2, <2>5, <1>2, RearIsLast, ContinuesFirst
      <4> QED BY <4>1, <2>3, <2>4, <1>2
    <3>2. n = 1
      <4>1. 1 \in 1..n /\ n \in 1..n
        BY <1>2
      <4> QED BY <4>1, <3>1
    <3>3. walks' = <<>>
      BY <3>2, <1>7
    <3>4. \A q \in DOMAIN C : C[q] \notin closed => got[C[q]] \in since
      BY <2>2, <2>4, <2>5, <1>2 DEF FreshUpTo
    <3>5. \A p \in DOMAIN C' : C'[p] \notin closed' => got'[C'[p]] \in since'
      BY <3>4, <1>0, <1>4, <1>5
    <3> QED BY <3>3, <3>5 DEF RearIsFresh, QuietMeansFresh
  <2>6. CASE i # r
    <3>1. PICK t \in 1..n - 1 : t = To(i, r) /\ From(i, t) = r
      BY <2>6, <1>6
    <3>2. walks'[t] = walks[r] /\ t \in DOMAIN walks' /\ walks' # <<>>
      BY <3>1, <1>3, <1>4, <1>7
    <3>3. PICK front \in Nat : front = walks[r].at
      BY <2>3
    <3>4. Rear(t)'
      <4> SUFFICES ASSUME NEW k \in 1..n - 1
                   PROVE  walks'[k].at > walks'[t].at \/ (walks'[k].at = walks'[t].at /\ k <= t)
        BY <1>3, <1>4 DEF Rear
      <4>1. walks'[k] = walks[From(i, k)] /\ From(i, k) \in 1..n
        BY <1>3, <1>4, <1>6
      <4>2. walks[From(i, k)].at > walks[r].at
            \/ (walks[From(i, k)].at = walks[r].at /\ From(i, k) <= r)
        BY <4>1, <2>2, <1>2 DEF Rear
      <4>3. From(i, k) <= r => k <= t
        BY <3>1, <2>6, <1>6
      <4> QED BY <4>1, <4>2, <4>3, <3>2
    <3>5. FreshUpTo(front)'
      <4> SUFFICES ASSUME NEW p \in 1..front, C'[p] \notin closed PROVE got'[C'[p]] \in since
        BY <1>0 DEF FreshUpTo
      <4>1. p \in DOMAIN C
        BY <2>3, <3>3, <1>2
      <4>2. C'[p] = C[p]
        BY <4>1, <3>2, <1>5, <1>9
      <4> QED BY <4>2, <1>4, <2>2, <3>3 DEF FreshUpTo
    <3> QED BY <1>0, <2>2, <3>2, <3>3, <3>4, <3>5 DEF RearIsFresh, QuietMeansFresh, Quiet
  <2> QED BY <2>5, <2>6
<1> QED BY <1>8, <1>9 DEF RearIsFresh, QuietMeansFresh, Quiet

\* A socket connects: it is greeted with what is current, behind all walks.
LEMMA ConnectFresh ==
  ASSUME Inv, NEW ws \in Sockets, Connect(ws)
  PROVE  InPlace' /\ RearIsFresh' /\ QuietMeansFresh'
<1> DEFINE C == CONNECTED_WEBSOCKETS
<1>0. /\ Base /\ UNCHANGED <<closed, since, spawned, walks, disturbed>>
      /\ ws = Len(got) + 1 /\ C' = Append(C, ws) /\ got' = Append(got, _build_snapshot)
  BY DEF Inv, Base, Connect, Joined, Greeting
<1>1. /\ C \in Seq(Sockets) /\ Len(C) \in Nat /\ DOMAIN C = 1..Len(C)
      /\ got \in Seq(Snapshot) /\ Len(got) \in Nat /\ DOMAIN got = 1..Len(got)
      /\ _build_snapshot \in Snapshot
      /\ \A p \in DOMAIN C : C[p] \in DOMAIN got
  BY <1>0, LenProperties DEF Base, TypeOK, Joins
<1>2. /\ DOMAIN C' = 1..Len(C) + 1
      /\ \A p \in DOMAIN C : C'[p] = C[p]
      /\ C'[Len(C) + 1] = ws
  BY <1>0, <1>1, AppendProperties, LenProperties
<1>3. got'[ws] = _build_snapshot /\ \A x \in DOMAIN got : got'[x] = got[x]
  BY <1>0, <1>1, AppendProperties
<1>4. InPlace'
  <2>1. DOMAIN C \subseteq DOMAIN C'
    BY <1>1, <1>2
  <2> QED BY <2>1, <1>0, <1>2 DEF InPlace, Inv
<1>5. RearIsFresh'
  <2> SUFFICES ASSUME ~disturbed, spawned = 0, walks # <<>> PROVE RearIsFresh'
    BY <1>0 DEF RearIsFresh
  <2>1. PICK r \in DOMAIN walks : Rear(r) /\ walks[r].snap \in since /\ FreshUpTo(walks[r].at)
    BY DEF Inv, RearIsFresh
  <2>2. PICK front \in Nat : front = walks[r].at /\ front \in DOMAIN C
    BY <1>0, WalkTypes DEF Inv, InPlace
  <2>3. FreshUpTo(front)'
    <3> SUFFICES ASSUME NEW p \in 1..front, C'[p] \notin closed PROVE got'[C'[p]] \in since
      BY <1>0 DEF FreshUpTo
    <3>1. p \in DOMAIN C
      BY <2>2, <1>1
    <3> QED BY <3>1, <2>1, <2>2, <1>1, <1>2, <1>3 DEF FreshUpTo
  <2>4. Rear(r)'
    BY <2>1, <1>0 DEF Rear
  <2> QED BY <1>0, <2>1, <2>2, <2>3, <2>4 DEF RearIsFresh
<1>6. QuietMeansFresh'
  <2> SUFFICES ASSUME ~disturbed, Quiet, NEW p \in DOMAIN C', C'[p] \notin closed
               PROVE  got'[C'[p]] \in since
    BY <1>0 DEF QuietMeansFresh, Quiet
  <2>1. CASE p \in DOMAIN C
    BY <2>1, <1>1, <1>2, <1>3 DEF Inv, QuietMeansFresh
  <2>2. CASE p \notin DOMAIN C
    <3>1. p = Len(C) + 1
      BY <2>2, <1>1, <1>2
    <3> QED BY <3>1, <1>2, <1>3 DEF Inv
  <2> QED BY <2>1, <2>2
<1> QED BY <1>4, <1>5, <1>6

\* A handler removes its socket: if walks are under way it has been removed before, or
\* the list is disturbed.
LEMMA LeaveFresh ==
  ASSUME Inv, NEW ws \in Sockets, Leave(ws)
  PROVE  InPlace' /\ RearIsFresh' /\ QuietMeansFresh'
<1> DEFINE C == CONNECTED_WEBSOCKETS
<1>0. Base /\ UNCHANGED <<closed, since, spawned, walks, got>> /\ Removes({ws}, walks)
  BY DEF Inv, Base, Leave, Forgets, pushes
<1>1. /\ \A p \in DOMAIN C' : \E q \in DOMAIN C : C'[p] = C[q]
      /\ ~disturbed' => ~disturbed
      /\ ~disturbed' /\ walks # <<>> =>
           DOMAIN C' = DOMAIN C /\ \A p \in DOMAIN C : C'[p] = C[p]
  BY <1>0, RemovesFacts DEF Base
<1>2. walks # <<>> <=> DOMAIN walks # {}
  BY <1>0, WalkTypes, EmptySeq
<1>3. InPlace'
  BY <1>0, <1>1, <1>2 DEF InPlace, Inv
<1>4. RearIsFresh'
  <2> SUFFICES ASSUME ~disturbed', spawned = 0, walks # <<>> PROVE RearIsFresh'
    BY <1>0 DEF RearIsFresh
  <2>1. PICK r \in DOMAIN walks : Rear(r) /\ walks[r].snap \in since /\ FreshUpTo(walks[r].at)
    BY <1>1 DEF Inv, RearIsFresh
  <2>2. PICK front \in Nat : front = walks[r].at /\ front \in DOMAIN C
    BY <1>0, <1>1, WalkTypes DEF Inv, InPlace
  <2>3. \A p \in 1..front : p \in DOMAIN C
    BY <2>2, <1>0, WalkTypes
  <2>4. FreshUpTo(front)'
    BY <2>1, <2>2, <2>3, <1>0, <1>1 DEF FreshUpTo
  <2>5. Rear(r)'
    BY <2>1, <1>0 DEF Rear
  <2> QED BY <1>0, <2>1, <2>2, <2>4, <2>5 DEF RearIsFresh
<1>5. QuietMeansFresh'
  <2> SUFFICES ASSUME ~disturbed', Quiet PROVE QuietMeansFresh'
    BY <1>0 DEF QuietMeansFresh, Quiet
  <2>1. \A q \in DOMAIN C : C[q] \notin closed => got[C[q]] \in since
    BY <1>1 DEF Inv, QuietMeansFresh
  <2> QED BY <2>1, <1>0, <1>1 DEF QuietMeansFresh
<1> QED BY <1>3, <1>4, <1>5

-----------------------------------------------------------------------------
(* The theorems *)

LEMMA FreshStep ==
  ASSUME Inv, [Next]_vars
  PROVE  InPlace' /\ RearIsFresh' /\ QuietMeansFresh'
<1>1. ASSUME Event PROVE InPlace' /\ RearIsFresh' /\ QuietMeansFresh'
  <2>1. /\ spawned \in Nat /\ spawned' = spawned + 1
        /\ disturbed' = (disturbed /\ ~Quiet) /\ UNCHANGED <<CONNECTED_WEBSOCKETS, walks>>
    BY <1>1 DEF Event, sockets, Inv, TypeOK
  <2>2. spawned' # 0
    BY <2>1
  <2>3. Quiet => DOMAIN walks = {}
    BY EmptySeq DEF Quiet
  <2> QED BY <2>1, <2>2, <2>3 DEF InPlace, RearIsFresh, QuietMeansFresh, Quiet, Inv
<1>2. CASE AdminReset
  <2>1. UNCHANGED <<CONNECTED_WEBSOCKETS, closed, walks, got, spawned, disturbed>>
        /\ since \subseteq since'
    BY <1>2 DEF AdminReset, sockets, pushes
  <2>2. ASSUME NEW r, Rear(r) PROVE Rear(r)'
    BY <2>1, <2>2 DEF Rear
  <2>3. RearIsFresh'
    <3> SUFFICES ASSUME ~disturbed, spawned = 0, walks # <<>> PROVE RearIsFresh'
      BY <2>1 DEF RearIsFresh
    <3>1. PICK r \in DOMAIN walks : Rear(r) /\ walks[r].snap \in since /\ FreshUpTo(walks[r].at)
      BY DEF Inv, RearIsFresh
    <3> QED BY <2>1, <2>2, <3>1 DEF RearIsFresh, FreshUpTo
  <2> QED BY <2>1, <2>3 DEF InPlace, QuietMeansFresh, Quiet, Inv
<1>3. ASSUME NEW ws \in Sockets, Close(ws) PROVE InPlace' /\ RearIsFresh' /\ QuietMeansFresh'
  <2>1. UNCHANGED <<CONNECTED_WEBSOCKETS, walks, got, spawned, disturbed, since>>
        /\ closed \subseteq closed'
    BY <1>3 DEF Close, pushes
  <2>2. ASSUME NEW r, Rear(r) PROVE Rear(r)'
    BY <2>1, <2>2 DEF Rear
  <2>3. RearIsFresh'
    <3> SUFFICES ASSUME ~disturbed, spawned = 0, walks # <<>> PROVE RearIsFresh'
      BY <2>1 DEF RearIsFresh
    <3>1. PICK r \in DOMAIN walks : Rear(r) /\ walks[r].snap \in since /\ FreshUpTo(walks[r].at)
      BY DEF Inv, RearIsFresh
    <3> QED BY <2>1, <2>2, <3>1 DEF RearIsFresh, FreshUpTo
  <2> QED BY <2>1, <2>3 DEF InPlace, QuietMeansFresh, Quiet, Inv
<1>4. ASSUME NEW i, Continue(i) PROVE InPlace' /\ RearIsFresh' /\ QuietMeansFresh'
  <2>1. i \in DOMAIN walks
    BY <1>4 DEF Continue
  <2> QED BY <2>1, <1>4, ContinueFresh, EndFresh
<1>5. CASE UNCHANGED vars
  <2>1. UNCHANGED <<CONNECTED_WEBSOCKETS, closed, walks, got, spawned, disturbed, since>>
    BY <1>5 DEF vars, sockets, pushes
  <2>2. ASSUME NEW r, Rear(r) PROVE Rear(r)'
    BY <2>1, <2>2 DEF Rear
  <2> QED BY <2>1, <2>2 DEF InPlace, RearIsFresh, FreshUpTo, QuietMeansFresh, Quiet, Inv
<1> QED
  BY <1>1, <1>2, <1>3, <1>4, <1>5, ConnectFresh, LeaveFresh, StartFresh
  DEF Next, PushTokenEvent, PushAgentUsage

\* The types, and the order of the walks.
THEOREM Invariance == Spec => []Inv
<1>1. Init => Inv
  <2> SUFFICES ASSUME Init PROVE Inv
    OBVIOUS
  <2>1. Base
    BY BaseInit
  <2>2. walks = <<>> /\ DOMAIN walks = {} /\ DOMAIN CONNECTED_WEBSOCKETS = {}
    BY DEF Init
  <2> QED BY <2>1, <2>2 DEF Inv, Base, InPlace, RearIsFresh, QuietMeansFresh
<1>2. Inv /\ [Next]_vars => Inv'
  <2> SUFFICES ASSUME Inv, [Next]_vars PROVE Inv'
    OBVIOUS
  <2>1. Base'
    BY BaseStep DEF Inv, Base
  <2> QED BY <2>1, FreshStep DEF Inv, Base
<1> QED BY <1>1, <1>2, PTL DEF Spec

\* Every variable of the metrics service keeps its type; in particular no socket is in
\* the list twice, and every socket that is sent a snapshot has connected.
THEOREM TypeCorrect == Spec => []TypeOK
<1>1. Inv => TypeOK
  BY DEF Inv
<1> QED BY <1>1, Invariance, PTL

\* When every push has ended, the dashboards show what was current at the last event or
\* since (_broadcast_snapshot), unless a socket left the list during a walk.
THEOREM QuietDashboardsAreFresh == Spec => []QuietMeansFresh
<1>1. Inv => QuietMeansFresh
  BY DEF Inv
<1> QED BY <1>1, Invariance, PTL
=============================================================================
