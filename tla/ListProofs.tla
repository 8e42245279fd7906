------------------------------- MODULE ListProofs -------------------------------
(***************************************************************************)
(* What is left of a list, by induction over its length: an induction here *)
(* takes the least number of which the claim fails.                        *)
(***************************************************************************)
EXTENDS Lists, SequenceTheorems, WellFoundedInduction, TLAPS

\* A set of numbers that is not empty has a least one.
LEMMA LeastNumber ==
  ASSUME NEW T \in SUBSET Nat, T # {}
  PROVE  \E n \in T : \A m \in T : n <= m
<1> DEFINE R == {p \in Nat \X Nat : p[1] < p[2]}
<1>1. IsWellFoundedOn(R, Nat)
  BY NatLessThanWellFounded DEF OpToRel
<1> HIDE DEF R
<1>2. PICK n \in T : \A m \in T : ~ (<<m, n>> \in R)
  BY <1>1, WFMin
<1>3. ASSUME NEW m \in T PROVE n <= m
  <2>1. m \in Nat /\ n \in Nat
    OBVIOUS
  <2>2. m < n => <<m, n>> \in R
    BY <2>1 DEF R
  <2> QED BY <2>1, <2>2, <1>2
<1> QED BY <1>3

\* F computes Less on the beginnings of list, up to the first N of it.
Computes(F, list, gone, N) ==
  F = [n \in 0..N |->
         IF n = 0 THEN <<>>
         ELSE IF list[n] \in gone THEN F[n - 1] ELSE Append(F[n - 1], list[n])]

\* The recursion of Less is well founded: some function satisfies it.
LEMMA LessIsComputed ==
  ASSUME NEW S, NEW list \in Seq(S), NEW gone
  PROVE  \E F : Computes(F, list, gone, Len(list))
<1> DEFINE T == {N \in Nat : ~ \E F : Computes(F, list, gone, N)}
<1>1. SUFFICES ASSUME T # {} PROVE FALSE
  BY LenProperties
<1>2. PICK N \in T : \A m \in T : N <= m
  BY <1>1, LeastNumber
<1>3. N # 0
  <2> DEFINE F == [n \in 0..0 |-> <<>>]
  <2>1. Computes(F, list, gone, 0)
    BY DEF Computes
  <2> QED BY <2>1
<1>4. N \in Nat /\ N - 1 \in Nat /\ N - 1 \notin T
  BY <1>2, <1>3
<1>5. PICK F : Computes(F, list, gone, N - 1)
  BY <1>4
<1> DEFINE last == IF list[N] \in gone THEN F[N - 1] ELSE Append(F[N - 1], list[N])
           G == [n \in 0..N |-> IF n = N THEN last ELSE F[n]]
<1>6. Computes(G, list, gone, N)
  <2>1. ASSUME NEW n \in 0..N
        PROVE  G[n] = IF n = 0 THEN <<>>
                      ELSE IF list[n] \in gone THEN G[n - 1] ELSE Append(G[n - 1], list[n])
    <3>1. CASE n = N
      <4>1. N - 1 \in 0..N /\ N - 1 # N
        BY <1>4
      <4> QED BY <3>1, <4>1, <1>3
    <3>2. CASE n # N
      <4>1. n \in 0..N - 1 /\ (n # 0 => n - 1 \in 0..N - 1 /\ n - 1 \in 0..N /\ n - 1 # N)
        BY <3>2, <1>4
      <4>2. F[n] = IF n = 0 THEN <<>>
                   ELSE IF list[n] \in gone THEN F[n - 1] ELSE Append(F[n - 1], list[n])
        BY <4>1, <1>5 DEF Computes
      <4>3. G[n] = F[n] /\ (n # 0 => G[n - 1] = F[n - 1])
        BY <4>1, <3>2
      <4> HIDE DEF G
      <4> QED BY <4>2, <4>3
    <3> QED BY <3>1, <3>2
  <2>2. G = [n \in 0..N |-> G[n]]
    OBVIOUS
  <2> HIDE DEF G
  <2> QED BY <2>1, <2>2 DEF Computes
<1> QED BY <1>6, <1>2

\* No value is listed twice.
Distinct(list) == \A j, k \in DOMAIN list : list[j] = list[k] => j = k

\* left is what is left of the first n of list.
LeftOf(left, list, gone, n) ==
  /\ \A k \in 1..n : list[k] \notin gone => \E m \in DOMAIN left : left[m] = list[k]
  /\ \A m \in DOMAIN left : left[m] \notin gone /\ \E k \in 1..n : left[m] = list[k]
  /\ Distinct(list) => Distinct(left)
  /\ (\A k \in 1..n : list[k] \notin gone) => Len(left) = n /\ \A k \in 1..n : left[k] = list[k]

\* One more of the list, and it stays.
LEMMA LeftOfAppend ==
  ASSUME NEW S, NEW list \in Seq(S), NEW gone, NEW old \in Seq(S),
         NEW n \in 1..Len(list), list[n] \notin gone, LeftOf(old, list, gone, n - 1)
  PROVE  LeftOf(Append(old, list[n]), list, gone, n)
<1> DEFINE new == Append(old, list[n])
<1>1. /\ new \in Seq(S) /\ Len(old) \in Nat /\ DOMAIN old = 1..Len(old)
      /\ DOMAIN new = 1..Len(old) + 1 /\ Len(new) = Len(old) + 1
      /\ \A m \in 1..Len(old) : new[m] = old[m]
      /\ new[Len(old) + 1] = list[n]
  BY ElementOfSeq, AppendProperties, LenProperties
<1>2. n \in Nat /\ Len(list) \in Nat /\ DOMAIN list = 1..Len(list) /\ n \in 1..n /\ n \in DOMAIN list
  BY LenProperties
<1> HIDE DEF new
<1>3. ASSUME NEW k \in 1..n, list[k] \notin gone PROVE \E m \in DOMAIN new : new[m] = list[k]
  <2>1. CASE k = n
    <3>1. Len(old) + 1 \in DOMAIN new
      BY <1>1
    <3> QED BY <2>1, <3>1, <1>1
  <2>2. CASE k # n
    <3>1. k \in 1..n - 1
      BY <2>2, <1>2
    <3>2. PICK m \in DOMAIN old : old[m] = list[k]
      BY <3>1, <1>3 DEF LeftOf
    <3>3. m \in DOMAIN new /\ new[m] = old[m]
      BY <3>2, <1>1
    <3> QED BY <3>2, <3>3
  <2> QED BY <2>1, <2>2
<1>4. ASSUME NEW m \in DOMAIN new PROVE new[m] \notin gone /\ \E k \in 1..n : new[m] = list[k]
  <2>1. CASE m = Len(old) + 1
    BY <2>1, <1>1, <1>2
  <2>2. CASE m # Len(old) + 1
    <3>1. m \in DOMAIN old /\ new[m] = old[m]
      BY <2>2, <1>1
    <3>2. PICK k \in 1..n - 1 : old[m] = list[k]
      BY <3>1 DEF LeftOf
    <3>3. k \in 1..n
      BY <3>2, <1>2
    <3> QED BY <3>1, <3>2, <3>3 DEF LeftOf
  <2> QED BY <2>1, <2>2
<1>5. ASSUME Distinct(list) PROVE Distinct(new)
  <2>1. \A m \in DOMAIN old : old[m] # list[n]
    <3> SUFFICES ASSUME NEW m \in DOMAIN old, old[m] = list[n] PROVE FALSE
      OBVIOUS
    <3>1. PICK k \in 1..n - 1 : old[m] = list[k]
      BY DEF LeftOf
    <3>2. k \in DOMAIN list /\ k # n
      BY <1>2
    <3> QED BY <3>1, <3>2, <1>2, <1>5 DEF Distinct
  <2>2. Distinct(old)
    BY <1>5 DEF LeftOf
  <2> SUFFICES ASSUME NEW j \in DOMAIN new, NEW k \in DOMAIN new, new[j] = new[k]
               PROVE  j = k
    BY DEF Distinct
  <2>3. /\ j \in DOMAIN old \/ j = Len(old) + 1
        /\ k \in DOMAIN old \/ k = Len(old) + 1
    BY <1>1
  <2>4. \A m \in DOMAIN old : new[m] = old[m]
    BY <1>1
  <2> QED BY <2>1, <2>2, <2>3, <2>4, <1>1 DEF Distinct
<1>6. ASSUME \A k \in 1..n : list[k] \notin gone
      PROVE  Len(new) = n /\ \A k \in 1..n : new[k] = list[k]
  <2>1. \A k \in 1..n - 1 : k \in 1..n
    BY <1>2
  <2>2. Len(old) = n - 1 /\ \A k \in 1..n - 1 : old[k] = list[k]
    BY <2>1, <1>6 DEF LeftOf
  <2>3. Len(new) = n
    BY <2>2, <1>1, <1>2
  <2>4. ASSUME NEW k \in 1..n PROVE new[k] = list[k]
    <3>1. CASE k = n
      BY <3>1, <2>2, <1>1, <1>2
    <3>2. CASE k # n
      <4>1. k \in 1..n - 1 /\ k \in 1..Len(old)
        BY <3>2, <2>2, <1>2
      <4> QED BY <4>1, <2>2, <1>1
    <3> QED BY <3>1, <3>2
  <2> QED BY <2>3, <2>4
<1>7. LeftOf(new, list, gone, n)
  BY <1>3, <1>4, <1>5, <1>6 DEF LeftOf
<1> QED BY <1>7 DEF new

\* One more of the list, and it goes.
LEMMA LeftOfGone ==
  ASSUME NEW S, NEW list \in Seq(S), NEW gone, NEW old \in Seq(S),
         NEW n \in 1..Len(list), list[n] \in gone, LeftOf(old, list, gone, n - 1)
  PROVE  LeftOf(old, list, gone, n)
<1>1. n \in Nat /\ \A k \in 1..n : k = n \/ k \in 1..n - 1
  BY LenProperties
<1>2. n \in 1..n /\ \A k \in 1..n - 1 : k \in 1..n
  BY <1>1
<1>3. \A k \in 1..n : list[k] \notin gone => \E m \in DOMAIN old : old[m] = list[k]
  BY <1>1 DEF LeftOf
<1>4. \A m \in DOMAIN old : old[m] \notin gone /\ \E k \in 1..n : old[m] = list[k]
  BY <1>2 DEF LeftOf
<1> QED BY <1>2, <1>3, <1>4 DEF LeftOf

\* Less returns what is left of the whole list.
LEMMA LessFacts ==
  ASSUME NEW S, NEW list \in Seq(S), NEW gone
  PROVE  Less(list, gone) \in Seq(S) /\ LeftOf(Less(list, gone), list, gone, Len(list))
<1> DEFINE upto == CHOOSE F : Computes(F, list, gone, Len(list))
<1>1. Less(list, gone) = upto[Len(list)]
  BY DEF Less, Computes
<1>2. Computes(upto, list, gone, Len(list))
  BY LessIsComputed
<1> HIDE DEF upto
<1> DEFINE Good(n) == upto[n] \in Seq(S) /\ LeftOf(upto[n], list, gone, n)
           T == {n \in 0..Len(list) : ~Good(n)}
<1>3. SUFFICES Good(Len(list))
  BY <1>1
<1> HIDE DEF Good
<1>4. Len(list) \in Nat
  BY LenProperties
<1>5. SUFFICES ASSUME T # {} PROVE FALSE
  BY <1>4
<1>6. PICK n \in T : \A m \in T : n <= m
  <2>1. T \in SUBSET Nat
    BY <1>4
  <2> HIDE DEF T
  <2> QED BY <1>5, <2>1, LeastNumber
<1>7. n \in 0..Len(list) /\ ~Good(n)
  BY <1>6
<1>8. n # 0
  <2>1. upto[0] = <<>>
    BY <1>2, <1>4 DEF Computes
  <2>2. LeftOf(<<>>, list, gone, 0)
    BY EmptySeq DEF LeftOf, Distinct
  <2>3. Good(0)
    BY <2>1, <2>2, EmptySeq DEF Good
  <2> QED BY <2>3, <1>7
<1>9. n - 1 \in 0..Len(list) /\ n \in 1..Len(list) /\ n - 1 \notin T
  BY <1>4, <1>6, <1>7, <1>8
<1>10. upto[n - 1] \in Seq(S) /\ LeftOf(upto[n - 1], list, gone, n - 1) /\ list[n] \in S
  BY <1>9, ElementOfSeq DEF Good
<1>11. upto[n] = IF list[n] \in gone THEN upto[n - 1] ELSE Append(upto[n - 1], list[n])
  BY <1>2, <1>7, <1>8 DEF Computes
<1>12. CASE list[n] \in gone
  BY <1>7, <1>9, <1>10, <1>11, <1>12, LeftOfGone DEF Good
<1>13. CASE list[n] \notin gone
  <2>1. upto[n] \in Seq(S)
    BY <1>10, <1>11, <1>13, AppendProperties
  <2>2. LeftOf(upto[n], list, gone, n)
    BY <1>9, <1>10, <1>11, <1>13, LeftOfAppend
  <2> QED BY <2>1, <2>2, <1>7 DEF Good
<1> QED BY <1>12, <1>13
=============================================================================
