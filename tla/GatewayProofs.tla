----------------------------- MODULE GatewayProofs -----------------------------
(***************************************************************************)
(* Proofs about the gateway and, last, about its launcher. The invariant   *)
(* of the gateway adds to the properties what they rest on: the attempts   *)
(* kept for an address are the latest of those it was allowed, and the     *)
(* others have left the window; a token expires a TTL, at most, after its  *)
(* user last had its role.                                                 *)
(***************************************************************************)
EXTENDS Gateway, Launcher, FiniteSetTheorems, ListProofs

Finite == IsFiniteSet(DOMAIN users) /\ IsFiniteSet(DOMAIN hits)

RolesCovered == \A t \in tokens : t.exp <= held[t.sub][t.role] + TOKEN_TTL_S

\* What is kept of the attempts of ip.
KeptOf(ip) == IF ip \in DOMAIN hits THEN hits[ip] ELSE <<>>

InOrder(times) == \A i, j \in DOMAIN times : i <= j => times[i] <= times[j]

\* recent is the end of all, and the rest of it has left the window by t.
Remembers(recent, all, t) ==
  /\ Len(recent) <= Len(all)
  /\ \A i \in 1..Len(recent) : recent[i] = all[Len(all) - Len(recent) + i]
  /\ \A i \in 1..Len(all) - Len(recent) : all[i] <= t - WINDOW_S

HitsRemember ==
  \A ip \in Addresses : InOrder(allowed[ip]) /\ Remembers(KeptOf(ip), allowed[ip], now)

Inv == TypeOK /\ Finite /\ RolesCovered /\ HitsRemember /\ LoginBound

LEMMA Numbers ==
  LIMIT \in Nat /\ LIMIT >= 1 /\ WINDOW_S \in Nat /\ MAX_KEYS \in Nat /\ TOKEN_TTL_S \in Nat
BY GatewayAssumption

-----------------------------------------------------------------------------
(* The loop that drops the attempts that have aged *)

\* The loop of check_and_record stops: before the first attempt that has not aged.
LEMMA PoppedFacts ==
  ASSUME NEW times \in Seq(Int), NEW cutoff \in Int
  PROVE  LET k == Popped(times, cutoff) IN
         /\ k \in 0..Len(times)
         /\ \A i \in 1..k : times[i] <= cutoff
         /\ k < Len(times) => times[k + 1] > cutoff
<1> DEFINE T == {k \in 0..Len(times) : k < Len(times) => times[k + 1] > cutoff}
<1>1. Len(times) \in T /\ T \in SUBSET Nat
  <2>1. Len(times) \in Nat
    BY LenProperties
  <2> QED BY <2>1
<1>2. PICK n \in T : \A m \in T : n <= m
  BY <1>1, LeastNumber
<1>3. ASSUME NEW i \in 1..n PROVE times[i] <= cutoff
  <2>1. i - 1 \in 0..Len(times) /\ i - 1 < Len(times) /\ i - 1 < n /\ (i - 1) + 1 = i
    BY <1>2, <1>3, LenProperties
  <2>2. i - 1 \notin T
    BY <2>1, <1>2, LenProperties
  <2>3. times[i] \in Int
    BY <2>1, <1>3, ElementOfSeq, LenProperties
  <2> QED BY <2>1, <2>2, <2>3
<1> QED BY <1>2, <1>3 DEF Popped

\* What the loop leaves is the end of what it found: the attempts after the aged ones.
LEMMA AfterFacts ==
  ASSUME NEW S \in SUBSET Int, NEW times \in Seq(S), NEW cutoff \in Int
  PROVE  /\ After(times, cutoff) \in Seq(S)
         /\ Len(After(times, cutoff)) <= Len(times)
         /\ \A i \in 1..Len(After(times, cutoff)) :
              After(times, cutoff)[i] = times[Len(times) - Len(After(times, cutoff)) + i]
         /\ \A i \in 1..Len(times) - Len(After(times, cutoff)) : times[i] <= cutoff
<1> DEFINE k == Popped(times, cutoff)
<1>1. times \in Seq(Int) /\ Len(times) \in Nat
  BY SeqMonotonic, LenProperties
<1>2. k \in 0..Len(times) /\ \A i \in 1..k : times[i] <= cutoff
  BY <1>1, PoppedFacts
<1>3. \A i \in k + 1..Len(times) : times[i] \in S
  BY <1>1, <1>2, ElementOfSeq
<1> HIDE DEF k
<1>4. /\ SubSeq(times, k + 1, Len(times)) \in Seq(S)
      /\ Len(SubSeq(times, k + 1, Len(times))) =
           IF k + 1 <= Len(times) THEN Len(times) - (k + 1) + 1 ELSE 0
      /\ \A i \in 1..Len(times) - (k + 1) + 1 :
           SubSeq(times, k + 1, Len(times))[i] = times[k + 1 + i - 1]
  BY <1>1, <1>2, <1>3, SubSeqProperties
<1>5. Len(SubSeq(times, k + 1, Len(times))) = Len(times) - k
  BY <1>1, <1>2, <1>4
<1>6. \A i \in 1..Len(times) - k : k + 1 + i - 1 = k + i
  BY <1>1, <1>2
<1>7. After(times, cutoff) = SubSeq(times, k + 1, Len(times))
  BY DEF After, k
<1> DEFINE s == After(times, cutoff)
<1>8. /\ s \in Seq(S) /\ Len(s) = Len(times) - k
      /\ \A i \in 1..Len(times) - k : s[i] = times[k + i]
  <2>1. Len(times) - (k + 1) + 1 = Len(times) - k
    BY <1>1, <1>2
  <2> QED BY <1>4, <1>5, <1>6, <1>7, <2>1
<1> HIDE DEF s
<1>9. Len(times) - Len(s) = k /\ Len(s) <= Len(times)
  BY <1>1, <1>2, <1>8
<1>10. /\ \A i \in 1..Len(s) : s[i] = times[Len(times) - Len(s) + i]
       /\ \A i \in 1..Len(times) - Len(s) : times[i] <= cutoff
  BY <1>2, <1>8, <1>9
<1> QED BY <1>8, <1>9, <1>10 DEF s

-----------------------------------------------------------------------------
(* The attempts of an address *)

\* A prune drops whole addresses, and only those that do not count any more.
LEMMA KeptFacts ==
  ASSUME NEW ip
  PROVE  /\ DOMAIN Kept(ip) \subseteq DOMAIN hits
         /\ \A q \in DOMAIN Kept(ip) : Kept(ip)[q] = hits[q]
         /\ \A q \in DOMAIN hits \ DOMAIN Kept(ip) : ip \notin DOMAIN hits /\ Stale(q)
  BY DEF Kept, _prune, Without

\* An address is stale when the last attempt it was allowed, and so every one, has
\* left the window.
LEMMA StaleIsForgotten ==
  ASSUME TypeOK, HitsRemember, NEW q \in Addresses, q \in DOMAIN hits, Stale(q)
  PROVE  Remembers(<<>>, allowed[q], now)
<1> DEFINE h == hits[q]  a == allowed[q]
<1>1. /\ h \in Seq(0..now) /\ Len(h) \in 1..LIMIT /\ Len(h) \in Nat /\ h[Len(h)] \in 0..now
      /\ a \in Seq(0..now) /\ Len(a) \in Nat /\ DOMAIN a = 1..Len(a)
  BY GatewayAssumption, ElementOfSeq, LenProperties DEF TypeOK
<1>2. InOrder(a) /\ Remembers(h, a, now)
  BY DEF HitsRemember, KeptOf
<1>3. now - h[Len(h)] > WINDOW_S
  <2>1. h # <<>>
    BY <1>1, EmptySeq
  <2> QED BY <2>1 DEF Stale, Last
<1>4. h[Len(h)] = a[Len(a)]
  <2>1. Len(h) \in 1..Len(h) /\ Len(a) - Len(h) + Len(h) = Len(a)
    BY <1>1, GatewayAssumption
  <2> QED BY <2>1, <1>2 DEF Remembers
<1>5. ASSUME NEW i \in 1..Len(a) PROVE a[i] <= now - WINDOW_S
  <2>1. i \in DOMAIN a /\ Len(a) \in DOMAIN a /\ i <= Len(a)
    BY <1>1, <1>5
  <2>2. a[i] <= a[Len(a)]
    BY <2>1, <1>2 DEF InOrder
  <2>3. a[i] \in 0..now /\ now \in Nat
    BY <1>1, <1>5, ElementOfSeq DEF TypeOK
  <2> HIDE DEF a, h
  <2> QED BY <2>2, <2>3, <1>1, <1>3, <1>4, Numbers
<1>6. Len(<<>>) = 0 /\ Len(a) - 0 = Len(a)
  BY <1>1, EmptySeq
<1> HIDE DEF a
<1>7. Remembers(<<>>, a, now)
  BY <1>1, <1>5, <1>6 DEF Remembers
<1> QED BY <1>7 DEF a

LEMMA RemembersAfter ==
  ASSUME NEW t \in Nat, NEW h \in Seq(0..t), NEW a \in Seq(0..t), Remembers(h, a, t)
  PROVE  Remembers(After(h, t - WINDOW_S), a, t)
<1> DEFINE s == After(h, t - WINDOW_S)
<1>1. /\ s \in Seq(0..t) /\ Len(s) <= Len(h)
      /\ \A i \in 1..Len(s) : s[i] = h[Len(h) - Len(s) + i]
      /\ \A i \in 1..Len(h) - Len(s) : h[i] <= t - WINDOW_S
  BY AfterFacts, Numbers
<1> HIDE DEF s
<1>2. Len(s) \in Nat /\ Len(h) \in Nat /\ Len(a) \in Nat /\ Len(h) <= Len(a)
  BY <1>1, LenProperties DEF Remembers
<1>3. ASSUME NEW i \in 1..Len(s) PROVE s[i] = a[Len(a) - Len(s) + i]
  <2>1. /\ Len(h) - Len(s) + i \in 1..Len(h)
        /\ Len(a) - Len(h) + (Len(h) - Len(s) + i) = Len(a) - Len(s) + i
    BY <1>1, <1>2
  <2> QED BY <1>1, <2>1 DEF Remembers
<1>4. ASSUME NEW i \in 1..Len(a) - Len(s) PROVE a[i] <= t - WINDOW_S
  <2>1. CASE i <= Len(a) - Len(h)
    BY <2>1, <1>2 DEF Remembers
  <2>2. CASE i > Len(a) - Len(h)
    <3>1. /\ i - (Len(a) - Len(h)) \in 1..Len(h) - Len(s)
          /\ i - (Len(a) - Len(h)) \in 1..Len(h)
          /\ Len(a) - Len(h) + (i - (Len(a) - Len(h))) = i
      BY <2>2, <1>1, <1>2
    <3> QED BY <3>1, <1>1 DEF Remembers
  <2> QED BY <2>1, <2>2, <1>2
<1>5. Remembers(s, a, t)
  BY <1>1, <1>2, <1>3, <1>4 DEF Remembers
<1> QED BY <1>5 DEF s

LEMMA RemembersAppend ==
  ASSUME NEW t \in Nat, NEW h \in Seq(0..t), NEW a \in Seq(0..t),
         InOrder(a), Remembers(h, a, t)
  PROVE  InOrder(Append(a, t)) /\ Remembers(Append(h, t), Append(a, t), t)
<1> DEFINE ha == Append(h, t)  aa == Append(a, t)
<1>1. /\ t \in 0..t /\ Len(h) \in Nat /\ Len(a) \in Nat /\ DOMAIN a = 1..Len(a)
      /\ Len(h) <= Len(a)
  BY LenProperties DEF Remembers
<1>2. /\ ha \in Seq(0..t) /\ Len(ha) = Len(h) + 1
      /\ \A i \in 1..Len(h) : ha[i] = h[i]
      /\ ha[Len(h) + 1] = t
      /\ aa \in Seq(0..t) /\ Len(aa) = Len(a) + 1 /\ DOMAIN aa = 1..Len(aa)
      /\ \A i \in 1..Len(a) : aa[i] = a[i]
      /\ aa[Len(a) + 1] = t
  BY <1>1, AppendProperties, LenProperties
<1>3. \A i \in 1..Len(a) : a[i] \in 0..t
  BY ElementOfSeq
<1> HIDE DEF ha, aa
<1>4. ASSUME NEW i \in DOMAIN aa, NEW j \in DOMAIN aa, i <= j PROVE aa[i] <= aa[j]
  <2>1. CASE j = Len(a) + 1
    <3>1. i \in 1..Len(a) \/ i = Len(a) + 1
      BY <1>1, <1>2
    <3> QED BY <2>1, <3>1, <1>2, <1>3
  <2>2. CASE j # Len(a) + 1
    <3>0. i \in 1..Len(a) + 1 /\ j \in 1..Len(a) + 1
      BY <1>2
    <3>1. i \in DOMAIN a /\ j \in DOMAIN a
      BY <2>2, <3>0, <1>1, <1>4
    <3>2. a[i] <= a[j]
      BY <3>1, <1>4 DEF InOrder
    <3>3. aa[i] = a[i] /\ aa[j] = a[j]
      BY <3>1, <1>1, <1>2
    <3> QED BY <3>2, <3>3
  <2> QED BY <2>1, <2>2
<1>5. Len(aa) - Len(ha) = Len(a) - Len(h)
  BY <1>1, <1>2
<1>6. ASSUME NEW i \in 1..Len(ha) PROVE ha[i] = aa[Len(aa) - Len(ha) + i]
  <2>1. CASE i = Len(h) + 1
    <3>1. Len(aa) - Len(ha) + i = Len(a) + 1
      BY <2>1, <1>1, <1>5
    <3> QED BY <2>1, <3>1, <1>2
  <2>2. CASE i # Len(h) + 1
    <3>0. i \in 1..Len(h) + 1
      BY <1>2
    <3>1. i \in 1..Len(h) /\ Len(a) - Len(h) + i \in 1..Len(a)
      BY <2>2, <3>0, <1>1
    <3>2. h[i] = a[Len(a) - Len(h) + i]
      BY <3>1 DEF Remembers
    <3>3. ha[i] = h[i] /\ aa[Len(a) - Len(h) + i] = a[Len(a) - Len(h) + i]
      BY <3>1, <1>2
    <3> QED BY <3>2, <3>3, <1>5
  <2> QED BY <2>1, <2>2
<1>7. ASSUME NEW i \in 1..Len(aa) - Len(ha) PROVE aa[i] <= t - WINDOW_S
  <2>1. i \in 1..Len(a) - Len(h) /\ i \in 1..Len(a)
    BY <1>1, <1>5
  <2> QED BY <2>1, <1>2 DEF Remembers
<1>8. InOrder(aa) /\ Remembers(ha, aa, t)
  BY <1>1, <1>2, <1>4, <1>6, <1>7 DEF InOrder, Remembers
<1> QED BY <1>8 DEF ha, aa

\* As time passes what was not remembered stays out of the window.
LEMMA RemembersLater ==
  ASSUME NEW t \in Nat, NEW u \in Nat, t <= u, NEW h, NEW a \in Seq(0..t),
         Remembers(h, a, t), Len(h) \in Nat
  PROVE  Remembers(h, a, u)
<1>1. \A i \in 1..Len(a) : a[i] \in 0..t
  BY ElementOfSeq
<1>2. Len(a) \in Nat
  BY LenProperties
<1>3. ASSUME NEW i \in 1..Len(a) - Len(h) PROVE a[i] <= u - WINDOW_S
  <2>1. i \in 1..Len(a)
    BY <1>2, <1>3
  <2>2. a[i] \in 0..t /\ a[i] <= t - WINDOW_S
    BY <2>1, <1>1 DEF Remembers
  <2> QED BY <2>2, Numbers
<1> QED BY <1>3 DEF Remembers

\* What an attempt finds of its address is what counts now, and no more than the limit.
LEMMA RecentFacts ==
  ASSUME TypeOK, HitsRemember, NEW ip \in Addresses
  PROVE  /\ Recent(ip) \in Seq(0..now) /\ Len(Recent(ip)) <= LIMIT
         /\ Remembers(Recent(ip), allowed[ip], now)
<1>1. now \in Nat /\ allowed[ip] \in Seq(0..now) /\ Remembers(KeptOf(ip), allowed[ip], now)
  BY DEF TypeOK, HitsRemember
<1>2. CASE ip \in DOMAIN Kept(ip)
  <2>1. ip \in DOMAIN hits /\ Recent(ip) = After(hits[ip], now - WINDOW_S)
    BY <1>2, KeptFacts DEF Recent, InWindow
  <2>2. hits[ip] \in Seq(0..now) /\ Len(hits[ip]) \in 1..LIMIT /\ KeptOf(ip) = hits[ip]
    BY <2>1 DEF TypeOK, KeptOf
  <2>3. /\ After(hits[ip], now - WINDOW_S) \in Seq(0..now)
        /\ Len(After(hits[ip], now - WINDOW_S)) <= Len(hits[ip])
    BY <1>1, <2>2, AfterFacts, Numbers
  <2>4. Recent(ip) \in Seq(0..now) /\ Len(Recent(ip)) <= Len(hits[ip])
    BY <2>1, <2>3
  <2>5. Len(Recent(ip)) \in Nat
    BY <2>4, LenProperties
  <2>6. Remembers(Recent(ip), allowed[ip], now)
    BY <1>1, <2>1, <2>2, RemembersAfter
  <2> QED BY <2>2, <2>4, <2>5, <2>6, Numbers
<1>3. CASE ip \notin DOMAIN Kept(ip)
  <2>1. ip \notin DOMAIN hits /\ Recent(ip) = <<>>
    BY <1>3, KeptFacts DEF Recent
  <2> QED BY <1>1, <2>1, EmptySeq, Numbers DEF KeptOf
<1> QED BY <1>2, <1>3

\* The attempts of one address, in order, with LIMIT of them in no window.
Spaced(a) ==
  \A i \in DOMAIN a : i + LIMIT \in DOMAIN a => a[i + LIMIT] - a[i] >= WINDOW_S

\* Fewer than LIMIT attempts count, so the one LIMIT before the next has aged.
LEMMA SpacedAppend ==
  ASSUME NEW t \in Nat, NEW h \in Seq(0..t), NEW a \in Seq(0..t),
         Remembers(h, a, t), Len(h) < LIMIT, Spaced(a)
  PROVE  Spaced(Append(a, t))
<1> DEFINE aa == Append(a, t)
<1>1. Len(h) \in Nat /\ Len(a) \in Nat /\ DOMAIN a = 1..Len(a) /\ Len(h) <= Len(a)
  BY LenProperties DEF Remembers
<1>2. /\ DOMAIN aa = 1..Len(a) + 1 /\ \A i \in 1..Len(a) : aa[i] = a[i]
      /\ aa[Len(a) + 1] = t
  <2>1. t \in 0..t
    OBVIOUS
  <2> QED BY <2>1, AppendProperties, LenProperties
<1> HIDE DEF aa
<1>3. ASSUME NEW i \in DOMAIN aa, i + LIMIT \in DOMAIN aa
      PROVE  aa[i + LIMIT] - aa[i] >= WINDOW_S
  <2>1. i \in 1..Len(a) /\ i + LIMIT \in 1..Len(a) + 1 /\ aa[i] = a[i]
    BY <1>1, <1>2, <1>3, Numbers
  <2>2. CASE i + LIMIT = Len(a) + 1
    <3>1. i \in 1..Len(a) - Len(h)
      BY <2>1, <2>2, <1>1, Numbers
    <3>2. a[i] <= t - WINDOW_S
      BY <3>1 DEF Remembers
    <3>3. a[i] \in 0..t
      BY <2>1, ElementOfSeq
    <3> QED BY <3>2, <3>3, <2>1, <2>2, <1>2, Numbers
  <2>3. CASE i + LIMIT # Len(a) + 1
    <3>1. i \in DOMAIN a /\ i + LIMIT \in DOMAIN a /\ aa[i + LIMIT] = a[i + LIMIT]
      BY <2>1, <2>3, <1>1, <1>2, Numbers
    <3> QED BY <3>1, <2>1 DEF Spaced
  <2> QED BY <2>2, <2>3
<1>4. Spaced(aa)
  BY <1>3 DEF Spaced
<1> QED BY <1>4 DEF aa

\* An attempt of one address leaves what is known of every other as good as it was.
LEMMA AttemptFacts ==
  ASSUME TypeOK, Finite, HitsRemember, now' = now,
         NEW ip \in Addresses,
         NEW h \in Seq(0..now), Len(h) \in 1..LIMIT,
         NEW a \in Seq(0..now), InOrder(a), Remembers(h, a, now),
         hits' = With(Kept(ip), ip, h),
         allowed' = [allowed EXCEPT ![ip] = a]
  PROVE  /\ DOMAIN hits' \subseteq Addresses /\ IsFiniteSet(DOMAIN hits')
         /\ \A q \in DOMAIN hits' : hits'[q] \in Seq(0..now') /\ Len(hits'[q]) \in 1..LIMIT
         /\ allowed' \in [Addresses -> Seq(0..now')]
         /\ HitsRemember'
<1>1. /\ DOMAIN hits' = DOMAIN Kept(ip) \cup {ip} /\ hits'[ip] = h
      /\ \A q \in DOMAIN Kept(ip) : q # ip => hits'[q] = hits[q]
  BY KeptFacts DEF With
<1>2. /\ DOMAIN Kept(ip) \subseteq DOMAIN hits
      /\ \A q \in DOMAIN hits \ DOMAIN Kept(ip) : Stale(q)
  BY KeptFacts
<1>3. IsFiniteSet(DOMAIN hits')
  BY <1>1, <1>2, FS_Subset, FS_AddElement DEF Finite
<1>4. allowed' \in [Addresses -> Seq(0..now')]
  BY DEF TypeOK
<1>5. ASSUME NEW q \in Addresses
      PROVE  InOrder(allowed'[q]) /\ Remembers(KeptOf(q)', allowed'[q], now)
  <2>1. CASE q = ip
    <3>1. KeptOf(q)' = h /\ allowed'[q] = a
      BY <2>1, <1>1 DEF KeptOf, TypeOK
    <3> QED BY <3>1
  <2>2. CASE q # ip
    <3>1. allowed'[q] = allowed[q] /\ InOrder(allowed[q])
      BY <2>2 DEF TypeOK, HitsRemember
    <3>2. CASE q \in DOMAIN hits \ DOMAIN Kept(ip)
      <4>1. KeptOf(q)' = <<>>
        BY <2>2, <3>2, <1>1 DEF KeptOf
      <4> QED BY <3>1, <3>2, <4>1, <1>2, StaleIsForgotten
    <3>3. CASE q \notin DOMAIN hits \ DOMAIN Kept(ip)
      <4>1. KeptOf(q)' = KeptOf(q)
        BY <2>2, <3>3, <1>1, <1>2 DEF KeptOf
      <4> QED BY <3>1, <4>1 DEF HitsRemember
    <3> QED BY <3>2, <3>3
  <2> QED BY <2>1, <2>2
<1>6. HitsRemember'
  BY <1>5 DEF HitsRemember
<1>7. \A q \in DOMAIN hits' : hits'[q] \in Seq(0..now') /\ Len(hits'[q]) \in 1..LIMIT
  BY <1>1, <1>2 DEF TypeOK
<1> QED BY <1>1, <1>2, <1>3, <1>4, <1>6, <1>7 DEF TypeOK

-----------------------------------------------------------------------------
(* The users and the roles they hold *)

\* A list of users as the gateway writes them.
UserList(us) ==
  DOMAIN us \subseteq Usernames /\ IsFiniteSet(DOMAIN us) /\ \A u \in DOMAIN us : us[u] \in ROLES

LEMMA LoadedFacts ==
  ASSUME NEW d, NEW us, UserList(us)
  PROVE  UserList(LoadedFrom(d, us))
<1>1. Admin \in Usernames /\ "admin" \in ROLES
  BY GatewayAssumption DEF ROLES
<1>2. UserList([u \in {Admin} |-> "admin"])
  BY <1>1, FS_Singleton DEF UserList
<1> QED BY <1>2 DEF LoadedFrom

\* What is held of a user's roles is never forgotten, and is of now for the one he has.
LEMMA HeldFacts ==
  ASSUME TypeOK, Holds, now' \in Nat, now <= now'
  PROVE  /\ held' \in [Usernames -> [ROLES -> -1..now']]
         /\ \A u \in Usernames, r \in ROLES : held[u][r] <= held'[u][r]
         /\ \A u \in Usernames, r \in ROLES :
              /\ u \in DOMAIN LoadedFrom(disk', users')
              /\ LoadedFrom(disk', users')[u] = r
              => held'[u][r] = now'
<1>1. now \in Nat /\ \A u \in Usernames, r \in ROLES : held[u][r] \in -1..now
  BY DEF TypeOK
<1>2. \A u \in Usernames, r \in ROLES :
        held'[u][r] = IF u \in DOMAIN LoadedFrom(disk', users') /\ LoadedFrom(disk', users')[u] = r
                      THEN now' ELSE held[u][r]
  BY DEF Holds, Holding
<1>3. \A u \in Usernames, r \in ROLES : held'[u][r] \in -1..now' /\ held[u][r] <= held'[u][r]
  BY <1>1, <1>2
<1>4. held' = [u \in Usernames |-> [r \in ROLES |-> held'[u][r]]]
  BY DEF Holds, Holding
<1>5. held' \in [Usernames -> [ROLES -> -1..now']]
  BY <1>3, <1>4
<1> QED BY <1>2, <1>3, <1>5

\* The handlers that edit the list for the admin by.
Edits(by, u) ==
  \/ users_patch(by, u)
  \/ \E torn \in BOOLEAN :
       \/ \E role \in ROLES : users_create(by, u, role, torn)
       \/ users_delete(by, u, torn)

LEMMA WithFacts ==
  ASSUME NEW us, UserList(us), NEW u \in Usernames, NEW role \in ROLES
  PROVE  /\ UserList(With(us, u, role))
         /\ With(us, u, role)[u] = role /\ u \in DOMAIN With(us, u, role)
         /\ \A x \in DOMAIN us : x \in DOMAIN With(us, u, role)
                              /\ (x # u => With(us, u, role)[x] = us[x])
<1>1. IsFiniteSet(DOMAIN us \cup {u})
  BY FS_AddElement DEF UserList
<1> QED BY <1>1 DEF UserList, With

\* When u is not the last admin somebody else is one.
LEMMA AnotherAdmin ==
  ASSUME UserList(users), NEW u \in DOMAIN users, HasAdmin(users), ~LastAdmin(u)
  PROVE  \E x \in DOMAIN users : x # u /\ users[x] = "admin"
<1> DEFINE A == {x \in DOMAIN users : users[x] = "admin"}
<1>1. IsFiniteSet(A)
  BY FS_Subset DEF UserList
<1>2. CASE users[u] # "admin"
  BY <1>2 DEF HasAdmin
<1>3. CASE users[u] = "admin"
  <2>1. ~(Cardinality(A) <= 1)
    BY <1>3 DEF LastAdmin, _admin_count
  <2>2. SUFFICES ASSUME \A x \in A : x = u PROVE FALSE
    OBVIOUS
  <2>3. A = {u}
    BY <1>3, <2>2
  <2> HIDE DEF A
  <2>4. Cardinality(A) = 1
    BY <2>3, FS_Singleton
  <2> QED BY <2>1, <2>4
<1> QED BY <1>2, <1>3

\* An edit writes one list, on which an admin remains if there was one.
LEMMA EditFacts ==
  ASSUME UserList(users), NEW by \in Usernames, NEW u \in Usernames, Edits(by, u)
  PROVE  /\ disk = "list"
         /\ \E entries, torn : /\ Write(entries, torn) /\ UserList(entries)
                               /\ HasAdmin(users) => HasAdmin(entries)
<1>1. CASE \E torn \in BOOLEAN, role \in ROLES : create_user(u, role, torn)
  <2>1. PICK torn \in BOOLEAN, role \in ROLES : create_user(u, role, torn)
    BY <1>1
  <2>2. u \notin DOMAIN users /\ Write(With(users, u, role), torn) /\ disk = "list"
    BY <2>1 DEF create_user, Readable
  <2> QED BY <2>2, WithFacts DEF HasAdmin
<1>2. CASE set_password(u)
  <2>1. Write(users, TRUE) /\ disk = "list"
    BY <1>2 DEF set_password, Readable
  <2> QED BY <2>1
<1>3. CASE \E role \in ROLES, torn \in BOOLEAN : set_role(u, role, torn)
  <2>1. PICK torn \in BOOLEAN, role \in ROLES : set_role(u, role, torn)
    BY <1>3
  <2>2. /\ u \in DOMAIN users /\ Write(With(users, u, role), torn) /\ disk = "list"
        /\ role # "admin" => ~LastAdmin(u)
    BY <2>1 DEF set_role, Readable
  <2>3. HasAdmin(users) => HasAdmin(With(users, u, role))
    BY <2>2, WithFacts, AnotherAdmin DEF HasAdmin
  <2> QED BY <2>2, <2>3, WithFacts
<1>4. CASE \E torn \in BOOLEAN : delete_user(u, torn)
  <2>1. PICK torn \in BOOLEAN : delete_user(u, torn)
    BY <1>4
  <2>2. /\ u \in DOMAIN users /\ Write(Without(users, {u}), torn) /\ disk = "list"
        /\ ~LastAdmin(u)
    BY <2>1 DEF delete_user, Readable
  <2>3. IsFiniteSet(DOMAIN users \ {u})
    BY FS_RemoveElement DEF UserList
  <2>4. UserList(Without(users, {u}))
    BY <2>3 DEF UserList, Without
  <2>5. HasAdmin(users) => HasAdmin(Without(users, {u}))
    BY <2>2, AnotherAdmin DEF HasAdmin, Without
  <2> QED BY <2>2, <2>4, <2>5
<1> QED BY <1>1, <1>2, <1>3, <1>4 DEF Edits, users_patch, users_create, users_delete

-----------------------------------------------------------------------------
(* The invariant is inductive *)

LEMMA InitInv ==
  ASSUME Init
  PROVE  Inv
<1>1. UserList(users)
  <2>1. CASE users \in Files
    <3>1. PICK U \in SUBSET Usernames : users \in [U -> {"viewer", "operator", "admin"}]
      BY <2>1, GatewayAssumption
    <3>2. IsFiniteSet(DOMAIN users)
      BY <2>1, GatewayAssumption
    <3> QED BY <3>1, <3>2 DEF UserList, ROLES
  <2>2. CASE users = <<>>
    <3>1. DOMAIN users = {}
      BY <2>2
    <3> QED BY <3>1, FS_EmptySet DEF UserList
  <2> QED BY <2>1, <2>2 DEF Init
<1>2. /\ DOMAIN hits = {} /\ now = 0
      /\ \A ip \in Addresses : allowed[ip] = <<>>
      /\ tokens = {}
  BY DEF Init
<1>3. UserList(Loaded)
  BY <1>1, LoadedFacts DEF Loaded
<1>4. held \in [Usernames -> [ROLES -> -1..now]]
  <2>1. \A u \in Usernames, r \in ROLES : held[u][r] \in -1..now
    BY <1>2 DEF Init, Holding
  <2>2. held = [u \in Usernames |-> [r \in ROLES |-> held[u][r]]]
    BY DEF Init, Holding
  <2> QED BY <2>1, <2>2
<1>5. TypeOK
  <2>1. allowed \in [Addresses -> Seq(0..now)]
    BY DEF Init
  <2>2. disk # "list" => DOMAIN users = {}
    BY DEF Init
  <2>3. disk \in {"absent", "garbage", "list"} /\ config \in Configs
    BY DEF Init
  <2>4. logins \in Nat /\ edits \in Nat /\ faults \in Nat /\ restarts \in Nat
    BY DEF Init
  <2> QED BY <1>1, <1>2, <1>4, <2>1, <2>2, <2>3, <2>4 DEF TypeOK, UserList
<1>6. Finite
  BY <1>1, <1>2, FS_EmptySet DEF UserList, Finite
<1>7. RolesCovered
  BY <1>2 DEF RolesCovered
<1>8. ASSUME NEW ip \in Addresses
      PROVE  InOrder(allowed[ip]) /\ Remembers(KeptOf(ip), allowed[ip], now) /\ Spaced(allowed[ip])
  <2>1. allowed[ip] = <<>> /\ KeptOf(ip) = <<>> /\ Len(<<>>) = 0 /\ DOMAIN <<>> = {}
    BY <1>2 DEF KeptOf
  <2> QED BY <2>1 DEF InOrder, Remembers, Spaced
<1>9. HitsRemember /\ LoginBound
  BY <1>8 DEF HitsRemember, LoginBound, Spaced
<1> QED BY <1>5, <1>6, <1>7, <1>9 DEF Inv

\* Steps that neither age nor change the attempts.
LEMMA AttemptsUnchanged ==
  ASSUME HitsRemember, LoginBound, UNCHANGED <<now, hits, allowed>>
  PROVE  HitsRemember' /\ LoginBound'
  BY DEF HitsRemember, LoginBound, KeptOf, InOrder, Remembers

\* A token is covered as long as what is held of its role is not forgotten.
LEMMA CoveredStays ==
  ASSUME TypeOK, RolesCovered, Holds, now' \in Nat, now <= now', NEW t \in tokens
  PROVE  t.exp <= held'[t.sub][t.role] + TOKEN_TTL_S
<1>1. t.sub \in Usernames /\ t.role \in ROLES /\ t.exp \in Nat
  BY DEF TypeOK, Tokens
<1>2. /\ held[t.sub][t.role] \in Int /\ held'[t.sub][t.role] \in Int
      /\ held[t.sub][t.role] <= held'[t.sub][t.role]
  <2>1. held[t.sub][t.role] \in -1..now /\ now \in Nat
    BY <1>1 DEF TypeOK
  <2>2. held'[t.sub][t.role] \in -1..now' /\ held[t.sub][t.role] <= held'[t.sub][t.role]
    BY <1>1, HeldFacts
  <2> QED BY <2>1, <2>2
<1>3. t.exp <= held[t.sub][t.role] + TOKEN_TTL_S
  BY DEF RolesCovered
<1> QED BY <1>1, <1>2, <1>3, Numbers

\* What the three outcomes of a login have in common.
Attempt(ip) == LoginThrottled(ip) \/ LoginFails(ip) \/ \E u \in Usernames : Login(ip, u)

LEMMA AttemptInv ==
  ASSUME Inv, NEW ip \in Addresses, Attempt(ip)
  PROVE  /\ DOMAIN hits' \subseteq Addresses /\ IsFiniteSet(DOMAIN hits')
         /\ \A q \in DOMAIN hits' : hits'[q] \in Seq(0..now') /\ Len(hits'[q]) \in 1..LIMIT
         /\ allowed' \in [Addresses -> Seq(0..now')]
         /\ HitsRemember' /\ LoginBound'
<1> USE DEF Inv
<1> DEFINE h == Recent(ip)  a == allowed[ip]
<1>1. /\ now' = now /\ now \in Nat /\ h \in Seq(0..now) /\ Len(h) \in Nat /\ Len(h) <= LIMIT
      /\ a \in Seq(0..now) /\ InOrder(a) /\ Remembers(h, a, now) /\ Spaced(a)
  <2>1. now' = now
    BY DEF Attempt, LoginThrottled, LoginFails, Login
  <2>2. Spaced(a) /\ InOrder(a) /\ now \in Nat /\ a \in Seq(0..now)
    BY DEF LoginBound, Spaced, HitsRemember, TypeOK
  <2> QED BY <2>1, <2>2, RecentFacts, LenProperties
<1>2. CASE LoginThrottled(ip)
  <2>1. /\ hits' = With(Kept(ip), ip, h) /\ allowed' = allowed
        /\ Len(h) >= LIMIT
    BY <1>2 DEF LoginThrottled, OverLimit
  <2>2. allowed' = [allowed EXCEPT ![ip] = a] /\ Len(h) \in 1..LIMIT
    BY <2>1, <1>1, Numbers DEF TypeOK
  <2>3. LoginBound'
    BY <2>1 DEF LoginBound
  <2> HIDE DEF h, a
  <2> QED BY <1>1, <2>1, <2>2, <2>3, AttemptFacts
<1>3. CASE LoginFails(ip) \/ \E u \in Usernames : Login(ip, u)
  <2>1. /\ hits' = With(Kept(ip), ip, Append(h, now))
        /\ allowed' = [allowed EXCEPT ![ip] = Append(a, now)]
        /\ ~(Len(h) >= LIMIT)
    BY <1>3 DEF LoginFails, Login, Records, OverLimit
  <2> HIDE DEF h, a
  <2>2. /\ Append(h, now) \in Seq(0..now) /\ Len(Append(h, now)) \in 1..LIMIT
        /\ Append(a, now) \in Seq(0..now)
    <3>1. now \in 0..now
      BY <1>1
    <3>2. Len(Append(h, now)) = Len(h) + 1
      BY <1>1, <3>1, AppendProperties
    <3> QED BY <1>1, <2>1, <3>1, <3>2, AppendProperties, Numbers
  <2>3. /\ InOrder(Append(a, now)) /\ Remembers(Append(h, now), Append(a, now), now)
        /\ Spaced(Append(a, now))
    BY <1>1, <2>1, RemembersAppend, SpacedAppend, Numbers
  <2>4. LoginBound'
    <3>1. ASSUME NEW q \in Addresses PROVE Spaced(allowed'[q])
      <4>1. CASE q = ip
        BY <4>1, <2>1, <2>3 DEF TypeOK
      <4>2. CASE q # ip
        BY <4>2, <2>1 DEF TypeOK, LoginBound, Spaced
      <4> QED BY <4>1, <4>2
    <3> QED BY <3>1 DEF LoginBound, Spaced
  <2> QED BY <1>1, <2>1, <2>2, <2>3, <2>4, AttemptFacts
<1> QED BY <1>2, <1>3 DEF Attempt

\* What each step leaves of the types: all but the map of attempts and its history.
LEMMA LoginInv ==
  ASSUME Inv, NEW ip \in Addresses, Attempt(ip)
  PROVE  Inv'
<1> USE DEF Inv
<1>1. /\ now' = now /\ now \in Nat /\ config' = config /\ disk' = disk /\ users' = users
      /\ edits' = edits /\ faults' = faults /\ restarts' = restarts
      /\ logins \in Nat /\ logins' = logins + 1 /\ Holds
  BY DEF Attempt, LoginThrottled, LoginFails, Login, Tries, store, TypeOK
<1>2. held' \in [Usernames -> [ROLES -> -1..now']]
  BY <1>1, HeldFacts
<1>3. ASSUME NEW t \in tokens' PROVE t \in Tokens /\ t.exp <= held'[t.sub][t.role] + TOKEN_TTL_S
  <2>1. CASE t \in tokens
    BY <2>1, <1>1, CoveredStays DEF TypeOK
  <2>2. CASE t \notin tokens
    <3>1. PICK u \in Usernames : Login(ip, u)
      BY <2>2 DEF Attempt, LoginThrottled, LoginFails
    <3>2. t = issue_token(u) /\ u \in DOMAIN Loaded
      BY <2>2, <3>1 DEF Login, authenticate
    <3>3. Loaded[u] \in ROLES
      BY <3>2, LoadedFacts DEF Loaded, TypeOK, Finite, UserList
    <3>4. held'[u][Loaded[u]] = now
      BY <1>1, <3>2, <3>3, HeldFacts DEF Loaded
    <3>5. t.sub = u /\ t.role = Loaded[u] /\ t.exp = now + TOKEN_TTL_S
      BY <3>2 DEF issue_token
    <3>6. t \in Tokens
      BY <1>1, <3>2, <3>3, Numbers DEF issue_token, Tokens
    <3> QED BY <3>4, <3>5, <3>6, <1>1, Numbers
  <2> QED BY <2>1, <2>2
<1>4. TypeOK'
  BY <1>1, <1>2, <1>3, AttemptInv DEF TypeOK
<1>5. Finite'
  BY <1>1, AttemptInv DEF Finite
<1>6. RolesCovered'
  BY <1>3 DEF RolesCovered
<1> QED BY <1>4, <1>5, <1>6, AttemptInv

LEMMA EditInv ==
  ASSUME Inv, NEW by \in Usernames, NEW u \in Usernames, Edits(by, u)
  PROVE  Inv'
<1> USE DEF Inv
<1>1. UserList(users)
  BY DEF TypeOK, Finite, UserList
<1>2. PICK entries, torn : Write(entries, torn) /\ UserList(entries)
  BY <1>1, EditFacts
<1>3. disk = "list"
  BY <1>1, EditFacts
<1>4. /\ UNCHANGED <<now, config, hits, tokens, logins, restarts, allowed>> /\ Holds
      /\ now \in Nat /\ edits' \in Nat /\ faults' \in Nat
  BY <1>2 DEF Write, TypeOK
<1>5. UserList(users') /\ disk' \in {"garbage", "list"} /\ (disk' # "list" => DOMAIN users' = {})
  <2>1. CASE disk' = disk /\ users' = entries
    BY <2>1, <1>2, <1>3
  <2>2. CASE disk' = "garbage" /\ users' = <<>>
    <3>1. DOMAIN users' = {}
      BY <2>2
    <3> QED BY <2>2, <3>1, FS_EmptySet DEF UserList
  <2> QED BY <1>2, <2>1, <2>2 DEF Write
<1>6. held' \in [Usernames -> [ROLES -> -1..now']]
  BY <1>4, HeldFacts
<1>7. TypeOK'
  BY <1>4, <1>5, <1>6 DEF TypeOK, UserList
<1>8. Finite'
  BY <1>4, <1>5 DEF Finite, UserList
<1>9. RolesCovered'
  BY <1>4, CoveredStays DEF RolesCovered
<1> QED BY <1>4, <1>7, <1>8, <1>9, AttemptsUnchanged

LEMMA RestartInv ==
  ASSUME Inv, Restart
  PROVE  Inv'
<1> USE DEF Inv
<1>1. /\ UNCHANGED <<now, config, disk, users, logins, edits, faults>> /\ Holds
      /\ now \in Nat /\ restarts' \in Nat /\ tokens' \subseteq tokens
      /\ DOMAIN hits' = {} /\ \A ip \in Addresses : allowed'[ip] = <<>>
      /\ allowed' \in [Addresses -> Seq(0..now')]
  BY DEF Restart, TypeOK, store, Survives
<1>2. held' \in [Usernames -> [ROLES -> -1..now']]
  BY <1>1, HeldFacts
<1>3. TypeOK'
  BY <1>1, <1>2 DEF TypeOK
<1>4. Finite'
  BY <1>1, FS_EmptySet DEF Finite
<1>5. RolesCovered'
  BY <1>1, CoveredStays DEF RolesCovered
<1>6. ASSUME NEW ip \in Addresses
      PROVE  /\ InOrder(allowed'[ip]) /\ Remembers(KeptOf(ip)', allowed'[ip], now')
             /\ Spaced(allowed'[ip])
  <2>1. allowed'[ip] = <<>> /\ KeptOf(ip)' = <<>> /\ Len(<<>>) = 0 /\ DOMAIN <<>> = {}
    BY <1>1 DEF KeptOf
  <2> QED BY <2>1 DEF InOrder, Remembers, Spaced
<1>7. HitsRemember' /\ LoginBound'
  BY <1>6 DEF HitsRemember, LoginBound, Spaced
<1> QED BY <1>3, <1>4, <1>5, <1>7

LEMMA TickInv ==
  ASSUME Inv, Tick
  PROVE  Inv'
<1> USE DEF Inv
<1>1. /\ UNCHANGED <<config, disk, users, hits, tokens, logins, edits, faults, restarts, allowed>>
      /\ Holds /\ now \in Nat /\ now' = now + 1
  BY DEF Tick, TypeOK, store, bounds
<1>2. held' \in [Usernames -> [ROLES -> -1..now']]
  BY <1>1, HeldFacts
<1>3. \A times \in Seq(0..now) : times \in Seq(0..now')
  <2>1. 0..now \subseteq 0..now'
    BY <1>1
  <2> QED BY <2>1, SeqMonotonic
<1>4. TypeOK'
  BY <1>1, <1>2, <1>3 DEF TypeOK
<1>5. Finite'
  BY <1>1 DEF Finite
<1>6. RolesCovered'
  BY <1>1, CoveredStays DEF RolesCovered
<1>7. ASSUME NEW ip \in Addresses
      PROVE  InOrder(allowed'[ip]) /\ Remembers(KeptOf(ip)', allowed'[ip], now')
  <2>1. allowed'[ip] = allowed[ip] /\ KeptOf(ip)' = KeptOf(ip)
    BY <1>1 DEF KeptOf
  <2>2. Len(KeptOf(ip)) \in Nat /\ allowed[ip] \in Seq(0..now)
    BY EmptySeq, LenProperties DEF KeptOf, TypeOK
  <2>3. InOrder(allowed[ip]) /\ Remembers(KeptOf(ip), allowed[ip], now)
    BY DEF HitsRemember
  <2> QED BY <1>1, <2>1, <2>2, <2>3, RemembersLater
<1>8. HitsRemember'
  BY <1>7 DEF HitsRemember
<1>9. LoginBound'
  BY <1>1 DEF LoginBound
<1> QED BY <1>4, <1>5, <1>6, <1>8, <1>9

LEMMA StutterInv ==
  ASSUME Inv, UNCHANGED vars
  PROVE  Inv'
BY DEF Inv, vars, store, bounds, TypeOK, Finite, RolesCovered, HitsRemember, LoginBound,
       KeptOf, InOrder, Remembers

\* One step is an attempt, an edit, a restart or the clock's.
LEMMA NextIs ==
  ASSUME Next
  PROVE  \/ \E ip \in Addresses : Attempt(ip)
         \/ \E by, u \in Usernames : Edits(by, u)
         \/ Restart
         \/ Tick
  BY DEF Next, Attempt, Edits

THEOREM Invariance == Spec => []Inv
<1>1. Init => Inv
  BY InitInv
<1>2. Inv /\ [Next]_vars => Inv'
  BY NextIs, LoginInv, EditInv, RestartInv, TickInv, StutterInv
<1> QED BY <1>1, <1>2, PTL DEF Spec

-----------------------------------------------------------------------------
(* What the gateway guarantees *)

\* Every state the gateway reaches has the type its variables are declared with; no
\* address has more attempts on the map than the limit.
THEOREM TypeCorrect == Spec => []TypeOK
<1>1. Inv => TypeOK
  BY DEF Inv
<1> QED BY <1>1, Invariance, PTL

\* check_and_record lets an address try no more than LIMIT times in any window, for
\* every limit, window and size of the map, and whoever else tries meanwhile.
THEOREM LoginBoundHolds == Spec => []LoginBound
<1>1. Inv => LoginBound
  BY DEF Inv
<1> QED BY <1>1, Invariance, PTL

\* A token outlives the role it carries by its time to live at most, whoever edits
\* the list, whatever becomes of a write, and through restarts.
THEOREM RolesDoExpire == Spec => []RolesExpire
<1>1. Inv => RolesExpire
  <2> SUFFICES ASSUME Inv, NEW t \in tokens, identity_from_token(t)
               PROVE  now - held[t.sub][t.role] <= TOKEN_TTL_S
    BY DEF RolesExpire
  <2>1. now \in Nat /\ t.exp \in Nat /\ held[t.sub][t.role] \in -1..now
    BY DEF Inv, TypeOK, Tokens
  <2>2. t.exp >= now /\ t.exp <= held[t.sub][t.role] + TOKEN_TTL_S
    BY DEF Inv, RolesCovered, identity_from_token
  <2> QED BY <2>1, <2>2, Numbers
<1> QED BY <1>1, Invariance, PTL

\* No step takes the last admin from the list: the edits refuse to, and a write that
\* is torn leaves the fallback's admin.
THEOREM AnAdminRemains == Spec => AdminRemains
<1>1. ASSUME Inv, [Next]_vars
      PROVE  [disk = "list" /\ HasAdmin(users) => HasAdmin(Loaded')]_vars
  <2> SUFFICES ASSUME Next, disk = "list", HasAdmin(users)
               PROVE  HasAdmin(LoadedFrom(disk', users'))
    BY <1>1 DEF Loaded, vars, store, bounds
  <2>1. HasAdmin([u \in {Admin} |-> "admin"])
    BY DEF HasAdmin
  <2>2. HasAdmin(LoadedFrom(disk, users))
    BY DEF LoadedFrom, HasAdmin
  <2>3. CASE UNCHANGED <<disk, users>>
    BY <2>2, <2>3
  <2>4. CASE \E by, u \in Usernames : Edits(by, u)
    <3>1. PICK by \in Usernames, u \in Usernames : Edits(by, u)
      BY <2>4
    <3>2. UserList(users)
      BY <1>1 DEF Inv, TypeOK, Finite, UserList
    <3>3. PICK entries, torn : Write(entries, torn) /\ HasAdmin(entries)
      BY <3>1, <3>2, EditFacts
    <3> QED BY <2>1, <3>3 DEF Write, LoadedFrom, HasAdmin
  <2> QED BY <2>3, <2>4, NextIs
          DEF Attempt, LoginThrottled, LoginFails, Login, Restart, Tick, store
<1> QED BY <1>1, Invariance, PTL DEF Spec, AdminRemains

\* A new address that takes the map past MAX_KEYS finds it pruned: every address left
\* has tried within the window.
THEOREM OverflowIsLive == Spec => OnlyLiveOverflow
<1> DEFINE A == DOMAIN hits' # DOMAIN hits /\ Cardinality(DOMAIN hits') > MAX_KEYS
           B == \A ip \in DOMAIN hits' : now - Last(hits'[ip]) <= WINDOW_S
<1>1. ASSUME Inv, [Next]_vars PROVE [A => B]_vars
  <2> SUFFICES ASSUME Next, A PROVE B
    BY <1>1 DEF vars
  <2>1. ~(UNCHANGED hits) /\ DOMAIN hits' # {}
    BY Numbers, FS_EmptySet
  <2>2. PICK ip \in Addresses : Attempt(ip)
    BY <2>1, NextIs, <1>1, EditFacts
       DEF Restart, Tick, Write, Inv, TypeOK, Finite, UserList
  <2>3. PICK h : /\ hits' = With(Kept(ip), ip, h)
                 /\ \/ h = Append(Recent(ip), now)
                    \/ h = Recent(ip) /\ Len(Recent(ip)) >= LIMIT
    BY <2>2 DEF Attempt, LoginThrottled, LoginFails, Login, Records, OverLimit
  <2>4. /\ DOMAIN hits' = DOMAIN Kept(ip) \cup {ip} /\ hits'[ip] = h
        /\ \A q \in DOMAIN Kept(ip) : q # ip => hits'[q] = hits[q]
    BY <2>3, KeptFacts DEF With
  <2>5. ip \notin DOMAIN hits
    BY <2>4 DEF Kept
  <2>6. ip \notin DOMAIN Kept(ip) /\ Recent(ip) = <<>>
    BY <2>5, KeptFacts DEF Recent
  <2>7. h = Append(<<>>, now)
    BY <2>3, <2>6, Numbers
  <2>8. Last(h) = now /\ now \in Nat
    <3>1. now \in Nat /\ <<>> \in Seq(Nat) /\ Len(<<>>) = 0
      BY <1>1, EmptySeq DEF Inv, TypeOK
    <3> QED BY <3>1, <2>7, AppendProperties DEF Last
  <2>9. Kept(ip) = _prune
    <3>1. CASE Cardinality(DOMAIN hits) >= MAX_KEYS
      BY <2>5, <3>1 DEF Kept
    <3>2. CASE ~(Cardinality(DOMAIN hits) >= MAX_KEYS)
      <4>1. DOMAIN hits' = DOMAIN hits \cup {ip}
        BY <2>4, <3>2 DEF Kept
      <4>2. IsFiniteSet(DOMAIN hits) /\ Cardinality(DOMAIN hits) \in Nat
        BY <1>1, FS_CardinalityType DEF Inv, Finite
      <4>3. Cardinality(DOMAIN hits') = Cardinality(DOMAIN hits) + 1
        BY <4>1, <4>2, <2>5, FS_AddElement
      <4> QED BY <3>2, <4>2, <4>3, Numbers
    <3> QED BY <3>1, <3>2
  <2>10. ASSUME NEW q \in DOMAIN Kept(ip) PROVE now - Last(hits[q]) <= WINDOW_S
    <3>1. q \in DOMAIN hits /\ ~Stale(q)
      BY <2>9 DEF _prune, Without
    <3>2. hits[q] # <<>> /\ Last(hits[q]) \in 0..now
      <4>1. hits[q] \in Seq(0..now) /\ Len(hits[q]) \in 1..LIMIT
        BY <1>1, <3>1 DEF Inv, TypeOK
      <4>2. Len(hits[q]) \in 1..Len(hits[q])
        BY <4>1, Numbers
      <4>3. hits[q][Len(hits[q])] \in 0..now
        BY <4>1, <4>2, ElementOfSeq
      <4>4. hits[q] # <<>>
        BY <4>1, EmptySeq
      <4> QED BY <4>3, <4>4 DEF Last
    <3>3. ~(now - Last(hits[q]) > WINDOW_S)
      BY <3>1, <3>2 DEF Stale
    <3> HIDE DEF A, B
    <3> QED BY <3>2, <3>3, <2>8, Numbers
  <2> QED BY <2>4, <2>6, <2>8, <2>10, Numbers
<1> QED BY <1>1, Invariance, PTL DEF Spec, OnlyLiveOverflow

-----------------------------------------------------------------------------
(* The launcher, for every limit and every number of clients. A live child is     *)
(* pending, a request waits for its set-up, or unfinished, recorded without an    *)
(* exit code. A launch adds to the pending runs when there are fewer unfinished   *)
(* ones than the limit, and there are never more pending runs than clients: that  *)
(* is the bound (BoundKept).                                                      *)

Pending == {client[c] : c \in Clients} \ {0}

Running == {rid \in DOMAIN _RUNS : ~_RUNS[rid].rc}

Tracked == Pending \cup Running

TrackedBound ==
  IsFiniteSet(Tracked) /\ Cardinality(Tracked) <= MAX_CONCURRENT + Cardinality(Clients) - 1

LaunchInv == LaunchTypeOK /\ LiveIsStoppable /\ TrackedBound

-----------------------------------------------------------------------------

\* Reaping drops finished runs only.
LEMMA ReapFacts ==
  ASSUME LaunchTypeOK
  PROVE  /\ DOMAIN _reap \subseteq DOMAIN _RUNS
         /\ \A rid \in DOMAIN _reap : _reap[rid] = _RUNS[rid] /\ _reap[rid] \in Run
         /\ \A rid \in DOMAIN _RUNS : ~_RUNS[rid].rc => rid \in DOMAIN _reap
         /\ Unfinished = Running
BY DEF LaunchTypeOK, _reap, Without, Reapable, Unfinished, Running

\* There are no more pending runs than clients.
LEMMA PendingBound ==
  ASSUME NEW f, NEW P, P = {f[c] : c \in Clients} \ {0}
  PROVE  IsFiniteSet(P) /\ Cardinality(P) <= Cardinality(Clients)
<1> DEFINE Q == {f[c] : c \in Clients}
<1>1. IsFiniteSet(Q) /\ Cardinality(Q) <= Cardinality(Clients)
  <2> DEFINE g == [c \in Clients |-> f[c]]
  <2>1. g \in Surjection(Clients, Q)
    BY DEF Surjection
  <2> QED BY <2>1, FS_Surjection, LauncherAssumption
<1>2. P \subseteq Q
  OBVIOUS
<1> HIDE DEF Q
<1> QED BY <1>1, <1>2, FS_Subset, FS_CardinalityType, LauncherAssumption

\* What is tracked after a step that tracks nothing new.
LEMMA BoundShrinks ==
  ASSUME TrackedBound, Tracked' \subseteq Tracked
  PROVE  TrackedBound'
<1>1. IsFiniteSet(Tracked') /\ Cardinality(Tracked') <= Cardinality(Tracked)
  BY FS_Subset DEF TrackedBound
<1>2. Cardinality(Tracked') \in Nat /\ Cardinality(Tracked) \in Nat /\ Cardinality(Clients) \in Nat
  BY <1>1, FS_CardinalityType, LauncherAssumption DEF TrackedBound
<1> QED BY <1>1, <1>2, LauncherAssumption DEF TrackedBound

\* A launch adds one pending run when the unfinished ones are below the limit.
LEMMA BoundKept ==
  ASSUME LaunchInv, NEW c \in Clients, Launch(c)
  PROVE  TrackedBound'
<1>1. Running' = Running /\ Cardinality(Running) < MAX_CONCURRENT
  <2>1. Unfinished = Running /\ _RUNS' = _reap
    BY ReapFacts DEF LaunchInv, Launch
  <2>2. Running' = Running
    BY <2>1, ReapFacts DEF LaunchInv, Running
  <2> QED BY <2>1, <2>2 DEF Launch, Room
<1>2. IsFiniteSet(Running)
  BY FS_Subset DEF LaunchInv, TrackedBound, Tracked
<1>3. IsFiniteSet(Pending') /\ Cardinality(Pending') <= Cardinality(Clients)
  BY PendingBound DEF Pending
<1>4. Tracked' = Pending' \cup Running
  BY <1>1 DEF Tracked
<1>5. /\ IsFiniteSet(Pending' \cup Running)
      /\ Cardinality(Pending' \cup Running) <= Cardinality(Pending') + Cardinality(Running)
  <2>1. /\ IsFiniteSet(Pending' \cup Running)
        /\ Cardinality(Pending' \cup Running) =
             Cardinality(Pending') + Cardinality(Running) - Cardinality(Pending' \cap Running)
    BY <1>2, <1>3, FS_Union
  <2>2. IsFiniteSet(Pending' \cap Running)
    BY <1>2, FS_Subset
  <2>3. /\ Cardinality(Pending' \cap Running) \in Nat /\ Cardinality(Pending') \in Nat
        /\ Cardinality(Running) \in Nat
    BY <1>2, <1>3, <2>2, FS_CardinalityType
  <2> QED BY <2>1, <2>3
<1>6. /\ Cardinality(Pending') \in Nat /\ Cardinality(Running) \in Nat
      /\ Cardinality(Clients) \in Nat /\ Cardinality(Tracked') \in Nat
  BY <1>2, <1>3, <1>4, <1>5, FS_CardinalityType, LauncherAssumption
<1> QED BY <1>1, <1>3, <1>4, <1>5, <1>6, LauncherAssumption DEF TrackedBound

\* The invariant of the launcher.
THEOREM LaunchInvariance == LaunchSpec => []LaunchInv
<1>1. LaunchInit => LaunchInv
  <2> SUFFICES ASSUME LaunchInit PROVE LaunchInv
    OBVIOUS
  <2>1. Tracked = {}
    BY DEF LaunchInit, Tracked, Pending, Running
  <2>2. IsFiniteSet(Tracked) /\ Cardinality(Tracked) = 0
    BY <2>1, FS_EmptySet
  <2>3. Cardinality(Clients) \in Nat
    BY FS_CardinalityType, LauncherAssumption
  <2> QED BY <2>2, <2>3, LauncherAssumption
          DEF LaunchInit, LaunchInv, LaunchTypeOK, LiveIsStoppable, TrackedBound
<1>2. LaunchInv /\ [LaunchNext]_launchVars => LaunchInv'
  <2> SUFFICES ASSUME LaunchInv, [LaunchNext]_launchVars PROVE LaunchInv'
    OBVIOUS
  <2> USE DEF LaunchInv
  <2>1. ASSUME NEW c \in Clients, Launch(c) PROVE LaunchInv'
    <3>1. launched' = launched + 1 /\ launched \in Nat /\ client'[c] = launched'
      BY <2>1 DEF Launch, LaunchTypeOK
    <3>2. LaunchTypeOK'
      BY <2>1, <3>1, ReapFacts DEF Launch, LaunchTypeOK
    <3>3. LiveIsStoppable'
      <4> SUFFICES ASSUME NEW rid \in live'
                   PROVE  \/ \E d \in Clients : client'[d] = rid
                          \/ rid \in DOMAIN _RUNS' /\ ~_RUNS'[rid].rc
        BY DEF LiveIsStoppable
      <4>1. CASE rid = launched'
        BY <4>1, <3>1
      <4>2. CASE rid \in live
        <5>1. rid # 0
          BY <4>2 DEF LaunchTypeOK
        <5>2. CASE \E d \in Clients : client[d] = rid
          BY <5>1, <5>2, <2>1 DEF Launch, LaunchTypeOK
        <5>3. CASE rid \in DOMAIN _RUNS /\ ~_RUNS[rid].rc
          BY <5>3, <2>1, ReapFacts DEF Launch
        <5> QED BY <4>2, <5>2, <5>3 DEF LiveIsStoppable
      <4> QED BY <4>1, <4>2, <2>1 DEF Launch
    <3> QED BY <2>1, <3>2, <3>3, BoundKept
  <2>2. ASSUME NEW c \in Clients, Record(c) PROVE LaunchInv'
    <3> DEFINE rid == client[c]
    <3>1. /\ rid \in 1..launched /\ DOMAIN _RUNS' = DOMAIN _RUNS \cup {rid}
          /\ _RUNS'[rid] \in Run /\ ~_RUNS'[rid].rc
          /\ \A x \in DOMAIN _RUNS \ {rid} : _RUNS'[x] = _RUNS[x]
      BY <2>2 DEF Record, LaunchTypeOK, Pumped, Run
    <3>2. /\ client'[c] = 0 /\ \A d \in Clients \ {c} : client'[d] = client[d]
          /\ client' \in [Clients -> 0..launched]
      BY <2>2 DEF Record, LaunchTypeOK
    <3>3. UNCHANGED <<clock, launched, live, terminated>>
      BY <2>2 DEF Record
    <3> HIDE DEF rid
    <3>4. LaunchTypeOK'
      BY <3>1, <3>2, <3>3 DEF LaunchTypeOK
    <3>5. LiveIsStoppable'
      BY <3>1, <3>2, <3>3 DEF LiveIsStoppable, rid
    <3>6. Tracked' \subseteq Tracked
      <4>1. Pending' \subseteq Pending
        BY <3>2 DEF Pending
      <4>2. rid \in Pending
        BY <3>1 DEF Pending, rid
      <4>3. Running' \subseteq Running \cup {rid}
        BY <3>1 DEF Running
      <4> QED BY <4>1, <4>2, <4>3 DEF Tracked
    <3> QED BY <3>4, <3>5, <3>6, BoundShrinks
  <2>3. ASSUME NEW rid \in 1..launched, Exit(rid) PROVE LaunchInv'
    <3>1. Tracked' = Tracked
      BY <2>3 DEF Exit, Tracked, Pending, Running
    <3> QED BY <2>3, <3>1, BoundShrinks DEF Exit, LaunchTypeOK, LiveIsStoppable
  <2>4. ASSUME NEW rid \in 1..launched, PumpEnds(rid) PROVE LaunchInv'
    <3>1. /\ rid \notin live /\ DOMAIN _RUNS' = DOMAIN _RUNS /\ _RUNS'[rid] \in Run
          /\ _RUNS'[rid].rc /\ \A x \in DOMAIN _RUNS \ {rid} : _RUNS'[x] = _RUNS[x]
      BY <2>4 DEF PumpEnds, LaunchTypeOK, Run
    <3>2. UNCHANGED <<clock, launched, live, terminated, client>>
      BY <2>4 DEF PumpEnds
    <3>3. LaunchTypeOK'
      BY <3>1, <3>2 DEF LaunchTypeOK
    <3>4. LiveIsStoppable'
      BY <3>1, <3>2 DEF LiveIsStoppable
    <3>5. Tracked' \subseteq Tracked
      BY <3>1, <3>2 DEF Tracked, Pending, Running
    <3> QED BY <3>3, <3>4, <3>5, BoundShrinks
  <2>5. ASSUME NEW rid \in 1..launched, Stop(rid) PROVE LaunchInv'
    <3>1. /\ UNCHANGED <<clock, launched, live, client, _RUNS>>
          /\ terminated' \subseteq terminated \cup live
      BY <2>5 DEF Stop, Stopped, Signalled
    <3>2. Tracked' = Tracked
      BY <3>1 DEF Tracked, Pending, Running
    <3> QED BY <3>1, <3>2, BoundShrinks DEF LaunchTypeOK, LiveIsStoppable
  <2>6. CASE ListRuns \/ \E c \in Clients : LaunchFails(c)
    <3>1. _RUNS' = _reap /\ UNCHANGED <<clock, launched, live, terminated, client>>
      BY <2>6 DEF ListRuns, LaunchFails
    <3>2. LaunchTypeOK'
      BY <3>1, ReapFacts DEF LaunchTypeOK
    <3>3. LiveIsStoppable'
      BY <3>1, ReapFacts DEF LiveIsStoppable
    <3>4. Tracked' \subseteq Tracked
      BY <3>1, ReapFacts DEF Tracked, Pending, Running
    <3> QED BY <3>2, <3>3, <3>4, BoundShrinks
  <2>7. ASSUME clock' \in Nat, UNCHANGED <<launched, live, terminated, client, _RUNS>>
        PROVE  LaunchInv'
    <3>1. Tracked' = Tracked
      BY <2>7 DEF Tracked, Pending, Running
    <3> QED BY <2>7, <3>1, BoundShrinks DEF LaunchTypeOK, LiveIsStoppable
  <2>8. CASE ClockTicks
    BY <2>7, <2>8 DEF ClockTicks, LaunchTypeOK
  <2>9. CASE UNCHANGED launchVars
    BY <2>7, <2>9 DEF launchVars, LaunchTypeOK
  <2> QED BY <2>1, <2>2, <2>3, <2>4, <2>5, <2>6, <2>8, <2>9 DEF LaunchNext
<1> QED BY <1>1, <1>2, PTL DEF LaunchSpec

\* Every variable of the launcher keeps its type.
THEOREM LaunchTypeCorrect == LaunchSpec => []LaunchTypeOK
BY LaunchInvariance, PTL DEF LaunchInv

\* A child that has not ended is recorded as unfinished or about to be recorded.
THEOREM LiveStaysStoppable == LaunchSpec => []LiveIsStoppable
BY LaunchInvariance, PTL DEF LaunchInv

\* No more children live at once than the limit and one less than there are clients,
\* whatever the limit and however launches, ends, stops and reaping interleave.
THEOREM LiveBoundHolds == LaunchSpec => []LiveBound
<1>1. LaunchInv => LiveBound
  <2> SUFFICES ASSUME LaunchInv PROVE LiveBound
    OBVIOUS
  <2>1. live \subseteq Tracked
    <3> SUFFICES ASSUME NEW rid \in live PROVE rid \in Tracked
      OBVIOUS
    <3>1. rid # 0
      BY DEF LaunchInv, LaunchTypeOK
    <3> QED BY <3>1 DEF LaunchInv, LiveIsStoppable, Tracked, Pending, Running
  <2>2. Cardinality(live) <= Cardinality(Tracked) /\ IsFiniteSet(live)
    BY <2>1, FS_Subset DEF LaunchInv, TrackedBound
  <2>3. /\ Cardinality(live) \in Nat /\ Cardinality(Tracked) \in Nat
        /\ Cardinality(Clients) \in Nat
    BY <2>2, FS_CardinalityType, LauncherAssumption DEF LaunchInv, TrackedBound
  <2> QED BY <2>2, <2>3, LauncherAssumption DEF LaunchInv, TrackedBound, LiveBound
<1> QED BY <1>1, LaunchInvariance, PTL
=============================================================================
