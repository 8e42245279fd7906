------------------------- MODULE GhostSessionsProofs -------------------------
(***************************************************************************)
(* Proofs about GhostSessions, for both stores and every set of attackers  *)
(* and personas. All of them rest on one fact about get_or_create: what it *)
(* answers is either a live session of that attacker and persona, or an id *)
(* that no session had before (TakenFacts). A save can then only extend    *)
(* the lease of a live session, and never brings an ended one back.        *)
(***************************************************************************)
EXTENDS GhostSessions, ListProofs

\* What was served is still the attacker's it was served to.
Owned ==
  \A s \in served : s.id \in DOMAIN sessions => Of(s.id, s.ip, s.persona)

\* A session was leased while it was live, and Redis keeps it no longer.
Leases ==
  \A id \in DOMAIN sessions :
    /\ sessions[id].created <= now
    /\ sessions[id].kept <= sessions[id].created + 2 * TTL_SECONDS
    /\ REDIS => now < sessions[id].kept

\* The index names no session of another address: no lookup in Redis compares them.
IndexOwn ==
  \A ip \in DOMAIN ip_map :
    ip_map[ip].id \in DOMAIN sessions => sessions[ip_map[ip].id].ip = ip

Inv ==
  /\ TypeOK /\ IndexOwn /\ Owned /\ Leases
  /\ ServedToOne /\ EndedStaysEnded /\ CountsAdvance

\* The part of the state that Inv is about.
StoreOK ==
  /\ REDIS \in BOOLEAN
  /\ issued \in Nat
  /\ DOMAIN sessions \subseteq 1..issued
  /\ \A id \in DOMAIN sessions : sessions[id] \in Sessions
  /\ DOMAIN ip_map \subseteq Addresses
  /\ \A ip \in DOMAIN ip_map : ip_map[ip] \in [id: 1..issued, kept: Nat]
  /\ ended \subseteq 1..issued
  /\ served \subseteq [id: 1..issued, ip: Addresses, persona: Personas]
  /\ given \in Seq(Nat) /\ Len(given) = issued
  /\ IndexOwn

Core == StoreOK /\ Owned /\ Leases /\ ServedToOne /\ EndedStaysEnded /\ CountsAdvance

Served(id, ip, persona) == [id |-> id, ip |-> ip, persona |-> persona]

-----------------------------------------------------------------------------
(* The store *)

\* What get_or_create answers.
LEMMA TakenFacts ==
  ASSUME StoreOK, Leases, now \in Nat, NEW ip \in Addresses, NEW persona \in Personas,
         NEW id, id = Taken(ip, persona), NEW s, s = Session(id, ip, persona)
  PROVE  /\ id \in Nat /\ s \in Sessions /\ s.ip = ip /\ s.persona = persona
         /\ s.created <= now /\ now < s.created + TTL_SECONDS
         /\ \/ id = issued + 1 /\ id \notin DOMAIN sessions /\ s.count = 0
            \/ id \in DOMAIN sessions /\ id \in 1..issued /\ s = sessions[id]
<1> USE SessionsAssumption DEF StoreOK
<1>1. CASE Found(ip, persona) = {}
  <2>1. id = issued + 1 /\ id \notin DOMAIN sessions /\ id \in Nat
    BY <1>1 DEF Taken
  <2>2. s = [ip |-> ip, persona |-> persona, created |-> now, kept |-> now, count |-> 0]
    BY <2>1 DEF Session
  <2> QED BY <2>1, <2>2 DEF Sessions
<1>2. CASE Found(ip, persona) # {}
  <2>1. id \in Found(ip, persona)
    BY <1>2 DEF Taken
  <2>2. id \in DOMAIN sessions /\ Of(id, ip, persona) /\ ~Expired(id)
    <3>1. CASE REDIS
      BY <2>1, <3>1 DEF Found, FoundInRedis, Indexed, IndexOwn, Of
    <3>2. CASE ~REDIS
      BY <2>1, <3>2 DEF Found, FoundInDict
    <3> QED BY <3>1, <3>2
  <2>3. id \in 1..issued /\ s = sessions[id] /\ s \in Sessions
    BY <2>2 DEF Session
  <2>4. s.created \in Nat /\ s.created <= now
    BY <2>2, <2>3 DEF Sessions, Leases
  <2> QED BY <2>2, <2>3, <2>4 DEF Of, Expired
<1> QED BY <1>1, <1>2

\* A step that saves what get_or_create answered keeps everything that is claimed of
\* the store, whether or not Redis lets the save be completed; n is what it adds to
\* the counter and m whether it answers from it.
LEMMA SaveStep ==
  ASSUME REDIS' = REDIS, Core, now \in Nat, now' = now, ended' = ended,
         NEW ip \in Addresses, NEW persona \in Personas, NEW done \in Writes,
         NEW id, id = Taken(ip, persona), NEW s \in Sessions,
         NEW n \in {0, 1}, NEW m \in {0, 1}, m <= n, m = 1 => done = All,
         s.ip = ip, s.persona = persona,
         s.created = Session(id, ip, persona).created,
         s.count = Session(id, ip, persona).count + n,
         Save(id, s, done), Answers(id, m, done),
         \/ served' = served
         \/ done = All /\ served' = served \cup {Served(id, ip, persona)}
  PROVE  Core'
<1> USE SessionsAssumption DEF Core, StoreOK, Writes, All
<1> DEFINE c == Session(id, ip, persona)
           w == IF done >= 3 THEN Leased(s) ELSE Leased([s EXCEPT !.count = 0])
           written == done >= 3 \/ (id > issued /\ done >= 1)
           indexed == REDIS /\ (done = All \/ (id > issued /\ done >= 2))
<1>1. /\ id \in Nat /\ c \in Sessions
      /\ c.created <= now /\ now < c.created + TTL_SECONDS
      /\ \/ id = issued + 1 /\ id \notin DOMAIN sessions /\ c.count = 0
         \/ id \in DOMAIN sessions /\ id \in 1..issued /\ c = sessions[id]
         /\ c.ip = ip /\ c.persona = persona
  BY SMTT(60), TakenFacts
<1>2. /\ w \in Sessions /\ w.ip = ip /\ w.persona = persona /\ w.created = s.created
      /\ w.kept = now + TTL_SECONDS
      /\ w.count = IF done >= 3 THEN s.count ELSE 0
  <2>1. now + TTL_SECONDS \in Nat
    OBVIOUS
  <2>2. CASE done >= 3
    <3>1. w = Leased(s)
      BY <2>2
    <3> HIDE DEF w
    <3> QED BY <2>1, <2>2, <3>1 DEF Leased, Sessions
  <2>3. CASE ~(done >= 3)
    <3>1. w = Leased([s EXCEPT !.count = 0])
      BY <2>3
    <3> HIDE DEF w
    <3> QED BY <2>1, <2>3, <3>1 DEF Leased, Sessions
  <2> QED BY <2>2, <2>3
<1>3. sessions' = IF written THEN With(sessions, id, w) ELSE sessions
  <2>1. CASE done >= 3
    <3>1. w = Leased(s) /\ written
      BY <2>1
    <3>2. sessions' = With(sessions, id, Leased(s))
      BY <2>1 DEF Save
    <3> HIDE DEF w, written
    <3> QED BY <3>1, <3>2
  <2>2. CASE ~(done >= 3)
    <3>1. w = Leased([s EXCEPT !.count = 0]) /\ (written <=> id > issued /\ done >= 1)
      BY <2>2
    <3>2. sessions' = IF id > issued /\ done >= 1
                        THEN With(sessions, id, Leased([s EXCEPT !.count = 0])) ELSE sessions
      BY <2>2 DEF Save
    <3> HIDE DEF w, written
    <3> QED BY <3>1, <3>2
  <2> QED BY <2>1, <2>2
<1>4. /\ DOMAIN sessions' = IF written THEN DOMAIN sessions \cup {id} ELSE DOMAIN sessions
      /\ written => sessions'[id] = w
      /\ \A x \in DOMAIN sessions : x # id => sessions'[x] = sessions[x]
      /\ ~written => sessions' = sessions
  <2>1. CASE written
    BY <2>1, <1>3 DEF With
  <2>2. CASE ~written
    BY <2>2, <1>3
  <2> QED BY <2>1, <2>2
<1>5. issued' = (IF id > issued /\ done >= 1 THEN id ELSE issued) /\ issued' \in Nat
      /\ issued <= issued' /\ (written => id \in 1..issued')
  BY SMTT(60), <1>1 DEF Save, UsesUp
<1>6. ip_map' = IF indexed THEN With(ip_map, ip, [id |-> id, kept |-> now + TTL_SECONDS])
                ELSE ip_map
  BY DEF Save
<1>7. DOMAIN ip_map' \subseteq Addresses
      /\ \A x \in DOMAIN ip_map' : ip_map'[x] \in [id: 1..issued', kept: Nat]
  <2>1. CASE indexed
    <3>1. [id |-> id, kept |-> now + TTL_SECONDS] \in [id: 1..issued', kept: Nat]
      BY SMTT(60), <1>1, <1>5, <2>1
    <3>2. \A x \in DOMAIN ip_map : ip_map[x] \in [id: 1..issued', kept: Nat]
      BY <1>5
    <3> QED BY <1>6, <2>1, <3>1, <3>2 DEF With
  <2>2. CASE ~indexed
    BY <1>5, <1>6, <2>2
  <2> QED BY <2>1, <2>2
<1>8. /\ given' \in Seq(Nat) /\ Len(given') = issued'
      /\ \A x \in 1..issued : x # id => given'[x] = given[x]
      /\ id <= issued => given'[id] = given[id] + m
      /\ id > issued /\ done >= 1 => given'[id] = m
  <2>1. CASE id <= issued
    <3>1. given' = [given EXCEPT ![id] = @ + m] /\ id \in 1..issued
      BY <2>1, <1>1 DEF Answers
    <3> QED BY SMTT(60), <2>1, <3>1, <1>5
  <2>2. CASE id > issued
    BY <2>2, <1>1, <1>5 DEF Answers
  <2> QED BY <2>1, <2>2, <1>1
<1>9. served' \subseteq [id: 1..issued', ip: Addresses, persona: Personas]
  <2>1. \A x \in served : x \in [id: 1..issued', ip: Addresses, persona: Personas]
    BY <1>5
  <2>2. done = All => Served(id, ip, persona) \in [id: 1..issued', ip: Addresses, persona: Personas]
    BY <1>5 DEF Served
  <2> QED BY <2>1, <2>2
<1>10. StoreOK'
  <2>1. \A x \in DOMAIN sessions' : sessions'[x] \in Sessions
    BY <1>2, <1>4
  <2>2. DOMAIN sessions' \subseteq 1..issued' /\ ended' \subseteq 1..issued'
    BY <1>4, <1>5
  <2>3. IndexOwn'
    <3> SUFFICES ASSUME NEW x \in DOMAIN ip_map', ip_map'[x].id \in DOMAIN sessions'
                 PROVE  sessions'[ip_map'[x].id].ip = x
      BY DEF IndexOwn
    <3>1. CASE indexed /\ x = ip
      <4>1. ip_map'[x] = [id |-> id, kept |-> now + TTL_SECONDS]
        BY <1>6, <3>1 DEF With
      <4>2. CASE written
        BY <1>2, <1>4, <3>1, <4>1, <4>2
      <4>3. CASE ~written
        BY <1>1, <1>4, <3>1, <4>1, <4>3
      <4> QED BY <4>2, <4>3
    <3>2. CASE ~(indexed /\ x = ip)
      <4>1. x \in DOMAIN ip_map /\ ip_map'[x] = ip_map[x] /\ ip_map[x].id \in 1..issued
        BY <1>6, <3>2 DEF With
      <4>2. CASE ip_map[x].id = id
        <5>1. id \in DOMAIN sessions /\ c = sessions[id] /\ sessions[id].ip = x
          BY SMTT(60), <1>1, <4>1, <4>2 DEF IndexOwn
        <5> QED BY <1>1, <1>2, <1>4, <4>1, <4>2, <5>1
      <4>3. CASE ip_map[x].id # id
        BY <1>4, <4>1, <4>3 DEF IndexOwn
      <4> QED BY <4>2, <4>3
    <3> QED BY <3>1, <3>2
  <2> HIDE DEF IndexOwn
  <2> QED BY <2>1, <2>2, <2>3, <1>5, <1>7, <1>8, <1>9
<1>11. Owned'
  <2> SUFFICES ASSUME NEW x \in served', x.id \in DOMAIN sessions'
               PROVE  sessions'[x.id].ip = x.ip /\ sessions'[x.id].persona = x.persona
    BY DEF Owned, Of
  <2>1. CASE x \in served /\ x.id # id
    BY <2>1, <1>4 DEF Owned, Of
  <2>2. CASE x \in served /\ x.id = id
    <3>1. id \in DOMAIN sessions /\ c = sessions[id]
      BY SMTT(60), <2>2, <1>1
    <3>2. x.ip = ip /\ x.persona = persona
      BY <2>2, <3>1, <1>1 DEF Owned, Of
    <3> QED BY <2>2, <3>1, <3>2, <1>1, <1>2, <1>4
  <2>3. CASE x \notin served
    <3>1. x = Served(id, ip, persona) /\ done = All
      BY <2>3
    <3> QED BY <3>1, <1>2, <1>4 DEF Served
  <2> QED BY <2>1, <2>2, <2>3
<1>12. ServedToOne'
  <2>1. \A x \in served : x.id = id => x = Served(id, ip, persona)
    <3> SUFFICES ASSUME NEW x \in served, x.id = id PROVE x = Served(id, ip, persona)
      OBVIOUS
    <3>1. id \in DOMAIN sessions /\ c = sessions[id]
      BY SMTT(60), <1>1
    <3>2. x.ip = ip /\ x.persona = persona
      BY <3>1, <1>1 DEF Owned, Of
    <3> QED BY <3>2 DEF Served
  <2>2. Served(id, ip, persona).id = id
    BY DEF Served
  <2> QED BY <2>1, <2>2 DEF ServedToOne
<1>13. Leases'
  <2> SUFFICES ASSUME NEW x \in DOMAIN sessions'
               PROVE  /\ sessions'[x].created <= now
                      /\ sessions'[x].kept <= sessions'[x].created + 2 * TTL_SECONDS
                      /\ REDIS => now < sessions'[x].kept
    BY DEF Leases
  <2>1. CASE x = id /\ written
    <3>1. sessions'[x] = w
      BY <2>1, <1>4
    <3>2. w.created \in Nat /\ w.created = c.created /\ w.kept = now + TTL_SECONDS
      BY <1>2 DEF Sessions
    <3> QED BY SMTT(60), <3>1, <3>2, <1>1
  <2>2. CASE ~(x = id /\ written)
    BY <2>2, <1>4 DEF Leases
  <2> QED BY <2>1, <2>2
<1>14. EndedStaysEnded'
  BY <1>1, <1>4 DEF EndedStaysEnded
<1>15. CountsAdvance'
  <2> SUFFICES ASSUME NEW x \in DOMAIN sessions'
               PROVE  sessions'[x].count >= given'[x]
    BY DEF CountsAdvance
  <2>1. CASE x # id
    <3>1. x \in DOMAIN sessions /\ sessions'[x] = sessions[x] /\ given'[x] = given[x]
      BY <2>1, <1>4, <1>8
    <3> QED BY <3>1 DEF CountsAdvance
  <2>2. CASE x = id /\ id > issued
    <3>1. written /\ sessions'[x] = w /\ given'[x] = m
      BY <2>2, <1>4, <1>8, <1>1
    <3> QED BY <3>1, <1>2, <2>2, <1>1
  <2>3. CASE x = id /\ id <= issued
    <3>1. id \in DOMAIN sessions /\ c = sessions[id] /\ given'[x] = given[id] + m
      BY <2>3, <1>1, <1>8
    <3>2. sessions[id].count >= given[id] /\ given[id] \in Nat /\ sessions[id].count \in Nat
      BY SMTT(60), <3>1 DEF CountsAdvance, Sessions
    <3>3. CASE written
      BY SMTT(60), <3>1, <3>2, <3>3, <2>3, <1>2, <1>4
    <3>4. CASE ~written
      BY <3>1, <3>2, <3>4, <2>3, <1>4
    <3> QED BY <3>3, <3>4
  <2> QED BY <2>1, <2>2, <2>3, <1>1
<1> QED BY <1>10, <1>11, <1>12, <1>13, <1>14, <1>15

\* A step that only removes sessions and index entries, and notes which it ended.
LEMMA RemoveStep ==
  ASSUME REDIS' = REDIS, Core, now \in Nat, now' \in Nat, now <= now',
         NEW ids \in SUBSET DOMAIN sessions, sessions' = Without(sessions, ids),
         DOMAIN ip_map' \subseteq DOMAIN ip_map,
         \A ip \in DOMAIN ip_map' : ip_map'[ip] = ip_map[ip],
         ended' \subseteq ended \cup ids, ended \subseteq ended',
         REDIS => \A id \in DOMAIN sessions \ ids : now' < sessions[id].kept,
         UNCHANGED <<issued, served, given>>
  PROVE  Core'
<1> USE DEF Core, StoreOK, Without
<1>1. /\ DOMAIN sessions' = DOMAIN sessions \ ids
      /\ \A id \in DOMAIN sessions' : sessions'[id] = sessions[id]
  OBVIOUS
<1>2. StoreOK'
  BY <1>1 DEF IndexOwn
<1>3. Owned' /\ ServedToOne' /\ EndedStaysEnded' /\ CountsAdvance'
  BY <1>1 DEF Owned, Of, ServedToOne, EndedStaysEnded, CountsAdvance
<1>4. Leases'
  <2> SUFFICES ASSUME NEW id \in DOMAIN sessions'
               PROVE  /\ sessions[id].created <= now'
                      /\ sessions[id].kept <= sessions[id].created + 2 * TTL_SECONDS
                      /\ REDIS => now' < sessions[id].kept
    BY <1>1 DEF Leases
  <2>1. sessions[id].created \in Nat /\ sessions[id].created <= now
    BY <1>1 DEF Leases, Sessions
  <2> QED BY <1>1, <2>1 DEF Leases
<1> QED BY <1>2, <1>3, <1>4

\* A step that leaves the store alone, and may serve a session that is found.
LEMMA KeepStep ==
  ASSUME REDIS' = REDIS, Core, now \in Nat, now' = now, Keep, ended' = ended,
         \/ served' = served
         \/ \E ip \in Addresses, persona \in Personas :
              /\ Taken(ip, persona) <= issued
              /\ served' = served \cup {Served(Taken(ip, persona), ip, persona)}
  PROVE  Core'
<1> USE DEF Core, StoreOK, Keep, store
<1>1. StoreOK /\ IndexOwn' /\ Leases' /\ EndedStaysEnded' /\ CountsAdvance'
  BY DEF IndexOwn, Leases, EndedStaysEnded, CountsAdvance
<1>2. CASE served' = served
  BY <1>1, <1>2 DEF Owned, Of, ServedToOne
<1>3. ASSUME NEW ip \in Addresses, NEW persona \in Personas,
             Taken(ip, persona) <= issued,
             served' = served \cup {Served(Taken(ip, persona), ip, persona)}
      PROVE  Core'
  <2> DEFINE id == Taken(ip, persona)
             t  == Served(id, ip, persona)
  <2>1. id \in DOMAIN sessions /\ id \in 1..issued /\ Of(id, ip, persona)
    <3> HIDE DEF Core, StoreOK, Keep, store
    <3>1. StoreOK /\ Leases /\ issued \in Nat
      BY DEF Core, StoreOK
    <3> QED BY <3>1, <1>3, TakenFacts DEF Of
  <2>2. t \in [id: 1..issued, ip: Addresses, persona: Personas]
        /\ t.id = id /\ t.ip = ip /\ t.persona = persona
    BY <2>1 DEF Served
  <2>3. Owned'
    BY <1>3, <2>1, <2>2 DEF Owned, Of
  <2>4. \A x \in served : x.id = id => x = t
    <3> SUFFICES ASSUME NEW x \in served, x.id = id PROVE x = t
      OBVIOUS
    <3>1. x.ip = ip /\ x.persona = persona
      BY <2>1 DEF Owned, Of
    <3> QED BY <3>1 DEF Served
  <2>5. ServedToOne'
    BY <1>3, <2>2, <2>4 DEF ServedToOne
  <2> QED BY <1>1, <1>3, <2>2, <2>3, <2>5
<1> QED BY <1>2, <1>3

-----------------------------------------------------------------------------
(* The steps *)

\* A busy request knows its address and its persona.
LEMMA Busy ==
  ASSUME TypeOK, NEW r \in Requests, req[r] # Idle
  PROVE  req[r].from \in Addresses /\ req[r].persona \in Personas
BY DEF TypeOK, Progress

\* The types of the rest of the state.
RestOK ==
  /\ now \in Nat /\ seen \in Nat /\ faults \in Nat
  /\ opened \subseteq 1..issued
  /\ req \in [Requests -> Progress]

LEMMA InvParts == (Inv <=> Core /\ RestOK) /\ (Inv' <=> Core' /\ RestOK')
BY DEF Inv, Core, TypeOK, StoreOK, RestOK, IndexOwn

\* The ids never decrease, and the failed operations only count up.
LEMMA Counting ==
  ASSUME StoreOK, RestOK, NEW done \in Writes, Fails(done)
  PROVE  faults' \in Nat
BY DEF RestOK, Fails

LEMMA IssuedGrows ==
  ASSUME StoreOK, Leases, RestOK, NEW ip \in Addresses, NEW persona \in Personas,
         NEW s, NEW done \in Writes, Save(Taken(ip, persona), s, done)
  PROVE  issued' \in Nat /\ issued <= issued'
         /\ (done = All => Taken(ip, persona) \in 1..issued')
<1>1. Taken(ip, persona) \in 1..issued + 1 /\ issued \in Nat
  BY TakenFacts DEF StoreOK, RestOK
<1> QED BY <1>1 DEF Save, UsesUp, All

\* The middleware of a request.
LEMMA ArriveStep ==
  ASSUME REDIS' = REDIS, Core, RestOK, NEW r \in Requests, NEW ip \in Addresses, NEW persona \in Personas,
         NEW path \in Paths, NEW target \in Nat, NEW done \in Writes,
         Arrive(r, ip, persona, path, target, done)
  PROVE  Core' /\ RestOK'
<1> DEFINE id == Taken(ip, persona)
           s  == Session(id, ip, persona)
<1>0. StoreOK /\ Leases /\ now \in Nat
  BY DEF Core, RestOK
<1>1. id \in Nat /\ s \in Sessions /\ s.ip = ip /\ s.persona = persona
  BY <1>0, TakenFacts
<1>2. Save(id, s, done) /\ Answers(id, 0, done)
  BY DEF Arrive
<1>3. s.count = s.count + 0
  BY <1>1 DEF Sessions
<1>4. Core'
  <2>1. now' = now /\ ended' = ended /\ served' = served
    BY DEF Arrive
  <2> HIDE DEF s
  <2> QED BY <1>0, <1>1, <1>2, <1>3, <2>1, SaveStep DEF s
<1>5. req' \in [Requests -> Progress]
  <2>1. [at |-> "handling", from |-> ip, persona |-> persona, path |-> path, target |-> target,
         tracked |-> IF done = All THEN id ELSE 0] \in Progress
    BY <1>1 DEF Progress
  <2> QED BY <2>1 DEF Arrive, RestOK
<1>6. issued' \in Nat /\ issued <= issued'
  BY <1>0, <1>2, IssuedGrows
<1>7. faults' \in Nat
  BY <1>0, Counting DEF Arrive
<1> QED BY <1>0, <1>4, <1>5, <1>6, <1>7 DEF RestOK, Arrive, StoreOK

\* What a handler leaves of the rest.
LEMMA HandlesStep ==
  ASSUME RestOK, NEW r \in Requests, NEW path, Handles(r, path),
         issued \in Nat, issued' \in Nat, issued <= issued', faults' \in Nat
  PROVE  RestOK'
<1>1. req' \in [Requests -> Progress]
  BY DEF Handles, RestOK, Progress
<1> QED BY <1>1 DEF Handles, RestOK

\* The handlers: a session is found or created, and what the handler adds is saved.
LEMMA HandlerStep ==
  ASSUME REDIS' = REDIS, Core, RestOK, NEW r \in Requests, NEW done \in Writes,
         Page(r, done) \/ Cred(r, done) \/ Count(r, done)
  PROVE  Core' /\ RestOK'
<1> DEFINE ip == req[r].from
           persona == req[r].persona
           id == Mine(r)
<1>0. StoreOK /\ Leases /\ now \in Nat /\ TypeOK
  BY DEF Core, RestOK, TypeOK, StoreOK
<1>1. ip \in Addresses /\ persona \in Personas
  <2>1. req[r] # Idle
    BY DEF Page, Cred, Count, Handles
  <2> QED BY <2>1, <1>0, Busy
<1>2. id = Taken(ip, persona) /\ MySession(r) = Session(id, ip, persona)
  BY DEF Mine, MySession
<1>3. MySession(r) \in Sessions /\ MySession(r).ip = ip /\ MySession(r).persona = persona
  BY <1>0, <1>1, <1>2, TakenFacts
<1>4. now' = now /\ ended' = ended
  BY DEF Page, Cred, Count, Handles
<1>5. \/ served' = served
      \/ done = All /\ served' = served \cup {Served(id, ip, persona)}
  BY DEF Page, Cred, Count, Serves, Served
<1> HIDE DEF id, ip, persona
<1>6. MySession(r).count = MySession(r).count + 0 /\ MySession(r).count \in Nat
  BY <1>3 DEF Sessions
<1>a. ASSUME issued <= issued', issued' \in Nat
      PROVE  RestOK'
  <2>1. faults' \in Nat
    BY <1>0, Counting DEF Page, Cred, Count
  <2>2. \E path : Handles(r, path)
    BY DEF Page, Cred, Count
  <2> QED BY <1>a, <1>0, <2>1, <2>2, HandlesStep DEF StoreOK
<1>b. ASSUME NEW s, Save(id, s, done)
      PROVE  RestOK'
  BY <1>0, <1>1, <1>2, <1>a, <1>b, IssuedGrows
<1>7. ASSUME Save(id, MySession(r), done), Answers(id, 0, done)
      PROVE  Core' /\ RestOK'
  BY <1>b, <1>0, <1>1, <1>2, <1>3, <1>4, <1>5, <1>6, <1>7, SaveStep
<1>8. CASE Page(r, done)
  <2>1. CASE id <= issued
    <3>1. Keep
      BY <1>8, <2>1 DEF Page, id
    <3>2. RestOK'
      BY <1>0, <1>a, <3>1 DEF Keep, store, StoreOK
    <3> QED BY <1>0, <1>1, <1>2, <1>4, <1>5, <2>1, <3>1, <3>2, KeepStep
  <2>2. CASE ~(id <= issued)
    BY <1>7, <1>8, <2>2 DEF Page, id
  <2> QED BY <2>1, <2>2
<1>9. CASE Cred(r, done)
  BY <1>7, <1>9 DEF Cred, id
<1>10. CASE Count(r, done)
  <2> DEFINE s == Counted(r)
             m == IF done = All THEN 1 ELSE 0
  <2>1. s \in Sessions /\ s.ip = ip /\ s.persona = persona
        /\ s.created = MySession(r).created /\ s.count = MySession(r).count + 1
    BY <1>3, <1>6 DEF Counted, Sessions
  <2>2. Save(id, s, done) /\ Answers(id, m, done)
    BY <1>10 DEF Count, id
  <2>3. m \in {0, 1} /\ m <= 1 /\ (m = 1 => done = All)
    OBVIOUS
  <2> HIDE DEF s, m
  <2> QED BY <1>b, <1>0, <1>1, <1>2, <1>4, <1>5, <2>1, <2>2, <2>3, SaveStep
<1> QED BY <1>8, <1>9, <1>10

\* Tool 3.
LEMMA TerminateStep ==
  ASSUME REDIS' = REDIS, Core, RestOK, NEW r \in Requests, NEW done \in Writes, Terminate(r, done)
  PROVE  Core'
<1> DEFINE id == req[r].target
<1>0. now \in Nat /\ now' = now
  BY DEF RestOK, Terminate, Handles
<1>1. CASE done = 0 \/ id \notin DOMAIN sessions
  <2>1. Keep /\ ended' = ended /\ served' = served
    BY <1>1 DEF Terminate
  <2> QED BY <1>0, <2>1, KeepStep
<1>2. CASE ~(done = 0 \/ id \notin DOMAIN sessions)
  <2>1. /\ {id} \in SUBSET DOMAIN sessions
        /\ sessions' = Without(sessions, {id})
        /\ ended' = ended \cup {id}
        /\ UNCHANGED <<issued, served, given>>
        /\ ip_map' = IF done = All THEN Without(ip_map, {sessions[id].ip}) ELSE ip_map
    BY <1>2 DEF Terminate
  <2>3. DOMAIN ip_map' \subseteq DOMAIN ip_map
        /\ \A ip \in DOMAIN ip_map' : ip_map'[ip] = ip_map[ip]
    BY <2>1 DEF Without
  <2>4. REDIS => \A x \in DOMAIN sessions \ {id} : now' < sessions[x].kept
    BY <1>0 DEF Core, Leases
  <2> HIDE DEF id
  <2> QED BY <1>0, <2>1, <2>3, <2>4, RemoveStep
<1> QED BY <1>1, <1>2

\* A reset, completed or not.
LEMMA ResetStep ==
  ASSUME REDIS' = REDIS, Core, RestOK, NEW r \in Requests, NEW done \in Writes, AdminReset(r, done)
  PROVE  Core'
<1>1. PICK ids \in SUBSET DOMAIN sessions, ips \in SUBSET DOMAIN ip_map :
        /\ sessions' = Without(sessions, ids) /\ ip_map' = Without(ip_map, ips)
        /\ ended' = ended \cup ids
  BY DEF AdminReset
<1>4. DOMAIN ip_map' \subseteq DOMAIN ip_map
      /\ \A ip \in DOMAIN ip_map' : ip_map'[ip] = ip_map[ip]
  BY <1>1 DEF Without
<1>2. now \in Nat /\ now' = now /\ UNCHANGED <<issued, served, given>>
  BY DEF AdminReset, Handles, RestOK
<1>3. REDIS => \A x \in DOMAIN sessions \ ids : now' < sessions[x].kept
  BY <1>2 DEF Core, Leases
<1> QED BY <1>1, <1>2, <1>3, <1>4, RemoveStep

\* Tool 1.
LEMMA CreateStep ==
  ASSUME REDIS' = REDIS, Core, RestOK, NEW ip \in Addresses, NEW persona \in Personas, NEW done \in Writes,
         CreateSession(ip, persona, done)
  PROVE  Core' /\ RestOK'
<1> DEFINE id == Taken(ip, persona)
           s  == Session(id, ip, persona)
<1>0. /\ StoreOK /\ Leases /\ now \in Nat /\ now' = now /\ issued \in Nat
      /\ ended' = ended /\ served' = served
  BY DEF Core, RestOK, CreateSession, StoreOK
<1>1. /\ id \in Nat /\ s \in Sessions /\ s.ip = ip /\ s.persona = persona
      /\ id <= issued => id \in 1..issued
  BY <1>0, TakenFacts
<1>2. s.count = s.count + 0
  BY <1>1 DEF Sessions
<1>3. opened' = IF done = All THEN opened \cup {id} ELSE opened
  BY DEF CreateSession
<1>4. Core' /\ issued' \in Nat /\ issued <= issued' /\ (done = All => id \in 1..issued')
  <2>1. CASE id <= issued
    <3>1. Keep
      BY <2>1 DEF CreateSession
    <3>2. issued' = issued
      BY <3>1 DEF Keep, store
    <3> QED BY <1>0, <1>1, <2>1, <3>1, <3>2, KeepStep
  <2>2. CASE ~(id <= issued)
    <3>1. Save(id, s, done) /\ Answers(id, 0, done)
      BY <2>2 DEF CreateSession
    <3>2. issued' \in Nat /\ issued <= issued' /\ (done = All => id \in 1..issued')
      BY <1>0, <3>1, IssuedGrows DEF Core
    <3> HIDE DEF s
    <3>3. Core'
      BY <1>0, <1>1, <1>2, <3>1, SaveStep DEF s
    <3> QED BY <3>2, <3>3
  <2> QED BY <2>1, <2>2
<1>5. faults' \in Nat
  BY <1>0, Counting DEF CreateSession
<1> HIDE DEF id, s
<1>6. opened' \subseteq 1..issued'
  <2>1. opened \subseteq 1..issued'
    BY <1>0, <1>4 DEF RestOK
  <2> QED BY <1>3, <1>4, <2>1
<1> QED BY <1>0, <1>4, <1>5, <1>6 DEF RestOK, CreateSession

\* The clock.
LEMMA TickStep ==
  ASSUME REDIS' = REDIS, Core, RestOK, Tick
  PROVE  Core' /\ RestOK'
<1>0. now \in Nat /\ now' = now + 1
  BY DEF RestOK, Tick
<1>1. UNCHANGED <<issued, opened, req, seen, faults, ended, served, given>>
  BY DEF Tick, bounds, past
<1>2. CASE REDIS
  <2> DEFINE gone == {id \in DOMAIN sessions : sessions[id].kept <= now'}
             lost == {ip \in DOMAIN ip_map : ip_map[ip].kept <= now'}
  <2>1. sessions' = Without(sessions, gone) /\ ip_map' = Without(ip_map, lost)
    BY <1>2 DEF Tick
  <2>2. gone \in SUBSET DOMAIN sessions
    OBVIOUS
  <2>3. \A x \in DOMAIN sessions \ gone : now' < sessions[x].kept
    BY <1>0 DEF Core, StoreOK, Sessions
  <2>4. DOMAIN ip_map' \subseteq DOMAIN ip_map
        /\ \A ip \in DOMAIN ip_map' : ip_map'[ip] = ip_map[ip]
    BY <2>1 DEF Without
  <2> HIDE DEF gone, lost
  <2>5. Core'
    BY <1>0, <1>1, <2>1, <2>2, <2>3, <2>4, RemoveStep
  <2> QED BY <1>0, <1>1, <2>5 DEF RestOK
<1>3. CASE ~REDIS
  <2>1. UNCHANGED <<sessions, ip_map>>
    BY <1>3 DEF Tick
  <2>2. \A id \in DOMAIN sessions : sessions[id].created \in Nat
    BY DEF Core, StoreOK, Sessions
  <2> USE <1>0, <1>1, <1>3, <2>1, <2>2 DEF Core
  <2>3. StoreOK' /\ Owned' /\ ServedToOne' /\ EndedStaysEnded' /\ CountsAdvance'
    BY DEF StoreOK, IndexOwn, Owned, Of, ServedToOne, EndedStaysEnded, CountsAdvance
  <2>4. Leases'
    BY DEF Leases
  <2> QED BY <2>3, <2>4 DEF RestOK
<1> QED BY <1>2, <1>3

-----------------------------------------------------------------------------
(* The theorems *)

\* The invariant of the sessions.
THEOREM Invariance == Spec => []Inv
<1>1. Init => Inv
  <2> SUFFICES ASSUME Init PROVE Inv
    OBVIOUS
  <2>1. DOMAIN sessions = {} /\ DOMAIN ip_map = {} /\ given \in Seq(Nat) /\ Len(given) = 0
    BY DEF Init
  <2> QED BY <2>1 DEF Init, Inv, TypeOK, IndexOwn, Owned, Leases, ServedToOne, EndedStaysEnded,
                      CountsAdvance, Progress
<1>2. Inv /\ [Next]_vars => Inv'
  <2> SUFFICES ASSUME Core, RestOK, [Next]_vars PROVE Core' /\ RestOK'
    BY InvParts
  <2>a. REDIS' = REDIS
    BY DEF Next, vars
  <2>0. issued \in Nat /\ faults \in Nat /\ StoreOK
    BY DEF Core, StoreOK, RestOK
  <2>1. ASSUME NEW done \in Writes, NEW r \in Requests, NEW ip \in Attackers,
               NEW persona \in Personas, NEW path \in Paths,
               Arrive(r, ip, persona, path, 0, done)
        PROVE  Core' /\ RestOK'
    BY <2>a, <2>1, ArriveStep DEF Addresses
  <2>2. ASSUME NEW done \in Writes, NEW r \in Requests, NEW target \in Nat, NEW path \in Paths,
               Arrive(r, Platform, PORTAL_OVH, path, target, done)
        PROVE  Core' /\ RestOK'
    BY <2>a, <2>2, ArriveStep, SessionsAssumption DEF Addresses
  <2>3. ASSUME NEW done \in Writes, NEW r \in Requests, Page(r, done) \/ Cred(r, done) \/ Count(r, done)
        PROVE  Core' /\ RestOK'
    BY <2>a, <2>3, HandlerStep
  <2>4. ASSUME NEW done \in Writes, NEW r \in Requests, Terminate(r, done) \/ AdminReset(r, done)
        PROVE  Core' /\ RestOK'
    <3>1. faults' \in Nat
      BY <2>0, <2>4, Counting DEF Terminate, AdminReset
    <3>2. issued' = issued /\ \E path : Handles(r, path)
      BY <2>4 DEF Terminate, AdminReset, Keep, store
    <3>3. RestOK'
      BY <2>0, <3>1, <3>2, HandlesStep
    <3> QED BY <2>a, <2>4, <3>3, TerminateStep, ResetStep
  <2>5. ASSUME NEW r \in Requests, Static(r)
        PROVE  Core' /\ RestOK'
    <3>1. Keep /\ Handles(r, "visit") /\ UNCHANGED <<faults, ended, served>> /\ now' = now
      BY <2>5 DEF Static, Handles
    <3>2. issued' = issued
      BY <3>1 DEF Keep, store
    <3> QED BY <2>a, <2>0, <3>1, <3>2, KeepStep, HandlesStep DEF RestOK
  <2>6. ASSUME NEW done \in Writes, NEW ip \in Attackers, NEW persona \in Personas,
               CreateSession(ip, persona, done)
        PROVE  Core' /\ RestOK'
    BY <2>a, <2>6, CreateStep DEF Addresses
  <2>7. CASE Tick
    BY <2>a, <2>7, TickStep
  <2>8. CASE UNCHANGED vars
    BY <2>8 DEF vars, store, bounds, past, Core, RestOK, StoreOK, IndexOwn, Owned, Of, Leases,
                ServedToOne, EndedStaysEnded, CountsAdvance
  <2>9. opened \subseteq Nat
    BY <2>0 DEF RestOK
  <2> QED
    <3>1. CASE Next
      BY <3>1, <2>1, <2>2, <2>3, <2>4, <2>5, <2>6, <2>7, <2>9 DEF Next, Step, Paths
    <3> QED BY <2>8, <3>1
<1> QED BY <1>1, <1>2, PTL DEF Spec

\* Every variable of the sessions keeps its type.
THEOREM TypeCorrect == Spec => []TypeOK
BY Invariance, PTL DEF Inv

\* A session is only ever served to one address under one persona.
THEOREM Isolation == Spec => []ServedToOne
BY Invariance, PTL DEF Inv

\* A session that was terminated or cleared does not come back.
THEOREM EndIsFinal == Spec => []EndedStaysEnded
BY Invariance, PTL DEF Inv

\* Every answer a counter has given has advanced it, whatever Redis completes.
THEOREM CountsNeverLost == Spec => []CountsAdvance
BY Invariance, PTL DEF Inv

\* With Redis a session is gone two TTLs after its creation.
THEOREM KeysAreDropped == Spec => []KeysEnd
<1>1. Inv => KeysEnd
  <2> SUFFICES ASSUME Inv, REDIS, NEW id \in DOMAIN sessions
               PROVE  /\ sessions[id].kept <= sessions[id].created + 2 * TTL_SECONDS
                      /\ now < sessions[id].created + 2 * TTL_SECONDS
    BY DEF KeysEnd
  <2>1. sessions[id].created \in Nat /\ sessions[id].kept \in Nat /\ now \in Nat
    BY DEF Inv, TypeOK, Sessions
  <2> QED BY <2>1, SessionsAssumption DEF Inv, Leases
<1> QED BY <1>1, Invariance, PTL

-----------------------------------------------------------------------------
(* New sessions *)

\* Of sessions i and j, the new one may have been created although i was live.
Needed(i, ip, persona) ==
  \E k \in DOMAIN sessions : k < i /\ Of(k, ip, persona) /\ Expired(k)

\* Without Redis a live session is found, unless an older one that has expired is in the
\* way of the walk.
LEMMA WalkFacts ==
  ASSUME StoreOK, ~REDIS, NEW ip, NEW persona, Found(ip, persona) = {},
         NEW i \in DOMAIN sessions, Of(i, ip, persona), ~Expired(i)
  PROVE  Needed(i, ip, persona)
<1> DEFINE mine == {id \in DOMAIN sessions : Of(id, ip, persona)}
<1>1. mine \in SUBSET Nat /\ i \in mine
  BY DEF StoreOK
<1>2. PICK k \in mine : \A m \in mine : k <= m
  <2> HIDE DEF mine
  <2> QED BY <1>1, LeastNumber
<1>3. Min(mine) \in mine /\ \A m \in mine : Min(mine) <= m
  <2> HIDE DEF mine
  <2> QED BY <1>2 DEF Min
<1>4. Expired(Min(mine))
  BY <1>3 DEF Found, FoundInDict
<1>5. Min(mine) # i /\ Min(mine) \in Nat /\ i \in Nat /\ Min(mine) <= i
  BY <1>1, <1>3, <1>4
<1>6. Min(mine) \in DOMAIN sessions /\ Of(Min(mine), ip, persona)
  BY <1>3
<1> HIDE DEF mine
<1> QED BY <1>4, <1>5, <1>6 DEF Needed

\* What a save of what get_or_create answered adds is a session of that address and
\* persona, and only when none was found.
LEMMA SaveAdds ==
  ASSUME StoreOK, Leases, now \in Nat, NEW ip \in Addresses, NEW persona \in Personas,
         NEW s \in Sessions, s.ip = ip, s.persona = persona, NEW done,
         Save(Taken(ip, persona), s, done),
         NEW j \in DOMAIN sessions' \ DOMAIN sessions
  PROVE  /\ sessions'[j].ip = ip /\ sessions'[j].persona = persona
         /\ Found(ip, persona) = {}
<1> DEFINE id == Taken(ip, persona)
<1>1. PICK w \in {Leased(s), Leased([s EXCEPT !.count = 0])} : sessions' = With(sessions, id, w)
  BY DEF Save
<1>2. w.ip = ip /\ w.persona = persona
  <2>1. \A t \in Sessions : Leased(t).ip = t.ip /\ Leased(t).persona = t.persona
    BY DEF Leased, Sessions
  <2>2. /\ [s EXCEPT !.count = 0] \in Sessions
        /\ [s EXCEPT !.count = 0].ip = ip /\ [s EXCEPT !.count = 0].persona = persona
    BY DEF Sessions
  <2> QED BY <1>1, <2>1, <2>2
<1>3. j = id /\ sessions'[j] = w /\ id \notin DOMAIN sessions
  BY <1>1 DEF With
<1>4. Found(ip, persona) \subseteq DOMAIN sessions
  BY DEF Found, FoundInRedis, FoundInDict, Indexed
<1>5. ASSUME Found(ip, persona) # {} PROVE FALSE
  BY <1>3, <1>4, <1>5 DEF Taken
<1> QED BY <1>2, <1>3, <1>5

\* Without Redis nobody is given a second live session under one persona, unless an
\* older one that has expired is in the way (InMemorySessionStore.get_or_create).
THEOREM NewSessionsAreNeeded == Spec => NewOnlyIfNeeded
<1>1. Inv /\ [Next]_vars =>
        [~REDIS => \A j \in DOMAIN sessions' \ DOMAIN sessions : \A i \in DOMAIN sessions :
           /\ sessions'[j].ip = sessions[i].ip /\ sessions'[j].persona = sessions[i].persona
           /\ ~Expired(i)
           => \E k \in DOMAIN sessions : k < i /\ Of(k, sessions[i].ip, sessions[i].persona)
                                         /\ Expired(k)]_vars
  <2> SUFFICES ASSUME Core, RestOK, TypeOK, Next, ~REDIS,
                      NEW j \in DOMAIN sessions' \ DOMAIN sessions, NEW i \in DOMAIN sessions,
                      sessions'[j].ip = sessions[i].ip,
                      sessions'[j].persona = sessions[i].persona, ~Expired(i)
               PROVE  Needed(i, sessions[i].ip, sessions[i].persona)
    BY InvParts DEF Needed, Inv, vars, store
  <2>0. StoreOK /\ Leases /\ now \in Nat
    BY DEF Core, RestOK
  <2>1. ASSUME NEW ip \in Addresses, NEW persona \in Personas, NEW s \in Sessions,
               s.ip = ip, s.persona = persona, NEW done, Save(Taken(ip, persona), s, done)
        PROVE  Needed(i, sessions[i].ip, sessions[i].persona)
    <3>1. /\ sessions[i].ip = ip /\ sessions[i].persona = persona
          /\ Found(ip, persona) = {}
      BY <2>0, <2>1, SaveAdds
    <3>2. Of(i, ip, persona)
      BY <3>1 DEF Of
    <3> QED BY <2>0, <3>1, <3>2, WalkFacts
  <2>2. ASSUME NEW ip \in Addresses, NEW persona \in Personas, NEW done,
               Save(Taken(ip, persona), Session(Taken(ip, persona), ip, persona), done)
        PROVE  Needed(i, sessions[i].ip, sessions[i].persona)
    <3>1. /\ Session(Taken(ip, persona), ip, persona) \in Sessions
          /\ Session(Taken(ip, persona), ip, persona).ip = ip
          /\ Session(Taken(ip, persona), ip, persona).persona = persona
      BY <2>0, TakenFacts
    <3> QED BY <2>1, <2>2, <3>1
  <2>3. ASSUME NEW r \in Requests, NEW ip \in Addresses, NEW persona \in Personas,
               NEW path, NEW target, NEW done, Arrive(r, ip, persona, path, target, done)
        PROVE  Needed(i, sessions[i].ip, sessions[i].persona)
    BY <2>2, <2>3 DEF Arrive
  <2>4. ASSUME NEW r \in Requests, NEW done, Page(r, done) \/ Cred(r, done) \/ Count(r, done)
        PROVE  Needed(i, sessions[i].ip, sessions[i].persona)
    <3>1. req[r].from \in Addresses /\ req[r].persona \in Personas
      <4>1. req[r] # Idle
        BY <2>4 DEF Page, Cred, Count, Handles
      <4> QED BY <4>1, Busy
    <3>2. /\ MySession(r) \in Sessions /\ MySession(r).ip = req[r].from
          /\ MySession(r).persona = req[r].persona
      BY <2>0, <3>1, TakenFacts DEF MySession, Mine
    <3>3. /\ Counted(r) \in Sessions /\ Counted(r).ip = req[r].from
          /\ Counted(r).persona = req[r].persona
      BY <3>2 DEF Counted, Sessions
    <3>4. Save(Mine(r), MySession(r), done) \/ Save(Mine(r), Counted(r), done)
      BY <2>4 DEF Page, Cred, Count, Keep, store
    <3> QED BY <2>1, <3>1, <3>2, <3>3, <3>4 DEF Mine
  <2>5. ASSUME NEW ip \in Addresses, NEW persona \in Personas, NEW done,
               CreateSession(ip, persona, done)
        PROVE  Needed(i, sessions[i].ip, sessions[i].persona)
    <3>1. Save(Taken(ip, persona), Session(Taken(ip, persona), ip, persona), done)
      BY <2>5 DEF CreateSession, Keep, store
    <3> QED BY <2>2, <3>1
  <2>6. ASSUME NEW r \in Requests, NEW done, Terminate(r, done) \/ AdminReset(r, done) \/ Static(r)
        PROVE  FALSE
    BY <2>6 DEF Terminate, AdminReset, Static, Keep, store, Without
  <2>7. ~Tick
    BY DEF Tick
  <2> QED BY <2>3, <2>4, <2>5, <2>6, <2>7, SessionsAssumption DEF Next, Step, Addresses
<1> QED BY <1>1, Invariance, PTL DEF Spec, NewOnlyIfNeeded
=============================================================================
