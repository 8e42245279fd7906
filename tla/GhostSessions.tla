---------------------------- MODULE GhostSessions ----------------------------
(***************************************************************************)
(* The sessions of the Ghost Shell (services/ghost_shell/session_state.py  *)
(* and the routes that use them): what each attacker has been served, so   *)
(* that the decoy can contradict itself on purpose.                        *)
(*                                                                         *)
(* One asyncio process with one store, a dict or Redis. No operation on    *)
(* the store suspends: a request is the middleware, which looks a session  *)
(* up and saves it, and then a handler, which looks it up again; other     *)
(* requests, the tools of the MCP server, a reset and the clock come in    *)
(* between. With Redis a save is two commands and either may fail, which   *)
(* the middleware ignores and a handler turns into a 500.                  *)
(*                                                                         *)
(* Sessions are numbered in the order they are created, which is the order *)
(* the dict is walked in.                                                  *)
(***************************************************************************)
EXTENDS Integers, Sequences, FiniteSetsExt, TLC, Maps

CONSTANTS
  Attackers, Platform,         \* addresses: the attackers', the MCP server's
  Personas, PORTAL_OVH,        \* PORTAL_OVH: the persona of an unknown host
  Requests,                    \* requests in progress at once
  TTL_SECONDS,
  MaxRequests, MaxOpens, MaxFaults,   \* bounds
  MaxTime                      \* the same, with Redis and without

ASSUME SessionsAssumption ==
  /\ Platform \notin Attackers /\ PORTAL_OVH \in Personas
  /\ TTL_SECONDS \in Nat \ {0}
  /\ {MaxRequests, MaxOpens, MaxFaults} \subseteq Nat
  /\ MaxTime \in [BOOLEAN -> Nat]

VARIABLES
  REDIS,        \* whether Redis answered when the shell started
  now,
  sessions,     \* of the ids that are kept: the session
  ip_map,       \* of the addresses that Redis knows: the id of their session
  issued,       \* the number of ids created
  opened,       \* the ids the MCP server was given
  req,          \* what each request is at, and the id it was tracked under
  seen, faults, \* counters for the bounds
  ended,        \* history: the ids that were terminated or cleared
  served,       \* history: the ids handlers answered from, and to whom
  given         \* history: how often each id has answered a count

store  == <<sessions, ip_map, issued>>
bounds == <<seen, faults>>
past   == <<ended, served, given>>
vars   == <<REDIS, now, store, opened, req, bounds, past>>

-----------------------------------------------------------------------------
(* Types *)

Addresses == Attackers \cup {Platform}

\* The middleware does the same for every page an attacker visits: which handler runs
\* is left open until it does.
Paths == {"visit", "terminate", "reset"}

Idle == [at |-> "idle"]

Progress ==
  [at: {"handling"}, from: Addresses, persona: Personas, path: Paths, target: Nat,
   tracked: Nat] \cup {Idle}

Sessions == [ip: Addresses, persona: Personas, created: Nat, kept: Nat, count: Nat]

\* How many of its writes an operation completes: all of them, or fewer when Redis
\* fails. A new session is saved when it is created (1, 2) and again with what was
\* added to it (3, 4), each time the session and then the index.
All    == 4
Writes == 0..All

TypeOK ==
  /\ REDIS \in BOOLEAN
  /\ now \in Nat /\ issued \in Nat /\ seen \in Nat /\ faults \in Nat
  /\ DOMAIN sessions \subseteq 1..issued
  /\ \A id \in DOMAIN sessions : sessions[id] \in Sessions
  /\ DOMAIN ip_map \subseteq Addresses
  /\ \A ip \in DOMAIN ip_map : ip_map[ip] \in [id: 1..issued, kept: Nat]
  /\ opened \subseteq 1..issued /\ ended \subseteq 1..issued
  /\ req \in [Requests -> Progress]
  /\ served \subseteq [id: 1..issued, ip: Addresses, persona: Personas]
  /\ given \in Seq(Nat) /\ Len(given) = issued

Init ==
  /\ REDIS \in BOOLEAN
  /\ now = 0 /\ issued = 0 /\ seen = 0 /\ faults = 0
  /\ sessions = <<>> /\ ip_map = <<>> /\ given = <<>>
  /\ opened = {} /\ ended = {} /\ served = {}
  /\ req = [r \in Requests |-> Idle]

-----------------------------------------------------------------------------
(* The store *)

Expired(id) == sessions[id].created + TTL_SECONDS <= now

Of(id, ip, persona) == sessions[id].ip = ip /\ sessions[id].persona = persona

\* Redis has one id per address, of whatever persona.
Indexed(ip) == {id \in DOMAIN sessions : ip \in DOMAIN ip_map /\ ip_map[ip].id = id}

\* Mutant: the session is answered whatever its persona.
FoundInRedis_AnyPersona(ip, persona) == {id \in Indexed(ip) : ~Expired(id)}

\* Mutant: the session is answered as long as Redis has it.
FoundInRedis_Expired(ip, persona) ==
  {id \in Indexed(ip) : sessions[id].persona = persona}

\* The session's address is not looked at: the index is trusted for it.
FoundInRedis(ip, persona) ==
  {id \in Indexed(ip) : sessions[id].persona = persona /\ ~Expired(id)}

\* Mutant: the walk answers the first session of the persona, whoever's it is.
FoundInDict_AnyAddress(ip, persona) ==
  LET mine == {id \in DOMAIN sessions : sessions[id].persona = persona}
  IN  {id \in mine : id = Min(mine) /\ ~Expired(id)}

\* Mutant: the walk ends at the first session of the address.
FoundInDict_FirstOfAddress(ip, persona) ==
  LET his == {id \in DOMAIN sessions : sessions[id].ip = ip}
  IN  {id \in his : id = Min(his) /\ Of(id, ip, persona) /\ ~Expired(id)}

\* The dict is walked up to the first session of the address and persona, which may
\* have expired.
FoundInDict(ip, persona) ==
  LET mine == {id \in DOMAIN sessions : Of(id, ip, persona)}
  IN  {id \in mine : id = Min(mine) /\ ~Expired(id)}

Found(ip, persona) == IF REDIS THEN FoundInRedis(ip, persona) ELSE FoundInDict(ip, persona)

\* The id get_or_create answers: the one found, or a new one.
Taken(ip, persona) ==
  IF Found(ip, persona) = {} THEN issued + 1 ELSE CHOOSE id \in Found(ip, persona) : TRUE

Session(id, ip, persona) ==
  IF id \in DOMAIN sessions THEN sessions[id]
  ELSE [ip |-> ip, persona |-> persona, created |-> now, kept |-> now, count |-> 0]

Leased(s) == [s EXCEPT !.kept = now + TTL_SECONDS]

UsesUp(id, done) == issued' = IF id > issued /\ done >= 1 THEN id ELSE issued

\* save: the session, then the index; either command gives its key a new lease.
Save(id, s, done) ==
  /\ sessions' = IF done >= 3 THEN With(sessions, id, Leased(s))
                 ELSE IF id > issued /\ done >= 1
                        THEN With(sessions, id, Leased([s EXCEPT !.count = 0]))
                 ELSE sessions
  /\ ip_map' = IF REDIS /\ (done = All \/ (id > issued /\ done >= 2))
                 THEN With(ip_map, s.ip, [id |-> id, kept |-> now + TTL_SECONDS])
                 ELSE ip_map
  /\ UsesUp(id, done)

Answers(id, n, done) ==
  given' = IF id <= issued THEN [given EXCEPT ![id] = @ + n]
           ELSE IF done >= 1 THEN Append(given, n) ELSE given

Keep == UNCHANGED store /\ UNCHANGED given

Fails(done) ==
  /\ done # All => REDIS /\ faults < MaxFaults
  /\ faults' = IF done = All THEN faults ELSE faults + 1

-----------------------------------------------------------------------------
(* A request *)

\* The middleware: the session is looked up and saved with what the request adds to
\* it. If Redis fails the request goes on.
Arrive(r, ip, persona, path, target, done) ==
  /\ req[r] = Idle /\ seen < MaxRequests
  /\ Fails(done)
  /\ seen' = seen + 1
  /\ req' = [req EXCEPT ![r] = [at |-> "handling", from |-> ip, persona |-> persona,
                                path |-> path, target |-> target,
                                tracked |-> IF done = All THEN Taken(ip, persona) ELSE 0]]
  /\ LET id == Taken(ip, persona)
     IN  Save(id, Session(id, ip, persona), done) /\ Answers(id, 0, done)
  /\ UNCHANGED <<now, opened, ended, served>>

Handles(r, path) ==
  /\ req[r] # Idle /\ req[r].path = path
  /\ req' = [req EXCEPT ![r] = Idle]
  /\ UNCHANGED <<now, seen, opened>>

\* What a handler that did not fail was served from.
Serves(r, id, done) ==
  served' = IF done # All THEN served
            ELSE served \cup {[id |-> id, ip |-> req[r].from, persona |-> req[r].persona]}

\* The handler looks its session up anew.
\* Mutant: it goes on with the one the middleware had.
Mine_Tracked(r) ==
  IF req[r].tracked # 0 THEN req[r].tracked ELSE Taken(req[r].from, req[r].persona)

Mine(r) == Taken(req[r].from, req[r].persona)

MySession(r) == Session(Mine(r), req[r].from, req[r].persona)

\* A page answered without a session.
Static(r) == Handles(r, "visit") /\ Keep /\ UNCHANGED <<faults, ended, served>>

\* A page served from a session (index, logs, files, the file tree): one that is found
\* is not saved.
Page(r, done) ==
  /\ Handles(r, "visit") /\ Fails(done)
  /\ IF Mine(r) <= issued THEN Keep
     ELSE Save(Mine(r), MySession(r), done) /\ Answers(Mine(r), 0, done)
  /\ Serves(r, Mine(r), done)
  /\ UNCHANGED ended

\* A node of the credential graph, noted in the session.
Cred(r, done) ==
  /\ Handles(r, "visit") /\ Fails(done)
  /\ Save(Mine(r), MySession(r), done) /\ Answers(Mine(r), 0, done)
  /\ Serves(r, Mine(r), done)
  /\ UNCHANGED ended

\* Mutant: the counter is not saved.
Counted_Unsaved(r) == MySession(r)

Counted(r) == [MySession(r) EXCEPT !.count = @ + 1]

\* A page answered from a counter of the session: /api/v1/scan_status and
\* /api/user/<id>.
Count(r, done) ==
  /\ Handles(r, "visit") /\ Fails(done)
  /\ Save(Mine(r), Counted(r), done)
  /\ Answers(Mine(r), IF done = All THEN 1 ELSE 0, done)
  /\ Serves(r, Mine(r), done)
  /\ UNCHANGED ended

\* Tool 3. A session that is not there is a 404. With Redis the index of its address
\* is deleted after it, whatever session the index names.
Terminate(r, done) ==
  /\ Handles(r, "terminate") /\ Fails(done)
  /\ LET id == req[r].target
     IN  IF done = 0 \/ id \notin DOMAIN sessions THEN Keep /\ UNCHANGED ended
         ELSE /\ sessions' = Without(sessions, {id})
              /\ ip_map' = IF done = All THEN Without(ip_map, {sessions[id].ip}) ELSE ip_map
              /\ ended' = ended \cup {id}
              /\ UNCHANGED <<issued, given>>
  /\ UNCHANGED served

\* The sessions are deleted one by one, then the index.
AdminReset(r, done) ==
  /\ Handles(r, "reset") /\ Fails(done)
  /\ \E ids \in SUBSET DOMAIN sessions, ips \in SUBSET DOMAIN ip_map :
       /\ IF done = All THEN ids = DOMAIN sessions /\ ips = DOMAIN ip_map
          ELSE ids # DOMAIN sessions => ips = {}
       /\ sessions' = Without(sessions, ids)
       /\ ip_map' = Without(ip_map, ips)
       /\ ended' = ended \cup ids
  /\ UNCHANGED <<issued, served, given>>

\* Tool 1: POST /sessions, which the middleware does not track.
CreateSession(ip, persona, done) ==
  /\ Cardinality(opened) < MaxOpens
  /\ Fails(done)
  /\ LET id == Taken(ip, persona)
     IN  /\ IF id <= issued THEN Keep
            ELSE Save(id, Session(id, ip, persona), done) /\ Answers(id, 0, done)
         /\ opened' = IF done = All THEN opened \cup {id} ELSE opened
  /\ UNCHANGED <<now, req, seen, ended, served>>

\* Redis drops a key whose lease is over.
Tick ==
  /\ now < MaxTime[REDIS]
  /\ now' = now + 1
  /\ IF REDIS
       THEN /\ sessions' = Without(sessions, {id \in DOMAIN sessions : sessions[id].kept <= now'})
            /\ ip_map' = Without(ip_map, {ip \in DOMAIN ip_map : ip_map[ip].kept <= now'})
       ELSE UNCHANGED <<sessions, ip_map>>
  /\ UNCHANGED <<issued, opened, req, bounds, past>>

Step ==
  \/ \E done \in Writes :
       \/ \E r \in Requests :
            \/ \E ip \in Attackers, persona \in Personas :
                 Arrive(r, ip, persona, "visit", 0, done)
            \/ \E id \in opened : Arrive(r, Platform, PORTAL_OVH, "terminate", id, done)
            \/ Arrive(r, Platform, PORTAL_OVH, "reset", 0, done)
            \/ Page(r, done) \/ Cred(r, done) \/ Count(r, done)
            \/ Terminate(r, done) \/ AdminReset(r, done)
       \/ \E ip \in Attackers, persona \in Personas : CreateSession(ip, persona, done)
  \/ \E r \in Requests : Static(r)
  \/ Tick

Next == Step /\ UNCHANGED REDIS

Spec == Init /\ [][Next]_vars

\* Requests are alike, and so are attackers.
Symmetry == Permutations(Requests) \cup Permutations(Attackers)

-----------------------------------------------------------------------------
(* Properties *)

\* A session is served to one address under one persona, though no lookup in Redis
\* compares its address: however lookups, partial saves, expiries and terminations
\* interleave, the index never names another attacker's session.
ServedToOne ==
  \A s, t \in served : s.id = t.id => s = t

\* A session that was terminated or cleared is not written back by a request that
\* was under way.
EndedStaysEnded ==
  ended \cap DOMAIN sessions = {}

\* Every answer a counter of a session has given has advanced it: two requests are
\* not given the same answer.
CountsAdvance ==
  \A id \in DOMAIN sessions : sessions[id].count >= given[id]

\* With Redis a session is gone two TTLs after its creation, though every request
\* gives its key a new lease: nobody is found an expired session to save.
KeysEnd ==
  REDIS => \A id \in DOMAIN sessions :
             /\ sessions[id].kept <= sessions[id].created + 2 * TTL_SECONDS
             /\ now < sessions[id].created + 2 * TTL_SECONDS

\* With the dict an attacker is given a second live session under one persona only
\* when an older one that has expired is in the way of the first.
NewOnlyIfNeeded ==
  [][~REDIS => \A j \in DOMAIN sessions' \ DOMAIN sessions : \A i \in DOMAIN sessions :
       /\ sessions'[j].ip = sessions[i].ip /\ sessions'[j].persona = sessions[i].persona
       /\ ~Expired(i)
       => \E k \in DOMAIN sessions : k < i /\ Of(k, sessions[i].ip, sessions[i].persona)
                                     /\ Expired(k)]_vars
=============================================================================
