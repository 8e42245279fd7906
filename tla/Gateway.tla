-------------------------------- MODULE Gateway --------------------------------
(***************************************************************************)
(* The console's gateway (services/api): who may log in, how often an      *)
(* address may try, what a token is worth, and the file of users that the  *)
(* admins edit through it.                                                 *)
(*                                                                         *)
(* One asyncio process whose handlers here never suspend: each is a step.  *)
(* What interleaves is the handlers of several admins, the clock that ages *)
(* the tokens, writes of the file that fail half way, and restarts. A      *)
(* refused request that changes nothing is no step.                        *)
(*                                                                         *)
(* The file lists each user once with a known role, as every file the      *)
(* gateway writes does. A password is only right or wrong.                 *)
(***************************************************************************)
EXTENDS Integers, Sequences, FiniteSets, FiniteSetsExt, SequencesExt, TLC, Maps

CONSTANTS
  Usernames, Admin,       \* Admin: the user "admin" of the fallback
  Addresses,
  LIMIT, WINDOW_S, MAX_KEYS,
  TOKEN_TTL_S,
  Files,                  \* the lists the file of users may hold at first
  MaxTime, MaxLogins, MaxTokens, MaxEdits, MaxFaults, MaxRestarts,
  MaxCalls      \* bounds, the last on attempts and edits together

ASSUME GatewayAssumption ==
  /\ Admin \in Usernames
  /\ LIMIT \in Nat \ {0} /\ WINDOW_S \in Nat \ {0} /\ MAX_KEYS \in Nat /\ TOKEN_TTL_S \in Nat
  /\ Files \subseteq UNION {[U -> {"viewer", "operator", "admin"}] : U \in SUBSET Usernames}
  /\ \A file \in Files : IsFiniteSet(DOMAIN file)
  /\ {MaxTime, MaxLogins, MaxTokens, MaxEdits, MaxFaults, MaxRestarts, MaxCalls} \subseteq Nat

VARIABLES
  now,
  config,       \* fixed at the start: the environment variables and the mount
  disk, users,  \* what the users file is, and the role of each user it lists
  hits,         \* of the addresses that tried: when, newest last
  tokens,       \* the tokens handed out that the signing key verifies
  logins, edits, faults, restarts,     \* counters for the bounds
  allowed,      \* history: when each address was allowed to try, by this process
  held          \* history: when each user last had each role, -1 if never

bounds == <<logins, edits, faults, restarts>>
store  == <<disk, users>>
vars   == <<now, config, store, hits, tokens, bounds, allowed, held>>

-----------------------------------------------------------------------------
(* Types *)

ROLES == {"viewer", "operator", "admin"}

Rank(role) == CASE role = "viewer" -> 0 [] role = "operator" -> 1 [] role = "admin" -> 2

role_at_least(role, minimum) == Rank(role) >= Rank(minimum)

\*   local     AUTH_BACKEND is local, not oidc
\*   writable  the users file may be written
\*   stable    the signing key is configured, and not drawn by each process
Configs == [local: BOOLEAN, writable: BOOLEAN, stable: BOOLEAN]

Tokens == [sub: Usernames, role: ROLES, exp: Nat]

TypeOK ==
  /\ now \in Nat /\ config \in Configs
  /\ disk \in {"absent", "garbage", "list"}
  /\ DOMAIN users \subseteq Usernames /\ \A u \in DOMAIN users : users[u] \in ROLES
  /\ disk # "list" => DOMAIN users = {}
  /\ DOMAIN hits \subseteq Addresses
  /\ \A ip \in DOMAIN hits : hits[ip] \in Seq(0..now) /\ Len(hits[ip]) \in 1..LIMIT
  /\ tokens \subseteq Tokens
  /\ logins \in Nat /\ edits \in Nat /\ faults \in Nat /\ restarts \in Nat
  /\ allowed \in [Addresses -> Seq(0..now)]
  /\ held \in [Usernames -> [ROLES -> -1..now]]

-----------------------------------------------------------------------------
(* The users *)

\* _load_users: a file that lists nobody, or cannot be read, gives way to one admin.
LoadedFrom(d, us) ==
  IF d = "list" /\ DOMAIN us # {} THEN us ELSE [u \in {Admin} |-> "admin"]

Loaded == LoadedFrom(disk, users)

\* Every step renews held by what the users are now.
Holding(loaded, last, t) ==
  [u \in Usernames |-> [r \in ROLES |->
     IF u \in DOMAIN loaded /\ loaded[u] = r THEN t ELSE last[u][r]]]

Holds == held' = Holding(LoadedFrom(disk', users'), held, now')

Init ==
  /\ now = 0 /\ config \in Configs
  /\ \/ disk = "list" /\ users \in Files
     \/ disk = "absent" /\ users = <<>>
  /\ hits = <<>> /\ tokens = {}
  /\ logins = 0 /\ edits = 0 /\ faults = 0 /\ restarts = 0
  /\ allowed = [ip \in Addresses |-> <<>>]
  /\ held = Holding(Loaded, [u \in Usernames |-> [r \in ROLES |-> -1]], 0)

-----------------------------------------------------------------------------
(* Login *)

\* Mutant: only the addresses without attempts are dropped.
Stale_Empty(ip) == hits[ip] = <<>>

\* Mutant: an address is dropped while its attempts still count.
Stale_Young(ip) == hits[ip] = <<>> \/ now - Last(hits[ip]) > 0

Stale(ip) == hits[ip] = <<>> \/ now - Last(hits[ip]) > WINDOW_S

_prune == Without(hits, {ip \in DOMAIN hits : Stale(ip)})

\* The map an attempt of ip finds: pruned if ip is new and the map is full.
Kept(ip) ==
  IF ip \notin DOMAIN hits /\ Cardinality(DOMAIN hits) >= MAX_KEYS THEN _prune ELSE hits

\* How many a loop drops that pops the first as long as it is no later than cutoff.
Popped(times, cutoff) ==
  CHOOSE k \in 0..Len(times) :
    /\ \A i \in 1..k : times[i] <= cutoff
    /\ k < Len(times) => times[k + 1] > cutoff

After(times, cutoff) == SubSeq(times, Popped(times, cutoff) + 1, Len(times))

\* Mutant: only the attempts of this second count.
InWindow_Narrow(times) == After(times, now - 1)

InWindow(times) == After(times, now - WINDOW_S)

\* The attempts of ip that count now.
Recent(ip) == IF ip \in DOMAIN Kept(ip) THEN InWindow(Kept(ip)[ip]) ELSE <<>>

\* Mutant: the test comes after the attempt is recorded, one too late.
OverLimit_Late(ip) == Len(Recent(ip)) > LIMIT

OverLimit(ip) == Len(Recent(ip)) >= LIMIT

Records(ip) ==
  /\ hits' = With(Kept(ip), ip, Append(Recent(ip), now))
  /\ allowed' = [allowed EXCEPT ![ip] = Append(@, now)]

Tries ==
  /\ logins < MaxLogins /\ logins + edits < MaxCalls
  /\ logins' = logins + 1

\* Under oidc nobody logs in, and no token is looked at.
login_enabled == config.local

\* 429. The aged attempts are dropped all the same.
LoginThrottled(ip) ==
  /\ Tries
  /\ OverLimit(ip)
  /\ hits' = With(Kept(ip), ip, Recent(ip))
  /\ UNCHANGED <<now, config, store, tokens, edits, faults, restarts, allowed>>
  /\ Holds

\* 501 under oidc, 401 for a wrong password or an unknown user: the attempt counts.
LoginFails(ip) ==
  /\ Tries
  /\ ~OverLimit(ip) /\ Records(ip)
  /\ UNCHANGED <<now, config, store, tokens, edits, faults, restarts>>
  /\ Holds

\* Whoever knows the password of u is let in as u: the list is read anew each time.
authenticate(u) == u \in DOMAIN Loaded

issue_token(u) == [sub |-> u, role |-> Loaded[u], exp |-> now + TOKEN_TTL_S]

Login(ip, u) ==
  /\ Tries
  /\ ~OverLimit(ip) /\ Records(ip)
  /\ login_enabled /\ authenticate(u)
  /\ Cardinality(tokens) < MaxTokens
  /\ tokens' = tokens \cup {issue_token(u)}
  /\ UNCHANGED <<now, config, store, edits, faults, restarts>>
  /\ Holds

-----------------------------------------------------------------------------
(* Users, edited by the holder of an admin's token *)

\* Mutant: a token is good for as long as its key.
identity_from_token_Forever(t) == t.sub \in Usernames

identity_from_token(t) == t.exp >= now

identity_from_request(t) == login_enabled /\ identity_from_token(t)

\* require_role("admin"): u is who an admin's token says he is.
By(u) ==
  \E t \in tokens :
    identity_from_request(t) /\ role_at_least(t.role, "admin") /\ t.sub = u

is_managed == disk # "absent" /\ config.writable

_admin_count == Cardinality({u \in DOMAIN users : users[u] = "admin"})

\* Mutant: the guard forgets that the admin himself is counted.
LastAdmin_Others(u) == users[u] = "admin" /\ _admin_count < 1

LastAdmin(u) == users[u] = "admin" /\ _admin_count <= 1

\* _write_entries: when the temporary file cannot be written or renamed the file is
\* written in place, and what stops that leaves no list. So does the first of two
\* writes if it is the one that stops.
Write(entries, torn) ==
  /\ edits < MaxEdits /\ logins + edits < MaxCalls
  /\ edits' = edits + 1
  /\ torn => faults < MaxFaults
  /\ faults' = IF torn THEN faults + 1 ELSE faults
  /\ IF torn THEN disk' = "garbage" /\ users' = <<>>
     ELSE disk' = disk /\ users' = entries
  /\ UNCHANGED <<now, config, hits, tokens, logins, restarts, allowed>>
  /\ Holds

\* _read_entries: a file that cannot be parsed refuses every edit.
Readable == disk = "list"

create_user(u, role, torn) ==
  /\ Readable /\ u \notin DOMAIN users
  /\ Write(With(users, u, role), torn)

set_role(u, role, torn) ==
  /\ Readable /\ u \in DOMAIN users
  /\ role # "admin" => ~LastAdmin(u)
  /\ Write(With(users, u, role), torn)

\* The list is the same afterwards, if it is one.
set_password(u) ==
  /\ Readable /\ u \in DOMAIN users
  /\ Write(users, TRUE)

delete_user(u, torn) ==
  /\ Readable /\ u \in DOMAIN users
  /\ ~LastAdmin(u)
  /\ Write(Without(users, {u}), torn)

\* 409 when there is no file to edit.
_require_managed == is_managed

users_create(by, u, role, torn) ==
  By(by) /\ _require_managed /\ create_user(u, role, torn)

\* The role, the password or both are set: with both the file is written twice.
users_patch(by, u) ==
  /\ By(by) /\ _require_managed
  /\ \/ set_password(u)
     \/ \E role \in ROLES, torn \in BOOLEAN : set_role(u, role, torn)

users_delete(by, u, torn) ==
  By(by) /\ _require_managed /\ u # by /\ delete_user(u, torn)

-----------------------------------------------------------------------------

\* A key drawn by the process that ended verifies nothing any more.
Survives == IF config.stable THEN tokens ELSE {}

Restart ==
  /\ restarts < MaxRestarts /\ restarts' = restarts + 1
  /\ hits' = <<>> /\ allowed' = [ip \in Addresses |-> <<>>]
  /\ tokens' = Survives
  /\ UNCHANGED <<now, config, store, logins, edits, faults>>
  /\ Holds

Tick ==
  /\ now < MaxTime /\ now' = now + 1
  /\ UNCHANGED <<config, store, hits, tokens, bounds, allowed>>
  /\ Holds

Next ==
  \/ \E ip \in Addresses :
       \/ LoginThrottled(ip) \/ LoginFails(ip)
       \/ \E u \in Usernames : Login(ip, u)
  \/ \E by \in Usernames, u \in Usernames :
       \/ users_patch(by, u)
       \/ \E torn \in BOOLEAN :
            \/ \E role \in ROLES : users_create(by, u, role, torn)
            \/ users_delete(by, u, torn)
  \/ Restart
  \/ Tick

Spec == Init /\ [][Next]_vars

\* Addresses are alike.
AddressSymmetry == Permutations(Addresses)

-----------------------------------------------------------------------------
(* Properties *)

HasAdmin(loaded) == \E u \in DOMAIN loaded : loaded[u] = "admin"

\* "The last admin cannot be demoted or deleted" (docs/guide/api.md): once the file
\* lists an admin somebody may always log in as one, whoever edits, with a token of
\* whatever age, and whether or not a write is torn.
AdminRemains ==
  [][disk = "list" /\ HasAdmin(users) => HasAdmin(Loaded')]_vars

\* A token carries the role its user had when it was issued. A role that was taken
\* away is good for TOKEN_TTL_S more at most, restarts included.
RolesExpire ==
  \A t \in tokens : identity_from_token(t) => now - held[t.sub][t.role] <= TOKEN_TTL_S

\* An address is allowed no more than LIMIT attempts in any window, though the map of
\* attempts is trimmed and pruned, by attempts of others too.
LoginBound ==
  \A ip \in Addresses : \A i \in DOMAIN allowed[ip] :
    i + LIMIT \in DOMAIN allowed[ip] =>
      allowed[ip][i + LIMIT] - allowed[ip][i] >= WINDOW_S

\* "Stop the key map from growing without bound" (ratelimit.py): the map outgrows
\* MAX_KEYS only while every address in it has tried within the window.
OnlyLiveOverflow ==
  [][DOMAIN hits' # DOMAIN hits /\ Cardinality(DOMAIN hits') > MAX_KEYS =>
       \A ip \in DOMAIN hits' : now - Last(hits'[ip]) <= WINDOW_S]_vars
=============================================================================
