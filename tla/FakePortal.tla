----------------------------- MODULE FakePortal -----------------------------
(***************************************************************************)
(* The portal that Mir[AI]ge protects (services/fake_portal/main.py): it   *)
(* scores each address, flags the hostile ones, hands the requests of a    *)
(* flagged address to the Ghost Shell and reports the others to the        *)
(* Sentinel under the visitor's session cookie.                            *)
(*                                                                         *)
(* One asyncio process. A request is one task that runs the middleware up  *)
(* to its awaits: the proxied request to the ghost, and call_next, which   *)
(* runs the handler in a task of its own. Between them other requests and  *)
(* a reset run. Reports to the Sentinel are tasks nobody waits for and the *)
(* portal never hears of again: here they are what it has sent.            *)
(*                                                                         *)
(* Scores are in hundredths. Paths are the kinds the code tells apart.     *)
(***************************************************************************)
EXTENDS Naturals

CONSTANTS
  Visitors,           \* one address each
  None,
  Requests,           \* requests in progress at once
  SUSPICION_THRESHOLD, FLAG_TTL,
  Probe, Miss, Injection,                         \* the three amounts scored
  MaxTime, MaxRequests, MaxResets                 \* bounds

ASSUME PortalAssumption ==
  /\ None \notin Visitors \cup Nat
  /\ FLAG_TTL \in Nat /\ SUSPICION_THRESHOLD \in Nat \ {0}
  /\ {Probe, Miss, Injection} \subseteq Nat
  /\ {MaxTime, MaxRequests, MaxResets} \subseteq Nat

VARIABLES
  now,
  FLAGGED_IPS,     \* of each visitor: when his flag expires, or None
  IP_SUSPICION,    \* of each visitor: his score
  jar,             \* the cookie a visitor was set last, or 0
  issued,          \* the ids issued, numbered from 1
  req,             \* what each request is at
  reported,        \* the reports to the Sentinel
  seen, resets,    \* counters for the bounds
  caused           \* history: when a visitor was last due a flag, or None

flags   == <<FLAGGED_IPS, IP_SUSPICION, caused>>
cookies == <<jar, issued>>
vars    == <<now, flags, cookies, req, reported, seen, resets>>

-----------------------------------------------------------------------------
(* Types *)

\*   page     / and GET /login            login    POST /login with a marker of
\*   probe    a sensitive path                     injection
\*   missing  any other path without a    ack      the canary
\*            handler                     asset    /fonts, /assets
\*   favicon  /favicon.ico, which has     metrics  /metrics, which has none either
\*            none either                 health   /health
\*   plain    any other                   reset    /admin/reset with the secret
Paths == {"page", "plain", "probe", "missing", "login", "ack", "asset", "metrics",
          "favicon", "health", "reset"}

NeverProxied == {"health", "favicon", "reset"}
NotReported  == NeverProxied \cup {"metrics", "asset"}
NotFound     == {"missing", "metrics", "favicon"}    \* assets are not scored

\*   idle  proxied  serving (call_next awaited)  answering (it has returned)
Phases == {"idle", "proxied", "serving", "answering"}

Idle == [at |-> "idle"]

Progress ==
  [at: Phases \ {"idle"}, from: Visitors, path: Paths, cookie: Nat] \cup {Idle}

Reports == [kind: {"log", "canary"}, from: Visitors, sid: Nat]

TypeOK ==
  /\ now \in Nat /\ issued \in Nat /\ seen \in Nat /\ resets \in Nat
  /\ FLAGGED_IPS \in [Visitors -> Nat \cup {None}]
  /\ IP_SUSPICION \in [Visitors -> Nat]
  /\ jar \in [Visitors -> Nat]
  /\ req \in [Requests -> Progress]
  /\ reported \subseteq Reports
  /\ caused \in [Visitors -> Nat \cup {None}]

Init ==
  /\ now = 0 /\ issued = 0 /\ seen = 0 /\ resets = 0
  /\ FLAGGED_IPS = [v \in Visitors |-> None]
  /\ IP_SUSPICION = [v \in Visitors |-> 0]
  /\ jar = [v \in Visitors |-> 0]
  /\ req = [r \in Requests |-> Idle]
  /\ reported = {}
  /\ caused = [v \in Visitors |-> None]

-----------------------------------------------------------------------------
(* Flags and scores *)

\* Mutant: a flag that stands is not extended.
_flag_ip_Once(v) ==
  /\ FLAGGED_IPS' = [FLAGGED_IPS EXCEPT ![v] = IF @ = None THEN now + FLAG_TTL ELSE @]
  /\ caused' = [caused EXCEPT ![v] = now]

_flag_ip(v) ==
  /\ FLAGGED_IPS' = [FLAGGED_IPS EXCEPT ![v] = now + FLAG_TTL]
  /\ caused' = [caused EXCEPT ![v] = now]

Flagged(v) == FLAGGED_IPS[v] # None /\ FLAGGED_IPS[v] > now

\* A flag that has expired is dropped where it is looked up.
DropExpired(v) ==
  FLAGGED_IPS' = IF Flagged(v) THEN FLAGGED_IPS ELSE [FLAGGED_IPS EXCEPT ![v] = None]

\* Mutant: only the request that crosses the threshold flags.
_bump_suspicion_Crossing(v, amount) ==
  /\ IP_SUSPICION' = [IP_SUSPICION EXCEPT ![v] = @ + amount]
  /\ IF IP_SUSPICION[v] + amount >= SUSPICION_THRESHOLD
       THEN /\ FLAGGED_IPS' = IF IP_SUSPICION[v] >= SUSPICION_THRESHOLD THEN FLAGGED_IPS
                              ELSE [FLAGGED_IPS EXCEPT ![v] = now + FLAG_TTL]
            /\ caused' = [caused EXCEPT ![v] = now]
       ELSE UNCHANGED <<FLAGGED_IPS, caused>>

_bump_suspicion(v, amount) ==
  /\ IP_SUSPICION' = [IP_SUSPICION EXCEPT ![v] = @ + amount]
  /\ IF IP_SUSPICION[v] + amount >= SUSPICION_THRESHOLD
       THEN _flag_ip(v)
       ELSE UNCHANGED <<FLAGGED_IPS, caused>>

_spawn(kind, v, sid) ==
  reported' = reported \cup {[kind |-> kind, from |-> v, sid |-> sid]}

-----------------------------------------------------------------------------
(* A request *)

\* The middleware up to its first await. A client sends the cookie it was set, or
\* none.
Arrive(r, v, path, cookie) ==
  /\ req[r] = Idle /\ seen < MaxRequests
  /\ path = "reset" => resets < MaxResets
  /\ seen' = seen + 1
  /\ IF path \in NeverProxied THEN UNCHANGED FLAGGED_IPS ELSE DropExpired(v)
  /\ req' = [req EXCEPT ![r] =
       [at |-> IF path \notin NeverProxied /\ Flagged(v) THEN "proxied" ELSE "serving",
        from |-> v, path |-> path, cookie |-> cookie]]
  /\ UNCHANGED <<now, IP_SUSPICION, caused, cookies, reported, resets>>

\* The ghost answers, and its answer is returned as it is: no score, no report.
GhostAnswers(r) ==
  /\ req[r].at = "proxied"
  /\ req' = [req EXCEPT ![r] = Idle]
  /\ UNCHANGED <<now, flags, cookies, reported, seen, resets>>

\* The ghost has no such path, or cannot be reached: the portal serves after all.
FallBack(r) ==
  /\ req[r].at = "proxied"
  /\ req' = [req EXCEPT ![r].at = "serving"]
  /\ UNCHANGED <<now, flags, cookies, reported, seen, resets>>

\* The handler of a request runs.
Handles(r, paths) ==
  /\ req[r].at = "serving" /\ req[r].path \in paths
  /\ req' = [req EXCEPT ![r].at = "answering"]
  /\ UNCHANGED <<now, cookies, seen>>

Serve(r) ==
  /\ Handles(r, Paths \ {"login", "ack", "reset"})
  /\ UNCHANGED <<flags, reported, resets>>

LoginSubmit(r) ==
  /\ Handles(r, {"login"})
  /\ _bump_suspicion(req[r].from, Injection)
  /\ UNCHANGED <<reported, resets>>

AdminAcknowledge(r) ==
  /\ Handles(r, {"ack"})
  /\ _flag_ip(req[r].from)
  /\ _spawn("canary", req[r].from, req[r].cookie)
  /\ UNCHANGED <<IP_SUSPICION, resets>>

\* Mutant: the scores survive the reset.
ClearFlags_KeepsScores ==
  /\ FLAGGED_IPS' = [v \in Visitors |-> None] /\ caused' = [v \in Visitors |-> None]
  /\ UNCHANGED IP_SUSPICION

ClearFlags ==
  /\ FLAGGED_IPS' = [v \in Visitors |-> None] /\ caused' = [v \in Visitors |-> None]
  /\ IP_SUSPICION' = [v \in Visitors |-> 0]

AdminReset(r) ==
  /\ Handles(r, {"reset"})
  /\ ClearFlags
  /\ resets' = resets + 1
  /\ UNCHANGED reported

\* The session a request is reported under: that of its cookie or a new one.
Sid(r) == IF req[r].cookie # 0 THEN req[r].cookie ELSE issued + 1

\* The cookie is set on the pages only.
Identify(r) ==
  /\ issued' = IF req[r].cookie = 0 THEN issued + 1 ELSE issued
  /\ jar' = IF req[r].cookie = 0 /\ req[r].path \in {"page", "login"}
              THEN [jar EXCEPT ![req[r].from] = issued + 1] ELSE jar

Score(r) ==
  LET v == req[r].from
  IN  CASE req[r].path = "probe"     -> _bump_suspicion(v, Probe)
        [] req[r].path \in NotFound -> _bump_suspicion(v, Miss)
        [] OTHER -> UNCHANGED flags

\* The rest of the middleware, after call_next.
Answer(r) ==
  /\ req[r].at = "answering"
  /\ req' = [req EXCEPT ![r] = Idle]
  /\ Identify(r)
  /\ Score(r)
  /\ IF req[r].path \in NotReported THEN UNCHANGED reported
                               ELSE _spawn("log", req[r].from, Sid(r))
  /\ UNCHANGED <<now, seen, resets>>

Tick ==
  /\ now < MaxTime
  /\ now' = now + 1
  /\ UNCHANGED <<flags, cookies, req, reported, seen, resets>>

Next ==
  \/ \E r \in Requests, v \in Visitors, path \in Paths : \E cookie \in {0, jar[v]} :
       Arrive(r, v, path, cookie)
  \/ \E r \in Requests :
       \/ GhostAnswers(r) \/ FallBack(r)
       \/ Serve(r) \/ LoginSubmit(r) \/ AdminAcknowledge(r) \/ AdminReset(r)
       \/ Answer(r)
  \/ Tick

Spec == Init /\ [][Next]_vars

-----------------------------------------------------------------------------
(* Properties *)

\* From the last probe, miss or injection that left a visitor's score over the
\* threshold, or from his canary, his flag stands for its whole TTL: no lookup
\* drops it early, and one that expired is set again.
FlagStands ==
  \A v \in Visitors : caused[v] # None /\ now < caused[v] + FLAG_TTL => Flagged(v)

\* A visitor who is not due a flag has none: after a reset his past does not
\* count, and a score under the threshold never flags.
FlagHasCause ==
  \A v \in Visitors :
    /\ FLAGGED_IPS[v] # None => caused[v] # None
    /\ IP_SUSPICION[v] >= SUSPICION_THRESHOLD => caused[v] # None
=============================================================================
