------------------------------ MODULE McpTools ------------------------------
(***************************************************************************)
(* The three MCP tools and the infrastructure they change                  *)
(* (services/mcp_server/server.py and backends/): the Ghost Shell's decoy  *)
(* sessions and the load balancer's reroute policies.                      *)
(*                                                                         *)
(* Both resources follow one pattern. A tool that allocates looks one up   *)
(* by a key (the attacker's address for a session, the request for a       *)
(* policy), returns it when it is there and creates it otherwise; the tool *)
(* that frees deletes by identity, and deleting what is gone is a success. *)
(* Identities are uuids in the code: here they are numbers drawn from a    *)
(* counter, 0 standing for "no such resource" (None or "" in the code).    *)
(* The policies are those of the Octavia backend, which have no TTL. They  *)
(* are found by name, and nothing keeps a name unique; the name is taken   *)
(* to identify the request. A tool call is one step, but for a call that   *)
(* acts late, whose lookup may be as old as it likes.                      *)
(***************************************************************************)
EXTENDS Naturals, FiniteSets

CONSTANTS
  Addresses,   \* attacker addresses
  Policies,    \* policy names, one per request that carries a session cookie
  LB_ID,       \* has the MCP server the id of its load balancer (env LB_ID)
  MaxPolicies, \* bound: policies that stand at a time
  MaxMinted    \* bound: identities in existence when a visit opens a session

ASSUME McpToolsAssumption == LB_ID \in BOOLEAN /\ MaxPolicies \in Nat /\ MaxMinted \in Nat

VARIABLES
  session,   \* the live Ghost Shell session of each address, 0 if none
  leased,    \* addresses whose live session was handed out by tool 1
  policies,  \* the L7 policies; one that was created but has no rule is not `ruled`
  minted     \* identities handed out so far

toolVars == <<session, leased, policies, minted>>

Tools == {"route_to_ghost_shell", "reroute_lb", "terminate_honeypot"}

ToolsTypeOK ==
  /\ session \in [Addresses -> Nat]
  /\ leased \in SUBSET {a \in Addresses : session[a] # 0}
  /\ policies \subseteq [name: Policies, id: Nat \ {0}, ruled: BOOLEAN]
  /\ minted \in Nat

ToolsInit ==
  /\ session = [a \in Addresses |-> 0] /\ leased = {}
  /\ policies = {}
  /\ minted = 0

-----------------------------------------------------------------------------
(* Ghost Shell *)

\* The live session of an address, opened when there is none: the lookup of the Redis
\* store, with one persona and no faults. GhostSessions has both stores, and all of it.
GetOrCreate(a) ==
  IF session[a] # 0
    THEN UNCHANGED <<session, minted>>
    ELSE /\ minted' = minted + 1
         /\ session' = [session EXCEPT ![a] = minted + 1]

\* Tool 1: POST /sessions, which reuses the live session of the address.
RouteToGhostShell(a) ==
  /\ GetOrCreate(a)
  /\ leased' = leased \cup {a}
  /\ UNCHANGED policies

\* A request of the attacker that reaches the Ghost Shell opens a session for
\* his address by itself.
Visit(a) ==
  /\ session[a] = 0 /\ minted < MaxMinted
  /\ GetOrCreate(a)
  /\ UNCHANGED <<leased, policies>>

\* A session reaches its TTL.
SessionExpires(a) ==
  /\ session[a] # 0
  /\ session' = [session EXCEPT ![a] = 0]
  /\ leased' = leased \ {a}
  /\ UNCHANGED <<policies, minted>>

\* The Ghost Shell's half of tool 3: a session that is gone is a 404, which the
\* backend takes for success.
EndSession(sid) ==
  /\ session' = [a \in Addresses |-> IF session[a] = sid THEN 0 ELSE session[a]]
  /\ leased' = {a \in leased : session[a] # sid}

-----------------------------------------------------------------------------
(* Load balancer *)

Named(p) == {x \in policies : x.name = p}

\* A policy of that name is created, with its rule or without, and `gone` are deleted.
CreatePolicy(p, ruled, gone) ==
  /\ Cardinality(policies \ gone) < MaxPolicies
  /\ minted' = minted + 1
  /\ policies' = (policies \ gone) \cup {[name |-> p, id |-> minted + 1, ruled |-> ruled]}

\* What is deleted before a policy is created: nothing when there is none of that name,
\* otherwise one that was found without a rule, unless its deletion fails.
Replaced(p) ==
  IF Named(p) = {} THEN {{}} ELSE UNION {{{}, {x}} : x \in {y \in Named(p) : ~y.ruled}}

\* The rule ids tool 2 may answer with.
RuleIds == {0, minted + 1} \cup {x.id : x \in policies}

\* Tool 2 answers with rid. The policy of the request is reused when it has its rule, or
\* its rules cannot be read; one that has none is replaced. A request with no session
\* cookie names no policy: the tool succeeds and changes nothing.
RerouteLb(p, rid) ==
  /\ \/ p \notin Policies /\ rid = 0 /\ UNCHANGED <<policies, minted>>
     \/ (\E x \in Named(p) : rid = x.id) /\ UNCHANGED <<policies, minted>>
     \/ /\ p \in Policies /\ rid = minted + 1
        /\ \E gone \in Replaced(p) : CreatePolicy(p, TRUE, gone)
  /\ UNCHANGED <<session, leased>>

\* Tool 2 fails between its calls to Octavia: the policy was created without its
\* rule, or an earlier one without a rule was deleted and none created.
RerouteHalfway(p) ==
  /\ p \in Policies
  /\ \E gone \in Replaced(p) :
       \/ CreatePolicy(p, FALSE, gone)
       \/ policies' = policies \ gone /\ UNCHANGED minted
  /\ UNCHANGED <<session, leased>>

\* Tool 2 in another thread of the executor, which looked up the policy before the last
\* calls of the same request: it creates one though there is one by now, or deletes one
\* that has got its rule since.
RerouteStale(p) ==
  /\ p \in Policies
  /\ \E gone \in {{}} \cup {{x} : x \in Named(p)} :
       \/ \E ruled \in BOOLEAN : CreatePolicy(p, ruled, gone)
       \/ policies' = policies \ gone /\ UNCHANGED minted
  /\ UNCHANGED <<session, leased>>

DeletePolicy(rid) == policies' = {x \in policies : x.id # rid}

\* The half of tool 3 that frees the policy: without the load balancer's id nothing is
\* deleted, which is a success all the same.
CleanupLbRule(rid) ==
  IF rid # 0 /\ LB_ID THEN DeletePolicy(rid) ELSE UNCHANGED policies

\* One turn of the loop of the purge that a demo reset of the MCP server runs.
PurgePolicy(p) ==
  /\ \E x \in Named(p) : DeletePolicy(x.id)
  /\ UNCHANGED <<session, leased, minted>>

-----------------------------------------------------------------------------
(* Tool 3 *)

\* Mutant: a session that is gone is an error, and the policy is not looked at.
TerminateHoneypot_StopsAt404(sid, rid) ==
  /\ EndSession(sid)
  /\ IF \E a \in Addresses : session[a] = sid
       THEN CleanupLbRule(rid)
       ELSE UNCHANGED policies
  /\ UNCHANGED minted

\* The session first, then the policy.
TerminateHoneypot(sid, rid) ==
  /\ EndSession(sid)
  /\ CleanupLbRule(rid)
  /\ UNCHANGED minted

\* Tool 3 carried out by half: the session is gone and the policy stands. The
\* caller is told of an error when the Ghost Shell's answer was lost, and of
\* success when Octavia refused the deletion, which the backend swallows.
TerminateHalfway(sid) ==
  /\ EndSession(sid)
  /\ UNCHANGED <<policies, minted>>
=============================================================================
