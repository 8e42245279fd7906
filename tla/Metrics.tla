-------------------------------- MODULE Metrics --------------------------------
(***************************************************************************)
(* The metrics service (services/mirage_metrics): the tokens served to     *)
(* each trapped session, the LLM usage of the console's own attacks, and   *)
(* the dashboards' web sockets, to which every event pushes a snapshot.    *)
(*                                                                         *)
(* One asyncio process. A push is a task of its own: it takes its snapshot *)
(* when it starts and then walks the list of sockets by position, waiting  *)
(* for each to take the frame, while events and resets are handled, other  *)
(* pushes walk, and sockets enter and leave the list. Frames to one socket *)
(* are waited for in the order they were written.                          *)
(*                                                                         *)
(* Sockets are numbered in the order they connect.                         *)
(***************************************************************************)
EXTENDS Integers, FiniteSetsExt, SequencesExt, Functions, Lists

CONSTANTS
  Sessions,
  MaxSockets, MaxEvents, MaxResets   \* bounds

ASSUME MetricsAssumption ==
  /\ IsFiniteSet(Sessions)
  /\ MaxSockets \in Nat /\ MaxEvents \in Nat /\ MaxResets \in Nat

VARIABLES
  served,       \* AttackerCostTracker._sessions: of the sessions known, their tokens
  REAL_OVH,     \* the agents' usage: in all, and of the sessions known
  CONNECTED_WEBSOCKETS,
  serving,      \* the sockets whose handler runs
  closed,       \* the sockets whose connection is known to be lost
  spawned,      \* the pushes that have not started
  walks,        \* the pushes that have: the one that wrote last comes last
  got,          \* of the sockets that connected: the snapshot they were sent last
  events, resets,   \* counters for the bounds
  since,        \* history: the snapshots that were current since the last event
  disturbed     \* history: whether a socket left the list during a walk

usage   == <<served, REAL_OVH>>
sockets == <<CONNECTED_WEBSOCKETS, serving, closed>>
pushes  == <<spawned, walks, got>>
vars    == <<usage, sockets, pushes, events, resets, since, disturbed>>

-----------------------------------------------------------------------------
(* Types *)

Sockets == 1..MaxSockets

Snapshot == [active_sessions: Nat, tokens_served: Nat]

\* at: a position of the list; on: the socket waited for; dead: those that failed
Walk == [at: Nat \ {0}, on: Sockets, snap: Snapshot, dead: SUBSET Sockets]

TypeOK ==
  /\ DOMAIN served \subseteq Sessions /\ \A sid \in DOMAIN served : served[sid] \in Nat
  /\ REAL_OVH.total \in Nat /\ DOMAIN REAL_OVH.sessions \subseteq Sessions
  /\ CONNECTED_WEBSOCKETS \in Seq(Sockets) /\ IsInjective(CONNECTED_WEBSOCKETS)
  /\ serving \subseteq DOMAIN got /\ closed \subseteq DOMAIN got
  /\ spawned \in Nat /\ walks \in Seq(Walk)
  /\ got \in Seq(Snapshot) /\ Len(got) \in 0..MaxSockets
  /\ events \in Nat /\ resets \in Nat
  /\ since \subseteq Snapshot /\ disturbed \in BOOLEAN

total_all_sessions(tokens) == MapThenSumSet(LAMBDA sid : tokens[sid], DOMAIN tokens)

SnapshotOf(tokens) ==
  [active_sessions |-> Cardinality(DOMAIN tokens), tokens_served |-> total_all_sessions(tokens)]

_build_snapshot == SnapshotOf(served)

Init ==
  /\ served = <<>> /\ REAL_OVH = [total |-> 0, sessions |-> <<>>]
  /\ CONNECTED_WEBSOCKETS = <<>> /\ serving = {} /\ closed = {}
  /\ spawned = 0 /\ walks = <<>> /\ got = <<>>
  /\ events = 0 /\ resets = 0
  /\ since = {SnapshotOf(<<>>)} /\ disturbed = FALSE

-----------------------------------------------------------------------------
(* Events *)

Plus(f, sid, n) ==
  [s \in DOMAIN f \cup {sid} |-> (IF s \in DOMAIN f THEN f[s] ELSE 0) + (IF s = sid THEN n ELSE 0)]

Quiet == spawned = 0 /\ walks = <<>>

\* Every event spawns a push.
Event ==
  /\ events < MaxEvents /\ events' = events + 1
  /\ spawned' = spawned + 1
  /\ disturbed' = (disturbed /\ ~Quiet)
  /\ UNCHANGED <<sockets, walks, got, resets>>

PushTokenEvent(sid, tokens) ==
  /\ Event
  /\ served' = Plus(served, sid, tokens)
  /\ since' = {SnapshotOf(served')}
  /\ UNCHANGED REAL_OVH

Used(sid, n) ==
  [total |-> REAL_OVH.total + n, sessions |-> Plus(REAL_OVH.sessions, sid, n)]

PushAgentUsage(sid, n) ==
  /\ Event
  /\ REAL_OVH' = Used(sid, n)
  /\ since' = {_build_snapshot}
  /\ UNCHANGED served

\* Nothing is pushed: the dashboards learn of it at the next event.
AdminReset ==
  /\ resets < MaxResets /\ resets' = resets + 1
  /\ served' = <<>>
  /\ REAL_OVH' = [total |-> 0, sessions |-> <<>>]
  /\ since' = since \cup {SnapshotOf(<<>>)}
  /\ UNCHANGED <<sockets, pushes, events, disturbed>>

-----------------------------------------------------------------------------
(* Sockets *)

\* The list without the sockets of S, the walks that go on being ws.
Removes(S, ws) ==
  /\ CONNECTED_WEBSOCKETS' = Less(CONNECTED_WEBSOCKETS, S)
  /\ disturbed' = \/ disturbed
                  \/ ws # <<>> /\ \E i \in DOMAIN CONNECTED_WEBSOCKETS : CONNECTED_WEBSOCKETS[i] \in S

Greeting == _build_snapshot

\* Mutant: it is listed before and after it is accepted.
Joined_Twice(ws) == CONNECTED_WEBSOCKETS \o <<ws, ws>>

Joined(ws) == Append(CONNECTED_WEBSOCKETS, ws)

Connect(ws) ==
  /\ ws = Len(got) + 1
  /\ CONNECTED_WEBSOCKETS' = Joined(ws)
  /\ serving' = serving \cup {ws}
  /\ got' = Append(got, Greeting)
  /\ UNCHANGED <<usage, closed, spawned, walks, events, resets, since, disturbed>>

Close(ws) ==
  /\ ws \in serving \ closed
  /\ closed' = closed \cup {ws}
  /\ UNCHANGED <<usage, CONNECTED_WEBSOCKETS, serving, pushes, events, resets, since, disturbed>>

\* The handler finds out. A socket that a push has removed already makes the removal
\* fail, which ends the handler too.
\* Mutant: the removal is left to the pushes.
Forgets_Not(ws) == Removes({}, <<>>)

Forgets(ws) == Removes({ws}, walks)

Leave(ws) ==
  /\ ws \in closed \cap serving
  /\ serving' = serving \ {ws}
  /\ Forgets(ws)
  /\ UNCHANGED <<usage, closed, pushes, events, resets, since>>

-----------------------------------------------------------------------------
(* Pushes *)

\* What is left of walks when the walk w, of the pushes that go on, is at position i:
\* it writes to the socket there and waits, or ends and removes the dead.
Goes(w, i, others) ==
  IF i \in DOMAIN CONNECTED_WEBSOCKETS
    THEN LET ws == CONNECTED_WEBSOCKETS[i]
         IN  /\ walks' = Append(others, [w EXCEPT !.at = i, !.on = ws,
                                           !.dead = IF ws \in closed THEN @ \cup {ws} ELSE @])
             /\ got' = IF ws \in closed THEN got ELSE [got EXCEPT ![ws] = w.snap]
             /\ UNCHANGED <<CONNECTED_WEBSOCKETS, disturbed>>
  ELSE /\ walks' = others
       /\ Removes(w.dead, others)
       /\ UNCHANGED got

\* Mutant: a push is dropped while another one is under way.
Skips_Busy == walks # <<>>

Skips == CONNECTED_WEBSOCKETS = <<>>

Start ==
  /\ spawned > 0 /\ spawned' = spawned - 1
  /\ IF Skips THEN UNCHANGED <<walks, got, CONNECTED_WEBSOCKETS, disturbed>>
     ELSE Goes([at |-> 1, on |-> Head(CONNECTED_WEBSOCKETS), snap |-> _build_snapshot, dead |-> {}],
               1, walks)
  /\ UNCHANGED <<usage, serving, closed, events, resets, since>>

NextAt(i) == walks[i].at + 1

\* What the wait for a socket may make of a walk: the send fails, if the connection was
\* lost while it waited, or the frame is taken for sent.
Waited(w) ==
  {w} \cup IF w.on \in closed THEN {[w EXCEPT !.dead = @ \cup {w.on}]} ELSE {}

Continue(i) ==
  /\ i \in DOMAIN walks
  /\ \A j \in 1..(i - 1) : walks[j].on # walks[i].on
  /\ \E w \in Waited(walks[i]) : Goes(w, NextAt(i), RemoveAt(walks, i))
  /\ UNCHANGED <<usage, serving, closed, spawned, events, resets, since>>

Next ==
  \/ \E sid \in Sessions : PushTokenEvent(sid, 1) \/ PushAgentUsage(sid, 1)
  \/ AdminReset
  \/ \E ws \in Sockets : Connect(ws) \/ Close(ws) \/ Leave(ws)
  \/ Start
  \/ \E i \in 1..MaxEvents : Continue(i)

\* The event loop runs what is ready. A peer that takes no frame fails the server's
\* pings, so every wait ends.
Fairness ==
  /\ \A ws \in Sockets : WF_vars(Leave(ws))
  /\ WF_vars(Start)
  /\ \A i \in 1..MaxEvents : WF_vars(Continue(i))

Spec == Init /\ [][Next]_vars /\ Fairness

-----------------------------------------------------------------------------
(* Properties *)

\* When no push is under way every open dashboard shows what was current at the last
\* event or since, whatever the order pushes, connections and resets came in; except
\* when a socket left the list during a walk, which makes walks miss others.
QuietMeansFresh ==
  Quiet /\ ~disturbed =>
    \A i \in DOMAIN CONNECTED_WEBSOCKETS :
      CONNECTED_WEBSOCKETS[i] \notin closed => got[CONNECTED_WEBSOCKETS[i]] \in since

\* A socket that was lost does not stay in the list, whichever of its handler and the
\* pushes finds out first.
LostSocketsLeave ==
  \A ws \in Sockets :
    ws \in closed ~> \A i \in DOMAIN CONNECTED_WEBSOCKETS : CONNECTED_WEBSOCKETS[i] # ws
=============================================================================
