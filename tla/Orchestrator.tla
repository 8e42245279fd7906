---------------------------- MODULE Orchestrator ----------------------------
(***************************************************************************)
(* The orchestrator of Mir[AI]ge: one asyncio process that accepts attack  *)
(* signals (services/orchestrator/main.py) and drives each through the     *)
(* morph lifecycle (state_machine.py): allocate a decoy session, reroute   *)
(* the attacker, hold until the TTL, tear down. It runs on the in-memory   *)
(* store (MorphStore) and calls the MCP tools (McpTools) over HTTP.        *)
(*                                                                         *)
(* The event loop switches tasks only at an await that suspends, so every  *)
(* action below is the code between two such awaits. The in-memory store   *)
(* never suspends: a transition and its save are one step, and so is the   *)
(* whole of receive_signal after the body was read.                        *)
(*                                                                         *)
(* A tool call in flight is determined by the context of its morph, which  *)
(* nothing changes while it waits. A call its morph gave up on (the 30 s   *)
(* HTTP timeout, a cancellation, the 5 s bound on a rollback) may still be *)
(* running at the MCP server: it moves to `late` and may act at any time.  *)
(***************************************************************************)
EXTENDS MorphStore, McpTools

CONSTANTS
  AddressOf,       \* the attacker address of each request
  PolicyOf,        \* its policy name; None when the attacker has no cookie
  MAX_ACTIVE,                      \* capacity of the store
  MAX_THOUGHT_STEPS,               \* the fuse on attempts of one run
  MAX_CONSECUTIVE_TOOL_FAILURES,   \* the circuit breaker
  MaxLate,         \* bound: calls given up on by timeout that still run
  MaxResets        \* bound: demo resets

ASSUME OrchestratorAssumption ==
  /\ AddressOf \in [Ids -> Addresses]
  /\ PolicyOf \in [Ids -> Policies \cup {None}]
  /\ None \notin Policies
  /\ MAX_ACTIVE \in Nat
  /\ MAX_THOUGHT_STEPS \in Nat \ {0}
  /\ MAX_CONSECUTIVE_TOOL_FAILURES \in Nat \ {0}
  /\ MaxLate \in Nat /\ MaxResets \in Nat

VARIABLES
  up,                     \* the process accepts requests
  ACTIVE,                 \* the store
  request_id,             \* of each context, None until a signal creates it
  state,                  \* MorphState of each context
  ghost_session_id,       \* as recorded in the context, 0 for None
  lb_rule_id,             \* as recorded in the context, 0 for None or ""
  thought_steps,          \* locals of `run`
  consecutive_failures,
  task,                   \* where the _drive task of the context is suspended
  cancel,                 \* has the task been cancelled
  late,                   \* calls given up on that the server may still run
  resets,                 \* demo resets so far
  faults                  \* history: tools of which a call of this morph was
                          \* not answered with a success it fully carried out

ctxVars  == <<request_id, state, ghost_session_id, lb_rule_id>>
runVars  == <<thought_steps, consecutive_failures>>
vars     == <<up, ACTIVE, ctxVars, runVars, task, cancel, late, resets, faults,
              toolVars>>

-----------------------------------------------------------------------------
(* Types *)

MorphState == {"idle", "detecting", "assigning", "rerouting", "monitoring",
               "terminating", "error", "rollback"}

\* The context states of _TERMINAL.
Terminal == {"idle", "error"}

\* Where a task is suspended:
\*   none       no task yet           created  scheduled, not started
\*   calling    in a tool call of a step       backoff  asleep before a retry
\*   watching   in _monitoring        rolling  in the rollback of `run`
\*   unwinding  in the rollback of _drive's cancellation handler
TaskState == {"none", "created", "calling", "backoff", "watching", "rolling",
              "unwinding", "done"}

Calls == [tool: Tools, by: Morph, at: Nat, sid: Nat, rid: Nat]

\* Every variable has its type; a recorded rule is an identity, not a name.
TypeOK ==
  /\ up \in BOOLEAN
  /\ ACTIVE \in Stores
  /\ request_id \in [Morph -> Ids \cup {None}]
  /\ state \in [Morph -> MorphState]
  /\ ghost_session_id \in [Morph -> Nat]
  /\ lb_rule_id \in [Morph -> Nat]
  /\ thought_steps \in [Morph -> Nat]
  /\ consecutive_failures \in [Morph -> Nat]
  /\ task \in [Morph -> TaskState]
  /\ cancel \in [Morph -> {"no", "requested", "delivered"}]
  /\ late \in SUBSET Calls
  /\ resets \in Nat
  /\ faults \in [Morph -> SUBSET Tools]
  /\ ToolsTypeOK

Init ==
  /\ up = TRUE
  /\ ACTIVE = EmptyStore
  /\ request_id = [m \in Morph |-> None]
  /\ state = [m \in Morph |-> "idle"]
  /\ ghost_session_id = [m \in Morph |-> 0]
  /\ lb_rule_id = [m \in Morph |-> 0]
  /\ thought_steps = [m \in Morph |-> 0]
  /\ consecutive_failures = [m \in Morph |-> 0]
  /\ task = [m \in Morph |-> "none"]
  /\ cancel = [m \in Morph |-> "no"]
  /\ late = {}
  /\ resets = 0
  /\ faults = [m \in Morph |-> {}]
  /\ ToolsInit

-----------------------------------------------------------------------------
(* Helpers *)

\* A task is in _BG_TASKS from its creation until it ends.
InFlight(m) == task[m] \notin {"none", "done"}

\* The task runs its own code: no cancellation is pending on it.
Running(m, where) == task[m] = where /\ cancel[m] # "requested"

\* The tool call a suspended task waits for.
Waiting(m) == task[m] \in {"calling", "rolling", "unwinding"}

ToolOf(m) ==
  IF task[m] = "calling" /\ state[m] = "assigning" THEN "route_to_ghost_shell"
  ELSE IF task[m] = "calling" /\ state[m] = "rerouting" THEN "reroute_lb"
  ELSE "terminate_honeypot"

CallOf(m) ==
  [tool |-> ToolOf(m), by |-> m, at |-> thought_steps[m],
   sid |-> ghost_session_id[m], rid |-> lb_rule_id[m]]

\* _to(ctx, s): the context changes state and is saved.
To(m, s) ==
  /\ state' = [state EXCEPT ![m] = s]
  /\ ACTIVE' = Put(ACTIVE, request_id[m], m)

Suspend(m, where) == task' = [task EXCEPT ![m] = where]

Fault(m, tool) == faults' = [faults EXCEPT ![m] = @ \cup {tool}]

\* Mutant: a cancelled morph just ends, as before _drive caught CancelledError.
StartRollback_NotOnCancel(m, where, sid) ==
  IF sid # 0 /\ where = "rolling"
    THEN To(m, "rollback") /\ Suspend(m, where)
    ELSE To(m, "error") /\ Suspend(m, "done")

\* Mutant: nothing is terminated unless a rule is on record.
StartRollback_NeedsRule(m, where, sid) ==
  IF sid # 0 /\ lb_rule_id[m] # 0
    THEN To(m, "rollback") /\ Suspend(m, where)
    ELSE To(m, "error") /\ Suspend(m, "done")

\* _rollback(ctx) up to its tool call, suspended in `where`; `sid` is the
\* session on record. Without one there is nothing to call and the context goes
\* on to ERROR.
StartRollback(m, where, sid) ==
  IF sid # 0
    THEN To(m, "rollback") /\ Suspend(m, where)
    ELSE To(m, "error") /\ Suspend(m, "done")

\* One turn of the loop of `run` up to the await of step s: the fuse, then the
\* transition of the step and its tool call or its sleep.
Attempt(m, s, sid) ==
  IF thought_steps[m] >= MAX_THOUGHT_STEPS
    THEN StartRollback(m, "rolling", sid) /\ UNCHANGED thought_steps
    ELSE /\ thought_steps' = [thought_steps EXCEPT ![m] = @ + 1]
         /\ To(m, s)
         /\ Suspend(m, IF s = "monitoring" THEN "watching" ELSE "calling")

-----------------------------------------------------------------------------
(* HTTP endpoints *)

\* Mutant: the idempotence check always misses.
Duplicate_Missed(i) == FALSE

\* A signal whose request is tracked is answered "duplicate".
Duplicate(i) == i \in Keys(ACTIVE)

\* POST /signal with a valid signature, for a request not tracked: the context
\* is registered, the store is trimmed to its capacity and the task is
\* created. A duplicate changes nothing. A new context is IDLE until its task
\* starts.
ReceiveSignal(m, i) ==
  LET added    == Put(ACTIVE, i, m)
      terminal == {x \in Morph : state[x] \in Terminal}
  IN  /\ up
      /\ task[m] = "none"
      /\ ~Duplicate(i)
      /\ request_id' = [request_id EXCEPT ![m] = i]
      /\ ACTIVE' = IF Cardinality(Keys(added)) > MAX_ACTIVE
                     THEN evict_terminal(added, MAX_ACTIVE, terminal)
                     ELSE added
      /\ Suspend(m, "created")
      /\ UNCHANGED <<up, state, ghost_session_id, lb_rule_id, runVars, cancel,
                     late, resets, faults, toolVars>>

\* Mutant: nobody cancels the tasks.
CancelAll_Forgotten == UNCHANGED cancel

\* cancel() on every task of _BG_TASKS.
CancelAll ==
  cancel' = [m \in Morph |-> IF InFlight(m) THEN "requested" ELSE cancel[m]]

\* POST /admin/reset: the store is cleared, then the tasks are cancelled.
AdminReset ==
  /\ up
  /\ resets < MaxResets
  /\ resets' = resets + 1
  /\ ACTIVE' = EmptyStore
  /\ CancelAll
  /\ UNCHANGED <<up, ctxVars, runVars, task, late, faults, toolVars>>

\* lifespan: the server stops accepting requests and cancels the tasks, then
\* waits for them. The 10 s bound is not met: a rollback takes at most 5 s.
Shutdown ==
  /\ up
  /\ up' = FALSE
  /\ CancelAll
  /\ UNCHANGED <<ACTIVE, ctxVars, runVars, task, late, resets, faults, toolVars>>

-----------------------------------------------------------------------------
(* The task of one morph: `run` and its steps *)

\* Mutant: the early return forgets the transition back to IDLE.
BelowGate_StaysDetecting(m) ==
  /\ Running(m, "created")
  /\ To(m, "detecting")
  /\ Suspend(m, "done")
  /\ UNCHANGED <<up, request_id, ghost_session_id, lb_rule_id, runVars, cancel,
                 late, resets, faults, toolVars>>

\* `run` starts on a signal under the confidence gate: DETECTING, then IDLE.
BelowGate(m) ==
  /\ Running(m, "created")
  /\ To(m, "idle")
  /\ Suspend(m, "done")
  /\ UNCHANGED <<up, request_id, ghost_session_id, lb_rule_id, runVars, cancel,
                 late, resets, faults, toolVars>>

\* `run` starts on a signal that passes the gate: the first turn of its loop.
Engage(m) ==
  /\ Running(m, "created")
  /\ Attempt(m, "assigning", 0)
  /\ UNCHANGED <<up, request_id, ghost_session_id, lb_rule_id,
                 consecutive_failures, cancel, late, resets, faults, toolVars>>

\* Tool 1 answers: the session is recorded and `run` goes on to the reroute.
Assigned(m) ==
  /\ Running(m, "calling") /\ state[m] = "assigning"
  /\ RouteToGhostShell(AddressOf[request_id[m]])
  /\ LET sid == session'[AddressOf[request_id[m]]]
     IN  /\ ghost_session_id' = [ghost_session_id EXCEPT ![m] = sid]
         /\ consecutive_failures' = [consecutive_failures EXCEPT ![m] = 0]
         /\ Attempt(m, "rerouting", sid)
  /\ UNCHANGED <<up, request_id, lb_rule_id, cancel, late, resets, faults>>

\* Tool 2 answers: the rule is recorded and `run` goes on to the monitoring.
Rerouted(m) ==
  /\ Running(m, "calling") /\ state[m] = "rerouting"
  /\ \E rid \in RuleIds :
       /\ RerouteLb(PolicyOf[request_id[m]], rid)
       /\ lb_rule_id' = [lb_rule_id EXCEPT ![m] = rid]
  /\ consecutive_failures' = [consecutive_failures EXCEPT ![m] = 0]
  /\ Attempt(m, "monitoring", ghost_session_id[m])
  /\ UNCHANGED <<up, request_id, ghost_session_id, cancel, late, resets, faults>>

\* The TTL has elapsed: _monitoring returns and `run` goes on to the teardown.
Watched(m) ==
  /\ Running(m, "watching")
  /\ consecutive_failures' = [consecutive_failures EXCEPT ![m] = 0]
  /\ Attempt(m, "terminating", ghost_session_id[m])
  /\ UNCHANGED <<up, request_id, ghost_session_id, lb_rule_id, cancel, late,
                 resets, faults, toolVars>>

\* Tool 3 answers with a success, which it also does when the deletion of the
\* policy was refused.
TerminateSucceeds(m) ==
  \/ TerminateHoneypot(ghost_session_id[m], lb_rule_id[m]) /\ UNCHANGED faults
  \/ /\ lb_rule_id[m] # 0
     /\ TerminateHalfway(ghost_session_id[m])
     /\ Fault(m, "terminate_honeypot")

\* _terminating returns: the context is IDLE again and the task ends.
Terminated(m) ==
  /\ Running(m, "calling") /\ state[m] = "terminating"
  /\ TerminateSucceeds(m)
  /\ To(m, "idle")
  /\ consecutive_failures' = [consecutive_failures EXCEPT ![m] = 0]
  /\ Suspend(m, "done")
  /\ UNCHANGED <<up, request_id, ghost_session_id, lb_rule_id, thought_steps,
                 cancel, late, resets>>

-----------------------------------------------------------------------------
(* Failing calls *)

\* What a call that is not answered with a success does at the server.
Perform(c) ==
  \/ /\ c.tool = "route_to_ghost_shell"
     /\ RouteToGhostShell(AddressOf[request_id[c.by]])
  \/ /\ c.tool = "reroute_lb"
     /\ \/ \E rid \in RuleIds : RerouteLb(PolicyOf[request_id[c.by]], rid)
        \/ RerouteHalfway(PolicyOf[request_id[c.by]])
  \/ /\ c.tool = "terminate_honeypot"
     /\ TerminateHoneypot(c.sid, c.rid) \/ TerminateHalfway(c.sid)

\* The call of m is answered with an error: a transport error, a JSON-RPC error
\* or an answer that does not validate. It may have been carried out or not.
ErrorAnswer(m) ==
  /\ Perform(CallOf(m)) \/ UNCHANGED toolVars
  /\ Fault(m, ToolOf(m))
  /\ UNCHANGED late

\* m stops waiting for its call, which goes on at the server.
GiveUp(m) ==
  /\ late' = late \cup {CallOf(m)}
  /\ Fault(m, ToolOf(m))
  /\ UNCHANGED toolVars

\* The 30 s timeout of the HTTP client.
TimesOut(m) == Cardinality(late) < MaxLate /\ GiveUp(m)

\* Mutant: the breaker opens one failure too late.
CircuitBreaks_OffByOne(m) == consecutive_failures[m] + 1 > MAX_CONSECUTIVE_TOOL_FAILURES

\* One more failure opens the circuit breaker.
CircuitBreaks(m) == consecutive_failures[m] + 1 >= MAX_CONSECUTIVE_TOOL_FAILURES

\* A step raises: the circuit breaker, or a sleep before the next attempt.
StepFails(m) ==
  /\ Running(m, "calling")
  /\ ErrorAnswer(m) \/ TimesOut(m)
  /\ consecutive_failures' = [consecutive_failures EXCEPT ![m] = @ + 1]
  /\ IF CircuitBreaks(m)
       THEN StartRollback(m, "rolling", ghost_session_id[m])
       ELSE Suspend(m, "backoff") /\ UNCHANGED <<state, ACTIVE>>
  /\ UNCHANGED <<up, request_id, ghost_session_id, lb_rule_id, thought_steps,
                 cancel, resets>>

\* Mutant: a retry starts the run over.
Retry_FromTheStart(m) ==
  /\ Running(m, "backoff")
  /\ Attempt(m, "assigning", ghost_session_id[m])
  /\ UNCHANGED <<up, request_id, ghost_session_id, lb_rule_id,
                 consecutive_failures, cancel, late, resets, faults, toolVars>>

\* Mutant: retries move into the step, which counts neither attempts nor failures.
Retry_Uncounted(m) ==
  /\ Running(m, "backoff")
  /\ To(m, state[m])
  /\ Suspend(m, "calling")
  /\ consecutive_failures' = [consecutive_failures EXCEPT ![m] = 0]
  /\ UNCHANGED <<up, request_id, ghost_session_id, lb_rule_id, thought_steps,
                 cancel, late, resets, faults, toolVars>>

\* The backoff is over: another attempt at the step the context is in.
Retry(m) ==
  /\ Running(m, "backoff")
  /\ Attempt(m, state[m], ghost_session_id[m])
  /\ UNCHANGED <<up, request_id, ghost_session_id, lb_rule_id,
                 consecutive_failures, cancel, late, resets, faults, toolVars>>

\* The tool call of a rollback ends, in whatever way: the context is in ERROR
\* and the task ends. The 30 s timeout is never met under the 5 s of unwinding.
RolledBack(m) ==
  /\ Running(m, "rolling") \/ Running(m, "unwinding")
  /\ \/ TerminateSucceeds(m) /\ UNCHANGED late
     \/ ErrorAnswer(m)
     \/ task[m] = "rolling" /\ TimesOut(m)
  /\ To(m, "error")
  /\ Suspend(m, "done")
  /\ UNCHANGED <<up, request_id, ghost_session_id, lb_rule_id, runVars, cancel,
                 resets>>

-----------------------------------------------------------------------------
(* Cancellation: _drive's handler *)

\* CancelledError is raised at the await where the task is suspended. A task
\* that never started just ends; one that is already unwinding ends without
\* leaving ROLLBACK; any other starts a rollback, even from a rollback of `run`.
Cancelled(m) ==
  /\ InFlight(m) /\ cancel[m] = "requested"
  /\ cancel' = [cancel EXCEPT ![m] = "delivered"]
  /\ IF Waiting(m) THEN GiveUp(m) ELSE UNCHANGED <<late, faults, toolVars>>
  /\ IF task[m] \in {"created", "unwinding"}
       THEN Suspend(m, "done") /\ UNCHANGED <<state, ACTIVE>>
       ELSE StartRollback(m, "unwinding", ghost_session_id[m])
  /\ UNCHANGED <<up, request_id, ghost_session_id, lb_rule_id, runVars, resets>>

\* The 5 s bound on the rollback of the handler: the context stays in ROLLBACK.
UnwindingTimesOut(m) ==
  /\ Running(m, "unwinding")
  /\ TimesOut(m)
  /\ Suspend(m, "done")
  /\ UNCHANGED <<up, ACTIVE, ctxVars, runVars, cancel, resets>>

-----------------------------------------------------------------------------
(* The rest of the world *)

\* A call its morph gave up on is carried out after all, side by side with the calls
\* that came later.
LateCall(c) ==
  /\ c \in late
  /\ late' = late \ {c}
  /\ \/ Perform(c)
     \/ c.tool = "reroute_lb" /\ RerouteStale(PolicyOf[request_id[c.by]])
  /\ UNCHANGED <<up, ACTIVE, ctxVars, runVars, task, cancel, resets, faults>>

GhostShellActs(a) ==
  /\ SessionExpires(a) \/ Visit(a)
  /\ UNCHANGED <<up, ACTIVE, ctxVars, runVars, task, cancel, late, resets, faults>>

ReroutePurged(p) ==
  /\ PurgePolicy(p)
  /\ UNCHANGED <<up, ACTIVE, ctxVars, runVars, task, cancel, late, resets, faults>>

Step(m) ==
  \/ BelowGate(m) \/ Engage(m)
  \/ Assigned(m) \/ Rerouted(m) \/ Watched(m) \/ Terminated(m)
  \/ StepFails(m) \/ Retry(m) \/ RolledBack(m)
  \/ Cancelled(m) \/ UnwindingTimesOut(m)

Next ==
  \/ \E m \in Morph, i \in Ids : ReceiveSignal(m, i)
  \/ \E m \in Morph : Step(m)
  \/ AdminReset
  \/ Shutdown
  \/ \E c \in late : LateCall(c)
  \/ \E a \in Addresses : GhostShellActs(a)
  \/ \E p \in Policies : ReroutePurged(p)

Spec == Init /\ [][Next]_vars

\* The event loop runs every ready task, every sleep ends and every call is
\* answered or times out, so a task that can take a step takes one. Signals,
\* resets, the shutdown, late calls, expiries and visits may never come.
FairSpec == Spec /\ \A m \in Morph : WF_vars(Step(m))

-----------------------------------------------------------------------------
(* The documented life cycle, implemented *)

PhaseOf(m) ==
  CASE task[m] = "none"    -> "none"
    [] task[m] = "created" -> "waiting"
    [] InFlight(m) /\ task[m] # "created"      -> state[m]
    [] task[m] = "done" /\ state[m] = "idle"     -> "closed"
    [] task[m] = "done" /\ state[m] = "error"    -> "failed"
    [] task[m] = "done" /\ state[m] = "rollback" -> "abandoned"

Lifecycle == INSTANCE MorphLifecycle WITH phase <- [m \in Morph |-> PhaseOf(m)]

\* Every engagement follows the documented life cycle; in particular none that
\* may have rerouted its attacker ends without an attempt at the teardown,
\* whichever await an error or a cancellation hits.
ImplementsLifecycle == Lifecycle!Spec

-----------------------------------------------------------------------------
(* Properties *)

\* Attempts of one run: every tool step fails at most one time less than the
\* breaker allows before it succeeds, and monitoring cannot fail. With the
\* constants of state_machine.py that is 10, so MAX_THOUGHT_STEPS = 15 is a
\* second fuse that never blows (run, lines 84-118).
ThoughtBudget ==
  \A m \in Morph : thought_steps[m] <= 3 * MAX_CONSECUTIVE_TOOL_FAILURES + 1

\* At an MCP server that has the load balancer's id, every reroute policy that stands
\* is accounted for: the task that will remove it still runs and has it on record, or
\* some call of a morph of the same request went wrong. So an engagement whose calls all
\* succeed leaves nothing behind, however it ends: torn down, rolled back or cancelled
\* at any await.
PoliciesAccountedFor ==
  LB_ID => \A x \in policies :
    \E m \in Morph :
      /\ request_id[m] # None /\ PolicyOf[request_id[m]] = x.name
      /\ \/ InFlight(m) /\ lb_rule_id[m] = x.id
         \/ faults[m] \cap {"reroute_lb", "terminate_honeypot"} # {}

\* The same of the decoy sessions that tool 1 handed out: one that is live belongs
\* to a running task that has it on record, or to a morph some call of which went
\* wrong.
SessionsAccountedFor ==
  \A a \in leased :
    \E m \in Morph :
      /\ request_id[m] # None /\ AddressOf[request_id[m]] = a
      /\ \/ InFlight(m) /\ ghost_session_id[m] = session[a]
         \/ faults[m] \cap {"route_to_ghost_shell", "terminate_honeypot"} # {}

\* An engagement that has not been cancelled.
Live(m) == InFlight(m) /\ cancel[m] = "no"

\* A live engagement is tracked under its request id: that is what answers
\* "duplicate" and /state while it runs. It holds while the store has room: a full
\* one may evict the signal it has just accepted, whose context is still IDLE.
LiveIsTracked ==
  \A m \in Morph : Live(m) => request_id[m] \in Keys(ACTIVE)

\* Idempotence by request_id (receive_signal, step 4): never two live
\* engagements of one request.
OneEngagementPerRequest ==
  \A m, n \in Morph :
    Live(m) /\ Live(n) /\ request_id[m] = request_id[n] => m = n

\* A full store evicts nothing whose task has started: a request whose entry is the
\* context of a started live engagement stays tracked as long as that lives
\* (evict_terminal). The entry has to be its own: a signal evicted on arrival may be
\* accepted again, and the entry is then whichever context was saved last.
StartedStaysTracked ==
  [][\A m \in Morph :
       /\ Live(m) /\ task[m] # "created" /\ Live(m)'
       /\ ACTIVE.ctx[request_id[m]] = m
       => request_id[m] \in Keys(ACTIVE)']_vars

\* A task that was not cancelled ends in a state evict_terminal can free:
\* ROLLBACK is left behind only by the handler of a cancellation.
EndsEvictable ==
  \A m \in Morph :
    task[m] = "done" /\ cancel[m] = "no" => state[m] \in Terminal

\* Every accepted signal is driven to an end: the breaker bounds the retries
\* and a cancellation bounds the rollback (run, _drive).
EveryMorphEnds ==
  \A m \in Morph : task[m] = "created" ~> task[m] = "done"
=============================================================================
