# Mir[AI]ge in TLA+

Mir[AI]ge is a honeypot. It detects an attacker in the traffic of a portal,
decides to engage him, moves his session to a decoy that looks like the portal,
watches him there and, after a while, gives everything back. This directory
models the services that detect, decide, allocate, serve the decoy and give back, and
the console they are run from, checks them with TLC on small instances and proves the
safety properties with TLAPS for every instance. Paths below are
relative to `src/`, and those of services to `src/services/`.

Contents: 1 the system, 2 the modules, 3 the properties, 4 the runs,
5 bounds, symmetry, deadlock and fairness, 6 the proofs, 7 disagreements with the
documentation, 8 what is not modelled, 9 what is left.

## 1. The system

    attacker -> proxy -> fake portal --(logs)--> sentinel --(signal)--> orchestrator
                  |                                                        |  MCP tools
                  |  flagged sessions                                      v
                  +--------> ghost shell <--(sessions, policies)-- MCP server -> Octavia / Redis

| Component | State it keeps | Operations | Talks to |
|---|---|---|---|
| Orchestrator (`orchestrator/main.py`, `state_machine.py`) | a `MorphContext` per accepted signal, the tasks in `_BG_TASKS`, the locals of `run` | `POST /signal`, `POST /admin/reset`, shutdown, the task `_drive` and its steps, retries, circuit breaker, rollback, cancellation | store, MCP client |
| Morph store (`orchestrator/store.py`) | request id -> context, in insertion order; a dict, or a Redis hash and list | `contains`, `add`, `save`, `evict_terminal`, `clear` | Redis |
| MCP client (`orchestrator/mcp_client.py`) | the token bucket `_tokens`, `_last` and its lock | `acquire`, `_call` with a 30 s timeout | MCP server, over HTTP |
| MCP server (`mcp_server/server.py`, `backends/`) | none of its own; Octavia's policies or Redis flags | `route_to_ghost_shell`, `reroute_lb`, `terminate_honeypot`, purge | ghost shell, Octavia, Redis |
| Ghost shell (`ghost_shell/main.py`, `session_state.py`) | decoy sessions with a TTL, an index by address | open or reuse, touch, terminate, expire; decoy content | metrics, MCP server's calls |
| Sentinel (`sentinel/`) | event windows, cooldowns, counters, emitted incidents | `ingest_logs`, `canary_hit`, `_emit_signal`, reset | orchestrator |
| Fake portal (`fake_portal/main.py`) | suspicion scores, flags with a TTL | the middleware's decision per request, flag, reset | sentinel, Redis |
| Inline proxy (`deploy/proxy/inline/*.lua`) | reads flags | route by flag | Redis |
| Metrics (`mirage_metrics/main.py`) | counters, a list of sockets | push, usage, reset, broadcast | the web front end |
| API gateway (`api/`) | users, tokens, login attempts per address, attack runs | login, user administration, rate limit, launch and reap attacks | every service's reset |
| Shared (`shared/`) | none | signatures, schemas, secrets, logging | all |

### Where it is hard

* **Cancellation at any await.** A morph is an asyncio task with a dozen places to
  be suspended. A reset or a shutdown cancels it at whichever it is in; what it
  has allocated by then must be given back by a rollback that runs inside the
  handler of the cancellation, under a bound of 5 s, and can itself be cancelled.
* **Calls that outlive their caller.** The orchestrator gives up on a call after
  30 s or because it is cancelled. The MCP server does not know and may carry it
  out later, after the retry, or after the rollback.
* **Partial failure.** A tool is several calls to other services; any of them can
  fail after the ones before it took effect.
* **Retries with two counters.** A breaker per step and a fuse per run.
* **A store with a capacity** whose eviction must spare what is in use, while
  idempotence relies on what it still holds.
* **Sharing.** Sessions are reused by address, so one engagement's teardown may
  end another's session.
* **Several instances, restarts** (Redis store): check and registration are
  separate round trips; a crash leaves morphs nobody drives.
* **Windows and cooldowns** in the Sentinel that are read before an await and
  changed after it.
* **Shared lists and limits** in the API and Metrics services read on one side of
  an await and changed on the other.

### What makes each component correct

* Orchestrator: an engagement follows the documented life cycle; whatever hits it,
  the decoy session and the reroute policy it obtained are given back or are
  accounted for by a call that went wrong; a request has one engagement at a time;
  every accepted signal is driven to an end; attempts are bounded.
* Store: eviction forgets nothing that is in use; an entry is not left behind that
  can never be evicted.
* Rate limiter: a bound on the calls in any window, however they queue and cancel.
* MCP tools: a tool called again after a lost answer allocates no second resource;
  freeing what is gone succeeds and does not stop the rest of the teardown.
* Ghost shell: one live session per address and persona; ending an old session
  never hides a new one.
* Sentinel: every event that is handled to its end is counted by exactly one tier; at
  most one signal per address and cooldown.
* Fake portal: a flagged client is served the decoy until its flag ends.
* API: limits hold under concurrent requests; a role that was taken away is not
  exercised for longer than a token lives.
* Metrics: every connected socket gets every snapshot, none is visited twice.

`PROJECT.json` lists the hazards of this kind at the line where each bites, with
the properties that cover it, or why none does. Some more are known that no property
here is about:

* a signal that could not be delivered is not sent again (`sentinel/main.py:230`);
* the window of a visitor is cleared for a verdict on an earlier snapshot of it
  (`sentinel/main.py:437`), which drops what came in between unjudged;
* while an address is flagged its requests are not reported, so the Sentinel is blind
  to it (`fake_portal/main.py:504`);
* a policy in PENDING_UPDATE refuses its deletion, which is logged and answered as
  done (`mcp_server/backends/octavia.py:148`);
* tool 3 on an old session deletes the index of a newer one (`session_state.py:137`);
* the percentile of the pauses is by position and, among twenty pauses or fewer,
  is the longest (`sentinel/tier1.py:98`).

## 2. The modules

    MorphStore ----+                                             MorphLifecycle
                   +--> Orchestrator --> MCOrchestrator             ^
    McpTools ------+       |  INSTANCE ------------------------------+
                           |
    TokenBucket ---------> OrchestratorProofs

    Sentinel, Tiers -----> SentinelProofs               MCTiers extends Tiers
    FakePortal ----------> FakePortalProofs
    GhostSessions -------> GhostSessionsProofs          MCGhostSessions extends GhostSessions
    Gateway, Launcher ---> GatewayProofs                MCGateway extends Gateway
    RedisMorphStore -----> RedisMorphStoreProofs        MCRedisMorphStore extends RedisMorphStore
    Metrics -------------> MetricsProofs

    Maps  (a dict as a function: With, Without)   <-- GhostSessions, Gateway, Launcher
    Lists (what is left of a list: Less)          <-- RedisMorphStore, Metrics
    ListProofs (the least number of a set, Less)  <-- the proofs of all but the portal

A proof module that covers two components extends both; the specification of the second
then has names of its own (`TiersSpec`, `LaunchSpec`, `BucketSpec`).

**MorphStore** is the dict of `InMemoryMorphStore` as a value: which context each
request id maps to, and in which order the ids were inserted. It has no variables;
its operators are the methods. `Evicted` states in one set expression which keys
`evict_terminal` pops; `Popped` is the loop that pops them, and the two are proved equal.

**McpTools** is everything outside the orchestrator that its calls change: the live
session of each attacker address and the policies, with the identities (uuids) they
carry. A tool is one action that looks up, reuses or creates; the `...Halfway` actions
are the tools stopped between two of their own calls. Nothing keeps the name of a policy
unique: one found without its rule is deleted before another is created, but the
deletion may fail (`Replaced`), and it is reused as it is when its rules cannot be read.
`RerouteStale` is the tool in a second thread of the executor, whose lookup is older than
the last calls of the same request. `CleanupLbRule` deletes nothing unless the MCP server
has the id of its load balancer (`LB_ID`). Sessions also begin (`Visit`) and end
(`SessionExpires`) without the orchestrator, and policies can be purged.

**Orchestrator** composes the two. A morph `m` has its context (`request_id`,
`state`, `ghost_session_id`, `lb_rule_id`), the locals of `run` (`thought_steps`,
`consecutive_failures`) and its task: `task[m]` names the await at which the
coroutine is suspended, `cancel[m]` whether a cancellation is pending. An event
loop switches tasks only at an await that suspends, and no method of the in-memory
store suspends, so the unit of an action is the code from one such await to the
next:

| Action | Code |
|---|---|
| `ReceiveSignal` | `receive_signal` after the body was read: duplicate test, `add`, eviction, task creation |
| `BelowGate`, `Engage` | first turn of the task: DETECTING and the confidence gate, then IDLE, or the first attempt |
| `Assigned`, `Rerouted`, `Watched`, `Terminated` | an awaited step returns, its result is recorded and `run` goes on to its next await |
| `StepFails`, `Retry` | a step raises: count, breaker or backoff; the backoff ends |
| `RolledBack` | the tool call of a rollback ends, in whatever way |
| `Cancelled`, `UnwindingTimesOut` | `CancelledError` at the current await and the handler of `_drive`; its 5 s bound |
| `AdminReset`, `Shutdown` | `admin_reset`, the end of `lifespan` |
| `LateCall` | the MCP server carries out a call whose caller has left |
| `GhostShellActs`, `ReroutePurged` | the environment: expiry, the attacker's own visit, a purge |

`Attempt` and `StartRollback` are the parts of `run` and `_rollback` that several of
these actions end in. The parameters of a call are those of its context, which
nothing changes while it waits, so a call in flight needs no state of its own until
its morph gives up on it and it moves to `late`.

`faults` is a history variable: for each morph, the tools of which some call was not
answered with a success it had fully carried out. Guards never read it. It is what
separates *went wrong* from *forgotten* in the properties.

**MorphLifecycle** is the abstract specification: the phases of an engagement and the
arrows of `docs/guide/architecture.md`, with the ends told apart from the
beginning (the code reuses IDLE for both). `PhaseOf` in Orchestrator is the
refinement mapping.

**TokenBucket** is `_TokenBucket` with its lock: whoever holds the lock takes a token
or sleeps for what is missing, the rest queue. Tokens are integers of `1/UNIT`
token and time is counted in the ticks that are worth one such unit, so the
arithmetic is exact. `Resolution` lets a sleep end early by the resolution of the
event loop's clock, which is why `acquire` loops.

**FakePortal** is the middleware of the portal, cut at its two awaits: `Arrive` (is the
address flagged?), `GhostAnswers` or `FallBack` (the reverse proxy), the handlers
(`LoginSubmit` and `AdminAcknowledge` score and flag, `AdminReset` clears, `Serve` is
all the others) and `Answer` (cookie, score, report). A path is the kind of path the
code tells apart, a score is in hundredths. `caused` (when a flag was last due) is
history.

**Sentinel** is `POST /logs` with its cascade. A request works through its batch event
by event: each is read into a window and stops at one tier (`T0Critical`,
`ReconTriggers`, `Eliminated`, `T1Benign`, `T1High`), or goes to the LLM (`AskT2`), which
is the one await of the cascade: other requests, canaries and a reset run before
`AnswerT2`. What a tier makes of an event is an input of the action; what is kept is
the order of the tiers, the counters, windows and cooldowns each touches, and when.
Signals are queued and sent by a task after the answer (`Reply`, `EmitSignal`).
An event may raise instead (`T0Raises`, `GateRaises`, `FeaturesRaise`): timestamps with
and without a time zone cannot be subtracted. The request then answers 500, and the rest
of its batch and the signals queued by then are gone. `raised` is history: how many
events ended so after they had been counted as ingested, and before a tier counted them.
`CanaryHit` is the short cut of the decoys.

**GhostSessions** is `SessionStore` on either of its stores (`REDIS`, a variable that
`Init` chooses and nothing changes), and a request as the
middleware (`Arrive`) followed by its handler: `Page` only looks its session up,
`Cred` and `Count` save it too. No call to the store suspends, so each of the two is
one step, and tools 1 and 3 (`CreateSession`, `Terminate`), a reset and the clock come
in between. Which handler a visit gets is left open until it runs (`Static`, `Page`,
`Cred`, `Count`): the middleware is the same for all. `Found` is the lookup: in Redis by
the one id an address has, of which the code compares the persona and the expiry but not
the address, in the dict by a walk that stops at the first session of the address and
persona. With Redis
an operation completes `done` of its writes, and all of them unless Redis fails.
`ended`, `served`, `given` and the id in `tracked` are history. McpTools keeps its own,
simpler view of the sessions: those of one persona, without faults.

**RedisMorphStore** is the store of that name, with every Redis command a step of its
own: `at` is the command a delivery of a signal waits for, from `contains` (`new`) over
the two of `add`, `count` and the loop of `evict_terminal` to the saves of the task's
start and end; `todo` are the ids its eviction has yet to look at. A command may raise:
one of a signal ends it with a 500 (`Refuse`), one of a task sends it on to a rollback or
ends it (`SaveFails`), with or without its effect. A reset clears the store, a shutdown
does not; both cancel the tasks of an instance (`Cancel`), which roll back (`unwinding`)
for five seconds at most (`TimesOut`). A crash ends what an instance handles. How the
signals are spread over instances is left open: `mine` may be any of them. Of an
engagement only its registration, its saves and its end are left. Two variables
are history. `cut` are the tasks whose last save was not answered or whose rollback was
cut short. `excused` are the ids whose context was removed while their engagement was
under way, or that an eviction struck off the list while they were registered, or whose
signal ended between the two commands of `add`, in a crash or because the second raised.
The properties say that there are no other ways for the store to lose track of an id, and
none but these for a context to be shown as what it is not.

**Tiers** computes what Sentinel takes as inputs. A state is a rule, written one token
at a time (`Write`), parsed by `Parse` as the recursive descent of the code does (as a
recursive function of the position, whose value is what the three functions of the parser
return from there), and then loaded (`Load`), after which events arrive
in the window of one visitor (`Arrive`) and go through the tiers in the order of
`ingest_logs`: the rule, the window's length, the heuristic gate, T1's features and
score, its thresholds. Before the length comes the test for cumulative reconnaissance,
which looks beyond the window and may therefore stop any event on a path it
watches (`Behavioral`). Times are the gaps between events, in ms and possibly negative
(timestamps are the sender's), fractions are compared by cross-multiplication, and
scores are in thousandths; `RoundedDown` are the sums that floating point makes a little
less than the thousandths say (section 7). The XGBoost booster is an arbitrary answer.

**Gateway** is the console's users, tokens and login limit. Its handlers do not suspend:
each is a step. The endpoints (`users_create`, `users_patch`, `users_delete`) check the
holder of a token and call the operators of `auth.py` of the same names as in the code; a
write of the users file may be torn. `config` is fixed at the start: backend, whether
the file may be written, whether the signing key outlives the process. `allowed` and
`held` are history.

**Launcher** is the attack launcher: `Launch` reaps, tests the limit and starts the child
(or cannot, `LaunchFails`),
`Record` is the handler after the await of the child's set-up, `Exit` and `PumpEnds` are
the child and the task that reads its output, then `Stop`, `ListRuns` and the clock.

**Metrics** is the usage totals and the list of sockets. A push is a task that walks the
list by position (`Start`, `Continue`), waiting for each socket (a wait for one whose
connection is lost may fail and puts it among the dead, `Waited`), while events, resets,
connections (`Connect`) and losses (`Close`, `Leave`) happen; `since` and `disturbed` are
history.

Operators whose name carries an underscore after that of a definition
(`Retry_FromTheStart`, ...) are that definition with a plausible bug. No behaviour
uses them; they document which bug each property catches.

## 3. The properties

| Property | Says | Checked in | Proved in |
|---|---|---|---|
| `PoliciesAccountedFor` | with `LB_ID` set, a standing policy has a running task that has it on record, or a call of its request went wrong | one, shared | `PoliciesNeverLost` |
| `SessionsAccountedFor` | the same for the sessions tool 1 handed out | shared | `SessionsNeverLost` |
| `ImplementsLifecycle` | the orchestrator implements `MorphLifecycle` | one | `LifecycleImplemented` |
| `OneEngagementPerRequest`, `LiveIsTracked` | idempotence while the store has room | shared | `SignalsAreIdempotent`, `LiveStaysTracked` |
| `StartedStaysTracked` | eviction never forgets an engagement that has started and whose entry is its own | capacity | `StartedIsNeverEvicted` |
| `EveryMorphEnds` | every accepted signal is driven to an end | one | model-checked only |
| `ThoughtBudget` | attempts of a run: three times the breaker, plus one | one | `ThoughtBudgetHolds` |
| `EndsEvictable` | only a cancelled morph can end in a state eviction never frees | one | `EndsAreEvictable` |
| `WindowBound` | what leaves the limiter in any window | window | `WindowBoundHolds` |
| `FlagStands` | a flag stands for a whole TTL after its last cause | flags | `FlagsStand` |
| `FlagHasCause` | nobody is flagged, or over the threshold, who is not due a flag; a reset forgets | flags | `FlagsHaveCauses` |
| `EachEventStopsOnce` | the counters of the cascade add up: an event stops at one tier, or raises in the gate or in T1's features | cascade | `EventsStopOnce` |
| `OneSignalPerCooldown` | outside stub mode two signals of a visitor (of one cookie, or of one address without) are a cooldown apart, unless a reset came between; canaries count | cascade | `SignalsSpaced` |
| `CooldownHasSignal` | a visitor is silenced only by a signal | cascade | `CooldownsHaveSignals` |
| `EverySignalLeaves` | a queued signal is sent, or lost with a batch that raises | cascade | model-checked only |
| `ServedToOne` | a session is served to one address under one persona | sessions | `Isolation` |
| `EndedStaysEnded` | a terminated or cleared session is not written back | sessions | `EndIsFinal` |
| `CountsAdvance` | two requests are not given the same answer of a counter | sessions | `CountsNeverLost` |
| `KeysEnd` | with Redis a session is gone two TTLs after its creation | sessions | `KeysAreDropped` |
| `NewOnlyIfNeeded` | with the dict a live session is passed over only for an expired one in its way | sessions | `NewSessionsAreNeeded` |
| `AcceptedOnce` | a request is accepted twice at a time only by signals that overlap in `contains`, or if it is excused | redis_store | `RequestsAcceptedOnce` |
| `HeldIsListed` | what the hash holds is on the list that evictions read, or lost to it in one of four ways | redis_store | `HeldStaysListed` |
| `ShownAsIs` | a context is shown in the state its task is in or ended in, and live only with a task that will save it again, but for tasks cut short and crashes | redis_store | `ContextsShownAsTheyAre` |
| `RolesExpire` | a role that was taken away is good for one token lifetime more | console | `RolesDoExpire` |
| `LoginBound` | no more than `LIMIT` attempts of an address in any window | console | `LoginBoundHolds` |
| `AdminRemains` | once the file lists an admin, somebody may always log in as one | console | `AnAdminRemains` |
| `OnlyLiveOverflow` | the map of attempts outgrows its bound only while all in it are recent | console | `OverflowIsLive` |
| `LiveBound` | overlapping launches exceed the limit by less than their number | attacks | `LiveBoundHolds` |
| `LiveIsStoppable` | a child that runs is never reaped or taken for finished | attacks | `LiveStaysStoppable` |
| `StopFrees` | a run that is stopped gives its place back | attacks | model-checked only |
| `QuietMeansFresh` | when no push is under way every dashboard shows what is current | push | `QuietDashboardsAreFresh` |
| `LostSocketsLeave` | a lost socket leaves the list | push | model-checked only |
| `ConditionMeansWhatItSays` | a condition that is an expression matches by its grammar | tiers | `ConditionsMeanWhatTheySay` |
| `FastIsNotBenign` | T1's heuristic does not dismiss a visitor the gate lets through for his speed | tiers | `FastWindowsAreNotBenign` |
| `TypeOK` (one per module with variables; `TiersTypeOK`, ...) | types; no record of a name for an identity, no debt in the bucket, no blame of a cookie, no report without an id | console, push, redis_store, tiers | `TypeCorrect` of every module, `BucketTypeCorrect`, `LaunchTypeCorrect`, `TiersTypeCorrect` |

The two `...AccountedFor` invariants carry most of the weight: they cover every
way an engagement can end (torn down, stopped by the breaker or the fuse,
cancelled in a call, in a backoff, while watching, during a rollback) and every
effect of a call that comes late, and they say precisely what the code promises
once failures are allowed: not "nothing leaks", which is false (section 7), but
"nothing leaks as long as the calls of its request went right". For a shared
address they also say that the first teardown, which ends the session of both
engagements, does not stop the second from removing its own policy.

`ThoughtBudget` shows something about the constants as well: with the breaker at 3
a run never makes more than 10 attempts, so `MAX_THOUGHT_STEPS = 15` is a fuse that
cannot blow. Run `capacity` gives it a value at which it does.

Types that are proved are checked by a run as well only in the modules named there.

## 4. The runs

| Run | Question | Instance | Shows |
|---|---|---|---|
| one | Can anything derail a single engagement, and is it driven to an end? | `FairSpec`, the caps of the code (15, 3), one morph, one late call, one reset, shutdown | it follows the life cycle, stays in its budget, loses no policy, ends |
| shared | Do two engagements of one address interfere, and does a request have one live, tracked engagement? | two morphs, one request with a cookie and one without, store of 2 | each may find its session ended by the other, and nothing is unaccounted for |
| capacity | Does a full store forget a started engagement? | three morphs, three requests, store of 1, fuse at 1 | not while the entry is its own |
| window | Can the limiter let out more than its bound? | rate 3, three units to a token, window from tick 4 | it cannot, however calls queue, sleep, wake early and are cancelled |
| flags | Do flags last as long as their causes ask? | one visitor, four requests, two at a time, every path; the amounts of the code | they do, through expiries and a reset |
| cascade | Do awaits in the cascade disturb counters or cooldowns, and does every queued signal leave? | `FairSpec`, one address with and without a cookie, two requests, batches of two, any of which may raise, two families of paths, a reset | they do not, and it does unless its batch raises |
| sessions | Can sessions be mixed up, come back or stay? | both stores, two attackers, two personas, two requests at a time, tools 1 and 3, a reset, TTL 2, one fault of Redis | they cannot |
| redis_store | Is a request accepted twice, or a context lost from the list, command by command? | three signals of two requests, store of 1, one reset, shutdown, crash or command that raises | only in the ways `Excuses` and `cut` name |
| console | Do roles, the login limit and the last admin survive concurrent edits, torn writes and restarts? | two users, every file of them, two addresses, a map of 1, attempts of both, every configuration | they do |
| attacks | Are runs bounded and stoppable, and are places given back? | limit 2, two clients, four launches, retention 1 | they are |
| push | Do walks of a list that changes leave dashboards stale or sockets behind? | three sockets, two events, one reset | not unless a socket leaves during a walk |
| tiers | Does the condition parser read its grammar, and do gate and T1 agree on speed? | conditions of up to 7 tokens, windows of up to 5 events of three kinds at three speeds, one of them backwards | it does, and they do |

## 5. Bounds, symmetry, deadlock, fairness

* `Morph`, `Ids`: one to three. A second signal of a request needs a second context
  and a first one; eviction with a choice needs three requests.
  Engagements interact only through the store, through a shared address and through
  the policy of their request, and each of the three is met by a run with two.
* `MaxLate = 1`: calls whose timeout left them running at the server. A cancellation
  adds to `late` beyond the bound. One is enough for a call to act after its retry
  and after the rollback, the two orders that matter; the proofs hold for any number.
* `MaxResets = 1`: a shutdown after the reset cancels the rollback of its cancellation.
* `MaxPolicies`: policies that stand at a time. Run `one` has 1, so that in it a policy is
  replaced and never left beside another; run `shared` has 3, which lets the context that
  follows a reset meet one without its rule and fail to delete it, and a late call add to
  them. `LB_ID` is set in both; in run `capacity`, which has no policies, it is not.
* `MaxMinted`: above it the attacker's own visits open no more sessions. Tools are
  never bounded by it. Two, in run `one`, lets a visit come before tool 1 and after an expiry.
* `MaxClock = 16`, `MaxCalls = 9`: almost two windows of nine ticks and more calls
  than the bucket can serve in them, so callers queue, sleep and are cancelled in
  front of, across and inside the window.
* FakePortal: one visitor, since nothing of one is read for another; scores grow past
  the threshold within two probes; `FLAG_TTL = 2` and `MaxTime = 3` let a flag expire
  and be set again while another request is between its check and its score.
* Sentinel: one address with one cookie gives two keys, which is where visitors meet
  (an event of either can bear the address); two requests are enough for one to run
  inside the LLM's await of the other, batches of two for a signal to wait for the LLM.
  `MaxEvents = 2` bounds the events between two resets; `MIN_WINDOW = 2`, which stands for the 3
  of the code, is a window that one event does not fill and two do. `STUB` is off: with it no
  LLM is asked and `T1High` signals without a cooldown, and nothing is added; the
  proofs cover both.
* GhostSessions: on Redis `TTL_SECONDS = 2` with `MaxTime = 3` lets a key be renewed
  before its session expires and outlive it; the dict has no keys, and `MaxTime = 2`
  is the first expiry (`MCGhostSessions` gives each store its own). Two requests of two
  attackers overlap, and both find what tool 1 left or took. `MaxFaults = 1`: each
  operation is at most four writes, and the fault may be before any of them. The proofs
  hold for any number of each.
* RedisMorphStore: two deliveries of one request and one of another, in a store of one,
  so that an eviction of either meets the registration of the other. `MaxFaults = 1` is
  one reset, shutdown or crash, or one command that raises, at any point. A rollback whose
  save raises ends as one that times out, which needs no fault; a second cancellation
  of a task that rolls back is for the proofs, which hold for any number of each.
* Gateway: two users, each of whom may be an admin; `MAX_KEYS = 1` with two addresses
  fills the map; `MaxEdits = 2` lets two admins remove each other; `MaxLogins = 4`
  lets an attempt of one address prune the map between two of the other and still leaves
  three to the latter, one more than `LIMIT`; `MaxCalls = 5` bounds attempts and edits
  together (four and one, or three and two); a token lives one tick of three; one torn write, one restart. The
  initial file is any of those of `MCFiles`, or absent.
* Launcher: four launches are enough for two to overlap at the limit of two and for one
  more afterwards; `MaxClock = 2` lets a finished run age past `_RETAIN_FINISHED_S = 1`.
* Metrics: three sockets, so that a walk can miss one between two others, two pushes that
  overlap, one reset.
* Tiers: `MaxTokens = 7` is enough for three operands, or two in brackets, with a `not`;
  what does not begin an expression is not continued beyond `MaxGarbled = 3`. Two rules
  go live. Windows of up to `MAXLEN = 5` (from three on the gate looks at them) of
  three kinds of events, 0.1 s or 1.7 s apart or backwards; `RPS_THRESHOLD = 6` lies
  between the two speeds. The test for one user agent is by entropy, which a window of ten
  events or more may pass with a stray one among them; windows of the run are too short
  for that, so of this case only the proof speaks. `Sensitive` has the one path of the
  three kinds that the test for reconnaissance watches.
* Symmetry: contexts, the attackers and the requests in progress in GhostSessions, the addresses of
  Gateway, and the two deliveries of one request of RedisMorphStore
  are interchangeable. It is used with safety properties only: the runs with a liveness
  property have none.
* `CHECK_DEADLOCK FALSE`: the system really stops. Signals are bounded by the contexts
  of the instance, a shutdown ends the process once its tasks have ended, and
  clocks, edits, launches and sockets are bounded.
* Fairness is weak fairness on `Step(m)`, for each morph: an event loop runs every task
  that is ready, a sleep ends, a call is answered or times out. It is per morph
  and not per action, so the scheduler may always choose the failing outcome. A
  signal, a reset, a shutdown, a late call, an expiry, a visit or a purge need
  never happen.
* In the Sentinel, weak fairness on the steps of a request and of the tasks that send
  its signals, and strong fairness on the answer of its LLM call: the LLM answers or
  its client times out, but the request resumes only when the loop is free, which it
  is again and again and not for good; a ready queue served in order does not pass
  it over for ever. Nobody need send a batch, and no clock need tick.
* In the Launcher, a child that was told to stop ends (the simulator does not handle
  SIGTERM), and the event loop runs the handlers and pumps that are ready. A child that
  was not told to stop need never end.
* In Metrics, a handler whose connection is lost finds out, a push that was spawned
  starts, and a wait for a socket ends: a peer that takes no frame fails the server's
  pings. No peer need leave, and no event need come.

## 6. The proofs

All hold for every value of the constants under the named assumptions of the
modules: the absent context `None` is neither a context nor a request, requests map
to addresses and to policies or `None`, the caps are natural numbers (the breaker
and the fuse positive), a bucket has a positive rate and a positive unit, the launcher a
positive limit and finitely many clients at once, the console starts from a file of
finitely many users with positive limits, the agents whose usage is added up are
finitely many, the gate's threshold and the length of a window are positive, and no token
of a condition is empty. No other set is assumed finite except where said. Types are proved of every module with variables.

* **Types.** `TypeInv` is `TypeOK` with `Registered`: a context whose task exists
  has a request. Without it `AddressOf[request_id[m]]` need not be an address.
* **Budget.** `ThoughtBudget` is not inductive: it says nothing of the attempts left.
  `BudgetInv` bounds the attempts by those of the steps before the current one, its
  consecutive failures, which the breaker keeps under its bound, and the attempt
  under way.
* **Sessions and policies.** `RecordInv` says what a context has on record at each
  await: no session before it is assigned, no rule before the reroute returned, never
  a rule without a session (`_rollback` skips the whole teardown without a session), and
  that every call in `late` is in the history of its morph. With it, the proof is by
  the origin of a resource (`PolicyOrigin`, `SessionOrigin`: a step of `m` leaves a new
  policy only if it records it in the same step or puts a fault on `m`) and by what
  keeps one (`PolicyKept`, `SessionKept`: a step by which a task that has it on record
  ends either removes it or is a fault).
* **Idempotence.** Assumes that the requests are finitely many and fit the store.
  The assumption is needed: a full store evicts the entry it has just accepted
  (section 7).
* **Ends and life cycle.** `PlaceInv` ties the state of a context to the await of its
  task; the refinement then goes action by action (`PhaseStep`), and the remaining
  actions leave every phase alone (`PhaseFrame`).
* **Limiter.** `WindowInv` bounds what went out together with what the bucket still
  holds by a full bucket and the credit up to the last refill. The bound on what
  went out alone is not inductive, because it forgets the tokens in the bucket.

* **Portal.** `FlagStands` is not inductive: the proof needs that a flag expires exactly
  a TTL after its last cause, or has been dropped since (`Dated`), and that a step does
  one of five things to the flags (`FlagStep`).
* **Sentinel.** The counters need nothing but the shape of each tier's bookkeeping, and of
  what an event that raises has counted by then; the
  cooldown needs that the signals of a visitor are in the order of time and that a
  running cooldown is that of the last of them. `SignalsSpaced` assumes `~STUB`: in stub
  mode it does not hold (section 7).
* **Sessions.** Everything rests on `TakenFacts`: what `get_or_create` answers is a live
  session of that attacker and persona, or an id no session ever had. With Redis this
  needs `IndexOwn`, that the index names no session of another address, because the
  lookup trusts it: an index entry may outlive its session, but no id is used again. So a save extends
  only the lease of a live session (`Leases`, hence `KeysEnd`), and an ended id is never
  written again. `ServedToOne` needs `Owned`, that a session that is still stored is
  that of everyone it was served to.

* **Launcher.** `LiveBound` alone is not inductive: a child may be live and not recorded.
  `Inv` has `LiveIsStoppable`, so that every live child is recorded as unfinished or is
  the one a client waits for, and `TrackedBound`, the bound on the two together. `Launch`
  keeps it because it saw fewer unfinished than the limit and every other client waits
  for one run at most (`PendingBound`); no other step adds to the two.

* **Eviction.** `StartedIsNeverEvicted` follows from `PlaceInv`: whoever runs is in no
  state that `evict_terminal` frees. The entry must be the context's own; TLC refutes the
  property without that premise with four engagements in a store of one (section 7).
  `EvictionIsTheLoop` says that `Evicted` is what the loop pops whenever a signal has been
  added to a store that the orchestrator has reached: the numbers of the insertions are
  distinct (`Numbered`), so the keys have one order (`OrderExists`), and after any number
  of turns either every candidate so far is gone or enough of them are (`HaveGone`).
* **New sessions.** `NewSessionsAreNeeded`: what a save adds is of the address and persona
  that was looked up, and then nothing was found (`SaveAdds`). That the walk of the dict
  ended at an expired session older than any live one is the least id of a set
  (`WalkFacts`).

* **Console.** `LoginBound` is about all attempts ever allowed, the code about those it
  keeps: `HitsRemember` says that what is kept of an address is the end of what it was
  allowed, and that the rest has left the window, through the loop that pops
  (`PoppedFacts`) and the pruning. `RolesExpire` needs `RolesCovered`: a token outlives
  its user's role by a lifetime at most. `AnAdminRemains` and `OverflowIsLive` are
  properties of steps and need the types and that the file and the map are finite.
* **Redis store.** `HeldIsListed` is not inductive: an id leaves the list when an eviction
  strikes it off (`ListedStays`), which is excused while it is registered, but a context
  may be registered again in between. `StaysHeld`, `HeldByOwn` and `IdleAtFirst` say what
  a hash entry tells of the engagement that put it there; with them `Excuses`, the
  list of the ways to lose an id, is complete. `ShownAsIs` follows from `SettledShown`
  (the state a task had when it last settled is the one that is held) and `EndsLast` (a
  task is not done before it has saved its end, unless it is cut short), and these two
  need `SettledStep`, which names every way to settle. The assumption that commands are
  atomic is the model's.
* **Dashboards.** `QuietMeansFresh` is about the moment when the last walk ends, and an
  invariant must hold between: `RearIsFresh` picks the walk that is behind all others and
  says that it carries the present counters and has shown them up to where it is,
  since a walk that overtakes another cannot be overwritten by it at the sockets it has
  passed. The proof must say what a loss in the list does to the positions of the other
  walks (`From`, `To`) and that sums over the agents exist (`SumsExist`).
* **Tiers.** `FastWindowsAreNotBenign` adds up the score of a window: at six events a
  second or more the rate scores 10 and the mean pause is below 1.7 s, which scores 35,
  and a sum of 45 is not rounded down below 0.40 (`ScoreFacts`). It assumes
  `RPS_THRESHOLD >= 6`; for 5 it is false, since the rate scores from above 5 on.
* **Conditions.** `ConditionsMeanWhatTheySay` compares two recursions that go different
  ways: `Parse` forwards, one token at a time, `Value` on the two sides of an operator. A
  `Part` is a stretch of tokens that is an expression of its own. The claim (`Agrees`) is
  that the parser, started at the first token of a part, stops behind its last with the
  part's value, and it is proved by induction over the length of a part: a first split
  leaves two shorter parts (`SplitParts`, `SplitAgrees`), and a part without one is a
  negation, a bracket or a name (`FactorStep`). Of conditions that are no expressions it
  says nothing (section 7).

Induction over data is done with the least number of which a claim fails
(`LeastNumber`, from the library's well-foundedness of the natural numbers): `Less`, `Sum` and
the totals are recursive functions, and that such a function exists is itself proved
so (`LessIsComputed`, `SumIsComputed`, `SumsExist`, `ParseIsComputed`, `ValueIsComputed`,
and in `LoopPopsEvicted`). Operators that the provers know
nothing of (`SelectSeq`) have been replaced by such functions where a proof is about them.

Only model-checked: liveness (`EveryMorphEnds`, `EverySignalLeaves`, `StopFrees`,
`LostSocketsLeave`), which the prover does not treat under fairness. Every other
property of a run is stated by a theorem.

## 7. Disagreements with the documentation

These were met while modelling. None has a run; in each the properties above are stated
so that they say what does hold.

Orchestrator and its stores:

* `orchestrator/main.py:131-132` against `:130-133`. The comment: only terminal morphs are
  evicted, never one in flight. A context is born IDLE, IDLE is one of the evictable
  states, and the store is trimmed before the task has started. When all older entries
  are in flight the entry evicted is the one just added; its engagement runs untracked,
  and a second signal of the same request starts a second one. The two share one entry,
  which holds the context saved last: when one has ended and saved itself there, an
  eviction forgets the request although the other runs, which is in flight by any
  reading. (`SignalsAreIdempotent` assumes room; `StartedStaysTracked` begins at the start
  and asks that the entry is the engagement's own.)
* `main.py:168-170` against `:174`. The docstring: the reset leaves no zombies with
  duplicate ids. The store is cleared first and the tasks cancelled after; the rollback
  of each cancelled task saves its context into the store again.
* `docs/guide/architecture.md:63-64` against `state_machine.py:198`. The guide: a
  misbehaving step rolls back cleanly rather than leaking. A reroute that is carried out
  but not answered with a success leaves no rule id on record; the rollback passes an
  empty one and the policy, which has no TTL, stays.
* `mcp_server/backends/octavia.py:201` deletes a policy only if the MCP server has `LB_ID`,
  which is empty unless set (`server.py:52`, `docker-compose.yml:111`, `.env.example:76`),
  while the orchestrator's has a default (`docker-compose.yml:78`) and the reroute falls
  back on the load balancer's name (`:95`). Without it every policy is created and none is
  deleted, and tool 3 answers with a success: the properties about policies assume
  that it is set, as the README of the repository asks (line 201).
* The Redis store: an eviction reads an entry as IDLE and deletes it in a later command,
  when its task may have started; an id that is not on the list is never evicted; after
  a crash a context stays in the state it was in and its request is answered as a
  duplicate for ever. (`Excuses` and `ShownAsIs` say exactly this.)
* `store.py:99-100` and `main.py:129`: when the `rpush` raises, the signal is answered 500,
  but its id is in the hash and not on the list. Sent again it is answered as a
  duplicate, and nothing ever engages it or evicts it.
* `state_machine.py:224-225`: a save that raises in a rollback ends the task
  (`main.py:156`) with its context in the store as it was, which may be one that no
  eviction removes. A rollback that five seconds cut short leaves it in ROLLBACK.
* `orchestrator/mcp_client.py:4-5` says that 15 calls a second stay under the quota of
  20. A full bucket of 15 goes out at once and its refill within the same second;
  `WindowBound` is the bound that holds.

Detection:

* `sentinel/main.py:444` against `:432`. The docstring: the reset clears counters and
  cooldowns. A request that awaits the LLM writes both afterwards.
* `sentinel/main.py:147-148` says that each event bumps exactly one tier counter. The
  subtraction of a timestamp with a time zone from one without raises, in the gate or in
  the rate that goes with a critical hit (`sentinel/heuristics.py:17`, called at `:302` and
  `:344`) and in T1's features (`sentinel/tier1.py:91-94`, called at `:378`). The batch is then
  answered 500: the rest of it is not read, the signals it had queued are lost although
  their cooldowns run, and an event that raised in the gate is counted by no tier.
* `sentinel/main.py:111-112` says one signal per IP and cooldown. The cooldown is per
  cookie where there is one (`:288`), and the branch of stub mode neither consults nor
  starts one (`:365`).
* `fake_portal/main.py:530` says that about three 404s flag. At 0.34 each against a
  threshold of 2.0 it takes six.
* `fake_portal/main.py:510` says that each visitor has a unique id. The cookie is set
  on two pages only; without it every request has a new id.
* `docs/guide/architecture.md:5` says that legitimate users stay on the real service.
  `/favicon.ico` has no handler, its 404 is scored (`fake_portal/main.py:529`) and scores
  never decay.
* `sentinel/tier0.py:112-114` says that a condition that cannot be parsed matches nothing.
  One that ends in `not` parses (`s or not`) and matches every event, since the missing
  operand is false; and what follows the first expression is ignored.
  (`ConditionMeansWhatItSays` is about conditions that are expressions.)
* `sentinel/tier0.py:26, 67` put a condition in lower case, while the selections it names
  (`:60`) keep theirs: a selection whose name has a capital counts as absent and never
  matches. No rule in `sigma_rules` has one; the model's names are in lower case.
* `sentinel/tier1.py:200-244` adds binary fractions and compares with 0.85 and 0.40: the
  scores 0.10 + 0.35 + 0.20 + 0.10 + 0.10 and 0.35 + 0.05 fall just below, so that a
  visitor at the threshold goes to the LLM in place of T1, or is benign.
* A window whose first and last timestamps are equal or out of order has a rate of `n`
  in the gate and of `n` per millisecond in T1, which gives it no score for its timing.
* `sentinel/classifier.py:95, 99-100` clamps the confidence of the LLM. NaN passes as 1.0,
  which is not failing closed.

Decoy sessions:

* `ghost_shell/session_state.py:42` says that a session is looked up or created. On the
  dict the walk breaks at the first session that has expired (`:67`), and none is ever
  removed, so after one TTL every lookup creates one. On Redis a key outlives its
  session, and tool 3 of the old one deletes the index of the new one (`:137`).
* `session_state.py:113` says that expired sessions are not listed. The Redis branch does
  not filter (`:119`).
* `ghost_shell/main.py:118, 131` say that internal paths are not tracked.
  `/sessions/<id>/terminate` is (`:119`), as a session of the MCP server's address.

The console:

* `docs/guide/api.md`: the last admin cannot be demoted or deleted. That holds once the
  file lists an admin. With an empty list the fallback admin may log in and create a
  viewer, after which the list is not empty and has no admin. A file edited by hand that
  lists a user twice, or an entry without a name, defeats `_admin_count`
  (`api/auth.py:197`).
* `api/auth.py:189` writes the file in place when it cannot be replaced. A write that is
  cut short leaves a file that cannot be parsed: the fallback admin logs in, and every
  edit is refused.
* `api/auth.py:289`: the token of a user who was deleted or demoted works until it expires.
* `api/ratelimit.py:21` says that the map of addresses does not grow without bound. It
  does while all its addresses are recent.
* `api/attacks.py:32` says that more than so many live runs at once are refused.
  Launches that overlap exceed the limit, which is tested before an await (`LiveBound`).
* `api/attacks.py:34` says how long a finished run is visible. It is measured from the
  start of the run: a long one is gone at the first list after its end.
* `mirage_metrics/main.py:208`: a walk by position skips a socket when one before it
  leaves; a reset pushes nothing; a socket that is stuck delays the pushes behind it.

## 8. What is not modelled

* *The inside of a tool call.* A call to a tool is one step, or one of the two named
  halves of it. The Octavia backend runs in executor threads, so a call that was given up
  on runs beside its retry: that is `RerouteStale`, by its outcome. Which calls a policy
  that is pending refuses is for the OpenStack API to say, which is not in this
  repository; the model has every one of them fail or succeed.
* *The Redis flag backend and the inline proxy*: a few commands whose reader is Lua
  configuration outside the default deployment; one hazard of it is listed.
* *A policy name* is taken to identify its request; the code uses the first eight
  characters of the request id.
* *Personas* in McpTools: sessions are those of one persona. GhostSessions has them all.
* *Verdicts* of the tiers are inputs of Sentinel, and so is which events a window of ten
  seconds still holds (an idle window that `receive_logs` drops, `sentinel/main.py:273-282`,
  is one that holds none at the next event); Tiers computes them for one visitor. The LLM's verdict, and that
  of the trained booster, are arbitrary answers; `train_tier1.py` runs offline. What the
  Ghost Shell notes of a request for the dashboard is left out, but for the counters its
  answers depend on.
* *Reports and signals between the services* are modelled where they are sent, as tasks
  that may be lost; no module composes two services but Orchestrator with McpTools.
* *Time* of the orchestrator: a TTL, a backoff or a timeout ends at any time, in any
  order. The one order the code enforces, that a call within the 5 s of the
  cancellation handler is not given up on by its own 30 s timeout, is kept.
* *Floating point* of the limiter: its arithmetic is exact here.
* *The gateway's other endpoints* read from a service, or reset it, and keep no state.
  A users file with an entry twice, without a name or with an unknown role is not among
  the initial ones, as no edit writes one.
* *Signatures, schemas and logs*, *decoy content*, *the web front end*, *the attack
  simulator* and *the command line* keep no state of the system: see `PROJECT.json`
  for each.

## 9. What is left

In the order of what it would show:

1. `Octavia`: the calls inside tools 2 and 3 over an explicit model of the OpenStack API,
   shown to implement the tools of McpTools where that holds.
2. `Detection`: portal and Sentinel composed, with the reports lost or late and the
   blindness while an address is flagged; then `Engagement`: Sentinel, Orchestrator and
   GhostSessions, with the end-to-end promise that a flagged attacker is moved to the
   decoy and later released.
3. `RedisFlags`: the flag backend and the proxy that reads the flags.
