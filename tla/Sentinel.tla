------------------------------ MODULE Sentinel ------------------------------
(***************************************************************************)
(* The Sentinel of Mir[AI]ge (services/sentinel/main.py): it ingests       *)
(* batches of log events, runs each through the detection cascade T0, T1,  *)
(* T2 and queues a signal to the orchestrator when one of them triggers.   *)
(*                                                                         *)
(* One asyncio process. A request runs until it awaits: the LLM of T2, and *)
(* the POST of each signal. Everything else, the test and the start of a   *)
(* cooldown included, is code no other request can run between.            *)
(*                                                                         *)
(* What the tiers make of an event is their input here: rules, features    *)
(* and model are left out, the order and the effects of the tiers kept.    *)
(* A window is the sequence of the addresses of its events, which is all   *)
(* of an event that is read again later.                                   *)
(***************************************************************************)
EXTENDS Naturals, Sequences, FiniteSets

CONSTANTS
  Addresses,          \* src_ip of events
  Cookies,            \* session_id of events: the mg_session cookie
  None,
  Requests,           \* requests in progress at once
  Families,           \* the families of sensitive paths
  STUB,               \* SENTINEL_STUB: no statistical tier, no LLM
  ALERT_COOLDOWN,     \* in ticks, as is the next one
  RECON_HORIZON,
  RECON_FAMILY_THRESHOLD,
  MIN_WINDOW,         \* events below which T1 is not asked
  MAX_WINDOW,         \* the deque's maxlen
  MaxTime, MaxBatch, MaxEvents, MaxCanaries, MaxResets    \* bounds

ASSUME SentinelAssumption ==
  /\ Addresses \cap Cookies = {}
  /\ None \notin Addresses \cup Cookies \cup Families
  /\ None \notin [key: Addresses \cup Cookies, blame: Addresses]
  /\ None \notin Nat
  /\ STUB \in BOOLEAN
  /\ ALERT_COOLDOWN \in Nat /\ RECON_HORIZON \in Nat
  /\ RECON_FAMILY_THRESHOLD \in Nat
  /\ MIN_WINDOW \in Nat \ {0} /\ MAX_WINDOW \in Nat
  /\ \A b \in {MaxTime, MaxBatch, MaxEvents, MaxCanaries, MaxResets} : b \in Nat

VARIABLES
  now,
  WINDOWS,       \* of each key
  IP_RECON,      \* of each address: the families touched, or None
  ALERTED_IPS,   \* of each key: when its last cooldown started, or None
  STATS,
  phase,         \* of each request
  left,          \* events of its batch still to be read
  asked,         \* the event it asks the LLM about, and the address to blame
  tasks,         \* its BackgroundTasks: addresses of the signals to send
  resets,
  queued,        \* history, of each key: the signals since the last reset
  raised         \* history: the events since then that ended in an exception

cascade  == <<WINDOWS, IP_RECON, ALERTED_IPS, STATS, queued, raised>>
requests == <<phase, left, asked, tasks>>
vars     == <<now, cascade, requests, resets>>

-----------------------------------------------------------------------------
(* Types *)

Keys == Addresses \cup Cookies

Events == [src_ip: Addresses, session_id: Cookies \cup {None}]

\* What identifies a visitor: his cookie if there is one, his address if not.
KeyOf(e) == IF e.session_id # None THEN e.session_id ELSE e.src_ip

Counters ==
  {"events_total", "t0_eliminated", "t0_critical_triggered", "t1_evaluations",
   "t1_high_triggered", "t1_benign", "t2_evaluations", "t2_triggered",
   "canary_triggered", "window_skipped_small", "cumulative_recon_triggered"}

\*   idle     no request       working  running its code
\*   asking   awaits the LLM   sending  answered, its background tasks run
Phases == {"idle", "working", "asking", "sending"}

Recon == [families: SUBSET Families, last: Nat, fired: BOOLEAN]

Signals == [at: Nat, ip: Addresses]

\* Where an event may end without the counter of the place where it stopped.
Uncounted == {"gate", "features"}

TypeOK ==
  /\ now \in Nat
  /\ WINDOWS \in [Keys -> Seq(Addresses)]
  /\ IP_RECON \in [Addresses -> Recon \cup {None}]
  /\ ALERTED_IPS \in [Keys -> Nat \cup {None}]
  /\ STATS \in [Counters -> Nat]
  /\ phase \in [Requests -> Phases]
  /\ left \in [Requests -> Nat]
  /\ asked \in [Requests -> [key: Keys, blame: Addresses] \cup {None}]
  /\ tasks \in [Requests -> Seq(Addresses)]
  /\ resets \in Nat
  /\ queued \in [Keys -> Seq(Signals)]
  /\ raised \in [Uncounted -> Nat]

NoWindows  == [k \in Keys |-> <<>>]
NoRecon    == [a \in Addresses |-> None]
NoAlerts   == [k \in Keys |-> None]
NoCounts   == [c \in Counters |-> 0]
NoneRaised == [u \in Uncounted |-> 0]

Init ==
  /\ now = 0 /\ resets = 0
  /\ WINDOWS = NoWindows /\ IP_RECON = NoRecon
  /\ ALERTED_IPS = NoAlerts /\ STATS = NoCounts
  /\ queued = [k \in Keys |-> <<>>] /\ raised = NoneRaised
  /\ phase = [r \in Requests |-> "idle"]
  /\ left = [r \in Requests |-> 0]
  /\ asked = [r \in Requests |-> None]
  /\ tasks = [r \in Requests |-> <<>>]

-----------------------------------------------------------------------------
(* Helpers *)

\* The event loop runs no request's code.
Free == \A r \in Requests : phase[r] # "working"

Enter(r, p) == phase' = [phase EXCEPT ![r] = p]

Count(cs) ==
  STATS' = [c \in Counters |-> IF c \in cs THEN STATS[c] + 1 ELSE STATS[c]]

\* WINDOWS[key].clear()
ClearWindow(k) == WINDOWS' = [WINDOWS EXCEPT ![k] = <<>>]

\* The last n addresses of the window of e, itself included: appending drops
\* the oldest when the deque is full, pruning drops those that are too old.
Window(e, n) ==
  LET w == Append(WINDOWS[KeyOf(e)], e.src_ip)
  IN  SubSeq(w, Len(w) - n + 1, Len(w))

\* How many events can be left of it: timestamps are the sender's.
Lengths(e) == {n \in 0..MAX_WINDOW : n <= Len(WINDOWS[KeyOf(e)]) + 1}

\* Whom the LLM's verdict will name: the sender of the oldest event left.
Blame(e, n) == Head(Window(e, n))

\* _cooldown_check(k) answers True.
Cooling(k) == ALERTED_IPS[k] # None /\ now - ALERTED_IPS[k] < ALERT_COOLDOWN

\* The rest of _cooldown_check(k), which starts a cooldown when there is none.
StartCooldown(k) == ALERTED_IPS' = [ALERTED_IPS EXCEPT ![k] = now]

\* bg.add_task(_emit_signal, verdict)
QueueSignal(r, k, ip) ==
  /\ tasks' = [tasks EXCEPT ![r] = Append(@, ip)]
  /\ queued' = [queued EXCEPT ![k] = Append(@, [at |-> now, ip |-> ip])]

\* A signal, unless the key is cooling.
Signal(r, k, ip) ==
  IF Cooling(k)
    THEN UNCHANGED <<ALERTED_IPS, tasks, queued>>
    ELSE StartCooldown(k) /\ QueueSignal(r, k, ip)

\* The record of an address after an event of a family: a new one when there
\* is none or the last sensitive event is too long ago.
Recorded(e, fam) ==
  LET rec  == IP_RECON[e.src_ip]
      kept == rec # None /\ now - rec.last <= RECON_HORIZON
  IN  [families |-> (IF kept THEN rec.families ELSE {}) \cup {fam},
       last     |-> now,
       fired    |-> kept /\ rec.fired]

\* _cumulative_recon_check answers True.
Broad(e, fam) ==
  /\ fam # None
  /\ ~Recorded(e, fam).fired
  /\ Cardinality(Recorded(e, fam).families) >= RECON_FAMILY_THRESHOLD
  /\ ~Cooling(KeyOf(e))

-----------------------------------------------------------------------------
(* POST /logs *)

\* The cleanup of idle windows, once in a while, leaves no trace: the next event
\* of a key prunes the window again (Lengths).
ReceiveLogs(r, n) ==
  /\ Free /\ phase[r] = "idle"
  /\ STATS["events_total"] + n <= MaxEvents
  /\ Enter(r, "working")
  /\ left' = [left EXCEPT ![r] = n]
  /\ UNCHANGED <<now, cascade, asked, tasks, resets>>

\* The loop of ingest_logs reads its next event.
Reads(r) ==
  /\ phase[r] = "working" /\ left[r] > 0
  /\ left' = [left EXCEPT ![r] = @ - 1]
  /\ UNCHANGED <<now, resets, raised>>

\* T0: a critical rule matches.
T0Critical(r, e) ==
  /\ Reads(r)
  /\ Count({"events_total", "t0_critical_triggered"})
  /\ ClearWindow(KeyOf(e))
  /\ Signal(r, KeyOf(e), e.src_ip)
  /\ UNCHANGED <<IP_RECON, phase, asked>>

\* The breadth of an address's reconnaissance triggers.
ReconTriggers(r, e, fam, n) ==
  /\ Reads(r)
  /\ Broad(e, fam)
  /\ Count({"events_total", "cumulative_recon_triggered"})
  /\ WINDOWS' = [WINDOWS EXCEPT ![KeyOf(e)] = Window(e, n)]
  /\ IP_RECON' = [IP_RECON EXCEPT ![e.src_ip] =
       [families |-> Recorded(e, fam).families, last |-> now, fired |-> TRUE]]
  /\ StartCooldown(KeyOf(e))
  /\ QueueSignal(r, KeyOf(e), e.src_ip)
  /\ UNCHANGED <<phase, asked>>

\* It does not, and the event goes on down the cascade.
PassesRecon(e, fam) ==
  /\ ~Broad(e, fam)
  /\ IP_RECON' = IF fam = None THEN IP_RECON
                 ELSE [IP_RECON EXCEPT ![e.src_ip] = Recorded(e, fam)]

\* Mutant: the event is not counted where it stopped.
Eliminated_Uncounted(r, e, n) ==
  /\ Count({"events_total"} \cup
           (IF n < MIN_WINDOW THEN {"window_skipped_small"} ELSE {"t0_eliminated"}))
  /\ WINDOWS' = [WINDOWS EXCEPT ![KeyOf(e)] = Window(e, n)]
  /\ UNCHANGED <<ALERTED_IPS, phase, asked, tasks, queued>>

\* The window is too small, or the heuristic gate finds nothing suspicious.
Eliminated(r, e, n) ==
  /\ Count({"events_total", "t0_eliminated"} \cup
           (IF n < MIN_WINDOW THEN {"window_skipped_small"} ELSE {}))
  /\ WINDOWS' = [WINDOWS EXCEPT ![KeyOf(e)] = Window(e, n)]
  /\ UNCHANGED <<ALERTED_IPS, phase, asked, tasks, queued>>

\* T1, or what stands for it in stub mode, is below its threshold.
T1Benign(r, e, n) ==
  /\ n >= MIN_WINDOW
  /\ Count({"events_total", "t1_evaluations", "t1_benign"})
  /\ WINDOWS' = [WINDOWS EXCEPT ![KeyOf(e)] = Window(e, n)]
  /\ UNCHANGED <<ALERTED_IPS, phase, asked, tasks, queued>>

\* T1 is certain. In stub mode the cooldown is not consulted.
T1High(r, e, n) ==
  /\ n >= MIN_WINDOW
  /\ Count({"events_total", "t1_evaluations", "t1_high_triggered"})
  /\ ClearWindow(KeyOf(e))
  /\ IF STUB THEN QueueSignal(r, KeyOf(e), e.src_ip) /\ UNCHANGED ALERTED_IPS
             ELSE Signal(r, KeyOf(e), e.src_ip)
  /\ UNCHANGED <<phase, asked>>

\* T1 is in doubt and the LLM is asked, about the window as it is now.
AskT2(r, e, n) ==
  /\ ~STUB /\ n >= MIN_WINDOW
  /\ Count({"events_total", "t1_evaluations", "t2_evaluations"})
  /\ WINDOWS' = [WINDOWS EXCEPT ![KeyOf(e)] = Window(e, n)]
  /\ asked' = [asked EXCEPT ![r] = [key |-> KeyOf(e), blame |-> Blame(e, n)]]
  /\ Enter(r, "asking")
  /\ UNCHANGED <<ALERTED_IPS, tasks, queued>>

Descends(r, e, fam, n) ==
  /\ Reads(r)
  /\ PassesRecon(e, fam)
  /\ Eliminated(r, e, n) \/ T1Benign(r, e, n) \/ T1High(r, e, n) \/ AskT2(r, e, n)

\* A window that mixes timestamps with and without a time zone raises where
\* two of them are subtracted, and nothing catches it: the request answers 500,
\* the rest of its batch unread, and the signals it had queued go with the
\* response they were to follow.
Raises(r, e, n, cs, us) ==
  /\ phase[r] = "working" /\ left[r] > 0
  /\ Count(cs)
  /\ WINDOWS' = [WINDOWS EXCEPT ![KeyOf(e)] = Window(e, n)]
  /\ raised' = [u \in Uncounted |-> IF u \in us THEN raised[u] + 1 ELSE raised[u]]
  /\ left' = [left EXCEPT ![r] = 0]
  /\ tasks' = [tasks EXCEPT ![r] = <<>>]
  /\ Enter(r, "idle")
  /\ UNCHANGED <<now, ALERTED_IPS, asked, resets, queued>>

\* In the rate of the signal of a critical rule: no cooldown is started.
T0Raises(r, e, n) ==
  /\ n >= 2
  /\ Raises(r, e, n, {"events_total", "t0_critical_triggered"}, {})
  /\ UNCHANGED IP_RECON

\* In the rate the heuristic gate tests.
GateRaises(r, e, fam, n) ==
  /\ n >= MIN_WINDOW
  /\ PassesRecon(e, fam)
  /\ Raises(r, e, n, {"events_total"}, {"gate"})

\* In the intervals between events, when only those in the middle differ.
FeaturesRaise(r, e, fam, n) ==
  /\ ~STUB /\ n >= MIN_WINDOW
  /\ PassesRecon(e, fam)
  /\ Raises(r, e, n, {"events_total", "t1_evaluations"}, {"features"})

\* Mutant: the cooldown is consulted before the verdict.
Confident_CooldownFirst(r, yes) ==
  IF yes THEN Signal(r, asked[r].key, asked[r].blame)
  ELSE /\ IF Cooling(asked[r].key) THEN UNCHANGED ALERTED_IPS
                                   ELSE StartCooldown(asked[r].key)
       /\ UNCHANGED <<tasks, queued>>

\* Mutant: the cooldown was consulted before the LLM was asked.
Confident_StaleCheck(r, yes) ==
  IF yes THEN StartCooldown(asked[r].key) /\ QueueSignal(r, asked[r].key, asked[r].blame)
         ELSE UNCHANGED <<ALERTED_IPS, tasks, queued>>

\* The verdict of the LLM reaches the threshold, or not.
Confident(r, yes) ==
  IF yes THEN Signal(r, asked[r].key, asked[r].blame)
         ELSE UNCHANGED <<ALERTED_IPS, tasks, queued>>

\* The LLM answers; an error or a timeout is an answer without confidence.
AnswerT2(r, yes) ==
  /\ Free /\ phase[r] = "asking"
  /\ Enter(r, "working")
  /\ asked' = [asked EXCEPT ![r] = None]
  /\ Confident(r, yes)
  /\ IF yes THEN Count({"t2_triggered"}) /\ ClearWindow(asked[r].key)
            ELSE UNCHANGED <<STATS, WINDOWS>>
  /\ UNCHANGED <<now, IP_RECON, left, resets, raised>>

\* The batch is read: the response is sent and the background tasks begin.
Reply(r) ==
  /\ phase[r] = "working" /\ left[r] = 0
  /\ Enter(r, IF tasks[r] = <<>> THEN "idle" ELSE "sending")
  /\ UNCHANGED <<now, cascade, left, asked, tasks, resets>>

-----------------------------------------------------------------------------
(* Signals, canaries and the reset *)

\* Mutant: a POST that fails ends the request, tasks left or not.
EmitSignal_Once(r) ==
  /\ phase[r] = "sending" /\ tasks[r] # <<>>
  /\ tasks' = [tasks EXCEPT ![r] = Tail(@)]
  /\ Enter(r, "idle")
  /\ UNCHANGED <<now, cascade, left, asked, resets>>

\* The POST of a signal ends, delivered or lost: a failure is logged only.
EmitSignal(r) ==
  /\ phase[r] = "sending" /\ tasks[r] # <<>>
  /\ tasks' = [tasks EXCEPT ![r] = Tail(@)]
  /\ Enter(r, IF Len(tasks[r]) = 1 THEN "idle" ELSE "sending")
  /\ UNCHANGED <<now, cascade, left, asked, resets>>

\* POST /canary-hit: the cooldown is that of the address.
CanaryHit(r, a) ==
  /\ Free /\ phase[r] = "idle"
  /\ STATS["canary_triggered"] < MaxCanaries
  /\ Count({"canary_triggered"})
  /\ Signal(r, a, a)
  /\ Enter(r, IF Cooling(a) THEN "idle" ELSE "sending")
  /\ UNCHANGED <<now, WINDOWS, IP_RECON, left, asked, resets, raised>>

\* POST /admin/reset. Requests in progress go on.
AdminReset ==
  /\ Free /\ resets < MaxResets
  /\ resets' = resets + 1
  /\ WINDOWS' = NoWindows /\ IP_RECON' = NoRecon
  /\ ALERTED_IPS' = NoAlerts /\ STATS' = NoCounts
  /\ queued' = [k \in Keys |-> <<>>] /\ raised' = NoneRaised
  /\ UNCHANGED <<now, requests>>

Tick ==
  /\ now < MaxTime
  /\ now' = now + 1
  /\ UNCHANGED <<cascade, requests, resets>>

Ingest(r) ==
  \E e \in Events :
    \/ T0Critical(r, e)
    \/ \E fam \in Families, n \in Lengths(e) : ReconTriggers(r, e, fam, n)
    \/ \E n \in Lengths(e) : T0Raises(r, e, n)
    \/ \E fam \in Families \cup {None}, n \in Lengths(e) :
         Descends(r, e, fam, n) \/ GateRaises(r, e, fam, n) \/ FeaturesRaise(r, e, fam, n)

Answered(r) == \E yes \in BOOLEAN : AnswerT2(r, yes)

Next ==
  \/ \E r \in Requests, n \in 1..MaxBatch : ReceiveLogs(r, n)
  \/ \E r \in Requests : Ingest(r)
  \/ \E r \in Requests : Answered(r)
  \/ \E r \in Requests : Reply(r)
  \/ \E r \in Requests : EmitSignal(r)
  \/ \E r \in Requests, a \in Addresses : CanaryHit(r, a)
  \/ AdminReset
  \/ Tick

Spec == Init /\ [][Next]_vars

\* A request that runs goes on, every POST ends and the LLM answers or times
\* out; the ready queue of the event loop is first come, first served.
FairSpec ==
  Spec /\ \A r \in Requests :
    WF_vars(Ingest(r) \/ Reply(r) \/ EmitSignal(r)) /\ SF_vars(Answered(r))

-----------------------------------------------------------------------------
(* Properties *)

\* Every event is counted where it stopped, once, whatever other requests and
\* resets come between an event and the answer of its LLM (the comment on STATS);
\* only one that raises in the gate or in the features of T1 is counted nowhere.
EachEventStopsOnce ==
  /\ STATS["events_total"] =
       STATS["t0_critical_triggered"] + STATS["cumulative_recon_triggered"]
       + STATS["t0_eliminated"] + STATS["t1_evaluations"]
       + raised["gate"]
  /\ STATS["t1_evaluations"] =
       STATS["t1_high_triggered"] + STATS["t1_benign"] + STATS["t2_evaluations"]
       + raised["features"]

\* Two signals of a key are a cooldown apart, unless a reset came between,
\* whichever tiers, requests and batches they come from.
OneSignalPerCooldown ==
  \A k \in Keys : \A i, j \in 1..Len(queued[k]) :
    i < j => queued[k][i].at + ALERT_COOLDOWN <= queued[k][j].at

\* A cooldown runs from a signal: _cooldown_check starts one as a side effect, so
\* a caller that then queues nothing would hide the attacker from every tier.
CooldownHasSignal ==
  \A k \in Keys : ALERTED_IPS[k] # None =>
    \E i \in 1..Len(queued[k]) : queued[k][i].at = ALERTED_IPS[k]

\* Every queued signal is sent, or lost with a batch that raises: those of a batch
\* wait for its last event, and so for the LLM, and no request is left with tasks.
EverySignalLeaves == \A r \in Requests : tasks[r] # <<>> ~> tasks[r] = <<>>
=============================================================================
