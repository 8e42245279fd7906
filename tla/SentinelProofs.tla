--------------------------- MODULE SentinelProofs ---------------------------
(***************************************************************************)
(* What holds of the Sentinel for every set of visitors, every cascade and *)
(* every bound: its types, the bookkeeping of its counters, and the        *)
(* cooldown; and of its tiers for every rule, every kind of event and      *)
(* every window: their types, that gate and T1 agree on what is fast, and  *)
(* that the condition of a rule, however long, means what it says.         *)
(***************************************************************************)
EXTENDS Sentinel, Tiers, ListProofs, FiniteSetTheorems

(***************************************************************************)
(* Types                                                                   *)
(***************************************************************************)

\* The helpers by which every tier changes the state keep its types.
LEMMA SignalTypes ==
  ASSUME TypeOK, NEW r \in Requests, NEW k \in Keys, NEW ip \in Addresses,
         \/ Signal(r, k, ip)
         \/ StartCooldown(k) /\ QueueSignal(r, k, ip)
         \/ QueueSignal(r, k, ip) /\ UNCHANGED ALERTED_IPS
         \/ UNCHANGED <<ALERTED_IPS, tasks, queued>>
  PROVE  /\ ALERTED_IPS' \in [Keys -> Nat \cup {None}]
         /\ tasks' \in [Requests -> Seq(Addresses)]
         /\ queued' \in [Keys -> Seq(Signals)]
  <1>1. [at |-> now, ip |-> ip] \in Signals
    BY DEF TypeOK, Signals
  <1>2. /\ ALERTED_IPS \in [Keys -> Nat \cup {None}]
        /\ tasks \in [Requests -> Seq(Addresses)]
        /\ queued \in [Keys -> Seq(Signals)]
        /\ now \in Nat
    BY DEF TypeOK
  <1>3. CASE StartCooldown(k) /\ QueueSignal(r, k, ip)
    BY <1>1, <1>2, <1>3 DEF StartCooldown, QueueSignal
  <1>4. CASE QueueSignal(r, k, ip) /\ UNCHANGED ALERTED_IPS
    BY <1>1, <1>2, <1>4 DEF QueueSignal
  <1>5. CASE UNCHANGED <<ALERTED_IPS, tasks, queued>>
    BY <1>2, <1>5
  <1> QED
    BY <1>3, <1>4, <1>5 DEF Signal

LEMMA CountTypes ==
  ASSUME TypeOK, NEW cs, Count(cs)
  PROVE  STATS' \in [Counters -> Nat]
  BY DEF TypeOK, Count

LEMMA ClearTypes ==
  ASSUME TypeOK, NEW k \in Keys, ClearWindow(k)
  PROVE  WINDOWS' \in [Keys -> Seq(Addresses)]
  <1>1. <<>> \in Seq(Addresses)
    OBVIOUS
  <1>2. WINDOWS \in [Keys -> Seq(Addresses)]
    BY DEF TypeOK
  <1> QED
    BY <1>1, <1>2 DEF ClearWindow

\* What reading an event leaves alone, and the batch it shortens.
LEMMA ReadTypes ==
  ASSUME TypeOK, NEW r \in Requests, Reads(r)
  PROVE  /\ now' \in Nat /\ resets' \in Nat
         /\ left' \in [Requests -> Nat]
         /\ raised' \in [Uncounted -> Nat]
  BY DEF TypeOK, Reads

LEMMA KeysOfEvents ==
  ASSUME NEW e \in Events
  PROVE  KeyOf(e) \in Keys /\ e.src_ip \in Addresses
  BY DEF Events, KeyOf, Keys

\* A window holds addresses, and is as long as it was asked to be.
LEMMA WindowTypes ==
  ASSUME TypeOK, NEW e \in Events, NEW n \in Lengths(e)
  PROVE  /\ n \in Nat
         /\ Window(e, n) \in Seq(Addresses)
         /\ Len(Window(e, n)) = n
         /\ [WINDOWS EXCEPT ![KeyOf(e)] = Window(e, n)] \in [Keys -> Seq(Addresses)]
         /\ n > 0 => Blame(e, n) \in Addresses
  <1> DEFINE w == Append(WINDOWS[KeyOf(e)], e.src_ip)
  <1>1. KeyOf(e) \in Keys /\ e.src_ip \in Addresses
    BY KeysOfEvents
  <1>2. WINDOWS \in [Keys -> Seq(Addresses)] /\ WINDOWS[KeyOf(e)] \in Seq(Addresses)
    BY <1>1 DEF TypeOK
  <1>3. w \in Seq(Addresses) /\ Len(w) = Len(WINDOWS[KeyOf(e)]) + 1
    BY <1>1, <1>2
  <1>4. n \in Nat /\ n <= Len(w)
    BY <1>2, <1>3, SentinelAssumption DEF Lengths
  <1>5. Window(e, n) = SubSeq(w, Len(w) - n + 1, Len(w))
    BY DEF Window
  <1> HIDE DEF w
  <1>6. Window(e, n) \in Seq(Addresses) /\ Len(Window(e, n)) = n
    BY <1>3, <1>4, <1>5
  <1>7. n > 0 => Blame(e, n) \in Addresses
    BY <1>6, <1>4 DEF Blame
  <1> QED
    BY <1>1, <1>2, <1>4, <1>6, <1>7

LEMMA ReconTypes ==
  ASSUME TypeOK, NEW e \in Events, NEW fam \in Families
  PROVE  /\ Recorded(e, fam) \in Recon
         /\ [families |-> Recorded(e, fam).families, last |-> now, fired |-> TRUE] \in Recon
  <1> DEFINE rec == IP_RECON[e.src_ip]
             kept == rec # None /\ now - rec.last <= RECON_HORIZON
  <1>1. rec \in Recon \cup {None} /\ now \in Nat
    BY KeysOfEvents DEF TypeOK
  <1>2. Recorded(e, fam) = [families |-> (IF kept THEN rec.families ELSE {}) \cup {fam},
                            last |-> now, fired |-> kept /\ rec.fired]
    BY DEF Recorded
  <1> HIDE DEF rec
  <1>3. (IF kept THEN rec.families ELSE {}) \in SUBSET Families
    BY <1>1 DEF Recon
  <1>4. (kept /\ rec.fired) \in BOOLEAN
    OBVIOUS
  <1> HIDE DEF kept
  <1> QED
    BY <1>1, <1>2, <1>3, <1>4 DEF Recon

LEMMA PassesTypes ==
  ASSUME TypeOK, NEW e \in Events, NEW fam \in Families \cup {None}, PassesRecon(e, fam)
  PROVE  IP_RECON' \in [Addresses -> Recon \cup {None}]
  <1>1. CASE fam = None
    BY <1>1 DEF PassesRecon, TypeOK
  <1>2. CASE fam \in Families
    BY <1>2, KeysOfEvents, ReconTypes DEF PassesRecon, TypeOK
  <1> QED
    BY <1>1, <1>2

\* An exception changes the reconnaissance of an address, or not, before it ends
\* the request.
LEMMA RaisesTypes ==
  ASSUME TypeOK, NEW r \in Requests, NEW e \in Events, NEW n \in Lengths(e), NEW cs, NEW us,
         Raises(r, e, n, cs, us), IP_RECON' \in [Addresses -> Recon \cup {None}]
  PROVE  TypeOK'
  <1>1. STATS' \in [Counters -> Nat]
    BY CountTypes DEF Raises
  <1>2. WINDOWS' \in [Keys -> Seq(Addresses)]
    BY WindowTypes DEF Raises
  <1>3. raised' \in [Uncounted -> Nat]
    BY DEF Raises, TypeOK
  <1>4. left' \in [Requests -> Nat]
    BY DEF Raises, TypeOK
  <1>5. tasks' \in [Requests -> Seq(Addresses)]
    <2>1. <<>> \in Seq(Addresses)
      OBVIOUS
    <2> QED
      BY <2>1 DEF Raises, TypeOK
  <1>6. phase' \in [Requests -> Phases]
    BY DEF Raises, Enter, Phases, TypeOK
  <1> QED
    BY <1>1, <1>2, <1>3, <1>4, <1>5, <1>6 DEF Raises, TypeOK

\* A request that awaits the LLM remembers what it asked.
AskedKnown == \A r \in Requests : phase[r] = "asking" => asked[r] # None

Typed == TypeOK /\ AskedKnown

LEMMA Types == Typed /\ [Next]_vars => TypeOK'
  <1> SUFFICES ASSUME TypeOK, AskedKnown, [Next]_vars PROVE TypeOK'
    BY DEF Typed
  <1> USE SentinelAssumption
  <1>1. ASSUME NEW r \in Requests, NEW n \in 1..MaxBatch, ReceiveLogs(r, n)
        PROVE  TypeOK'
    BY <1>1 DEF ReceiveLogs, Enter, Phases, TypeOK, cascade
  <1>2. ASSUME NEW r \in Requests, NEW e \in Events, T0Critical(r, e)
        PROVE  TypeOK'
    <2>1. KeyOf(e) \in Keys /\ e.src_ip \in Addresses
      BY KeysOfEvents
    <2>2. /\ ALERTED_IPS' \in [Keys -> Nat \cup {None}]
          /\ tasks' \in [Requests -> Seq(Addresses)]
          /\ queued' \in [Keys -> Seq(Signals)]
      BY <1>2, <2>1, SignalTypes DEF T0Critical
    <2>3. STATS' \in [Counters -> Nat]
      BY <1>2, CountTypes DEF T0Critical
    <2>4. WINDOWS' \in [Keys -> Seq(Addresses)]
      BY <1>2, <2>1, ClearTypes DEF T0Critical
    <2>5. /\ Reads(r)
          /\ IP_RECON' = IP_RECON /\ phase' = phase /\ asked' = asked
      BY <1>2 DEF T0Critical
    <2> QED
      BY <2>2, <2>3, <2>4, <2>5, ReadTypes DEF TypeOK
  <1>3. ASSUME NEW r \in Requests, NEW e \in Events, NEW fam \in Families,
               NEW n \in Lengths(e), ReconTriggers(r, e, fam, n)
        PROVE  TypeOK'
    <2>1. KeyOf(e) \in Keys /\ e.src_ip \in Addresses
      BY KeysOfEvents
    <2>2. /\ ALERTED_IPS' \in [Keys -> Nat \cup {None}]
          /\ tasks' \in [Requests -> Seq(Addresses)]
          /\ queued' \in [Keys -> Seq(Signals)]
      BY <1>3, <2>1, SignalTypes DEF ReconTriggers
    <2>3. STATS' \in [Counters -> Nat]
      BY <1>3, CountTypes DEF ReconTriggers
    <2>4. WINDOWS' \in [Keys -> Seq(Addresses)]
      BY <1>3, WindowTypes DEF ReconTriggers
    <2>5. [families |-> Recorded(e, fam).families, last |-> now, fired |-> TRUE] \in Recon
      BY ReconTypes
    <2>6. IP_RECON' \in [Addresses -> Recon \cup {None}]
      BY <1>3, <2>1, <2>5 DEF ReconTriggers, TypeOK
    <2>7. Reads(r) /\ phase' = phase /\ asked' = asked
      BY <1>3 DEF ReconTriggers
    <2> QED
      BY <2>2, <2>3, <2>4, <2>6, <2>7, ReadTypes DEF TypeOK
  <1>4. ASSUME NEW r \in Requests, NEW e \in Events, NEW fam \in Families \cup {None},
               NEW n \in Lengths(e), Descends(r, e, fam, n)
        PROVE  TypeOK'
    <2>1. KeyOf(e) \in Keys /\ e.src_ip \in Addresses
      BY KeysOfEvents
    <2>2. IP_RECON' \in [Addresses -> Recon \cup {None}]
      BY <1>4, PassesTypes DEF Descends
    <2>3. /\ now' = now /\ resets' = resets /\ raised' = raised
          /\ left' = [left EXCEPT ![r] = @ - 1] /\ left[r] > 0
      BY <1>4 DEF Descends, Reads
    <2>4. left' \in [Requests -> Nat]
      BY <2>3 DEF TypeOK
    <2>5. [WINDOWS EXCEPT ![KeyOf(e)] = Window(e, n)] \in [Keys -> Seq(Addresses)]
      BY WindowTypes
    <2>6. CASE Eliminated(r, e, n)
      <3>1. STATS' \in [Counters -> Nat]
        BY <2>6, CountTypes DEF Eliminated
      <3> QED
        BY <2>2, <2>3, <2>4, <2>5, <2>6, <3>1 DEF Eliminated, TypeOK
    <2>7. CASE T1Benign(r, e, n)
      <3>1. STATS' \in [Counters -> Nat]
        BY <2>7, CountTypes DEF T1Benign
      <3> QED
        BY <2>2, <2>3, <2>4, <2>5, <2>7, <3>1 DEF T1Benign, TypeOK
    <2>8. CASE T1High(r, e, n)
      <3>1. STATS' \in [Counters -> Nat]
        BY <2>8, CountTypes DEF T1High
      <3>2. /\ ALERTED_IPS' \in [Keys -> Nat \cup {None}]
            /\ tasks' \in [Requests -> Seq(Addresses)]
            /\ queued' \in [Keys -> Seq(Signals)]
        BY <2>8, <2>1, SignalTypes DEF T1High
      <3>3. WINDOWS' \in [Keys -> Seq(Addresses)]
        BY <2>1, <2>8, ClearTypes DEF T1High
      <3> QED
        BY <2>2, <2>3, <2>4, <2>8, <3>1, <3>2, <3>3 DEF T1High, TypeOK
    <2>9. CASE AskT2(r, e, n)
      <3>1. STATS' \in [Counters -> Nat]
        BY <2>9, CountTypes DEF AskT2
      <3>2. n > 0
        BY <2>9, WindowTypes DEF AskT2
      <3>3. [key |-> KeyOf(e), blame |-> Blame(e, n)] \in [key: Keys, blame: Addresses]
        BY <2>1, <3>2, WindowTypes
      <3>4. asked' \in [Requests -> [key: Keys, blame: Addresses] \cup {None}]
        BY <2>9, <3>3 DEF AskT2, TypeOK
      <3> QED
        BY <2>2, <2>3, <2>4, <2>5, <2>9, <3>1, <3>4 DEF AskT2, Enter, Phases, TypeOK
    <2> QED
      BY <1>4, <2>6, <2>7, <2>8, <2>9 DEF Descends
  <1>5. ASSUME NEW r \in Requests, NEW yes \in BOOLEAN, AnswerT2(r, yes)
        PROVE  TypeOK'
    <2>1. asked[r].key \in Keys /\ asked[r].blame \in Addresses
      BY <1>5 DEF TypeOK, AskedKnown, AnswerT2
    <2>2. /\ ALERTED_IPS' \in [Keys -> Nat \cup {None}]
          /\ tasks' \in [Requests -> Seq(Addresses)]
          /\ queued' \in [Keys -> Seq(Signals)]
      BY <1>5, <2>1, SignalTypes DEF AnswerT2, Confident
    <2>3. STATS' \in [Counters -> Nat]
      BY <1>5, CountTypes DEF AnswerT2, TypeOK
    <2>4. WINDOWS' \in [Keys -> Seq(Addresses)]
      BY <1>5, <2>1, ClearTypes DEF AnswerT2, TypeOK
    <2> QED
      BY <1>5, <2>2, <2>3, <2>4 DEF AnswerT2, Enter, Phases, TypeOK
  <1>6. ASSUME NEW r \in Requests, Reply(r)
        PROVE  TypeOK'
    BY <1>6 DEF Reply, Enter, Phases, TypeOK, cascade
  <1>7. ASSUME NEW r \in Requests, EmitSignal(r)
        PROVE  TypeOK'
    <2>1. Tail(tasks[r]) \in Seq(Addresses)
      BY <1>7 DEF EmitSignal, TypeOK
    <2>2. tasks' \in [Requests -> Seq(Addresses)]
      BY <1>7, <2>1 DEF EmitSignal, TypeOK
    <2> QED
      BY <1>7, <2>2 DEF EmitSignal, Enter, Phases, TypeOK, cascade
  <1>8. ASSUME NEW r \in Requests, NEW a \in Addresses, CanaryHit(r, a)
        PROVE  TypeOK'
    <2>1. /\ ALERTED_IPS' \in [Keys -> Nat \cup {None}]
          /\ tasks' \in [Requests -> Seq(Addresses)]
          /\ queued' \in [Keys -> Seq(Signals)]
      BY <1>8, SignalTypes DEF CanaryHit, Keys
    <2>2. STATS' \in [Counters -> Nat]
      BY <1>8, CountTypes DEF CanaryHit
    <2> QED
      BY <1>8, <2>1, <2>2 DEF CanaryHit, Enter, Phases, TypeOK
  <1>9. ASSUME AdminReset
        PROVE  TypeOK'
    BY <1>9 DEF AdminReset, NoWindows, NoRecon, NoAlerts, NoCounts, NoneRaised,
           TypeOK, requests
  <1>10. ASSUME Tick
         PROVE  TypeOK'
    BY <1>10 DEF Tick, TypeOK, cascade, requests
  <1>11. CASE UNCHANGED vars
    BY <1>11 DEF vars, TypeOK, cascade, requests
  <1>12. ASSUME NEW r \in Requests, NEW e \in Events, NEW n \in Lengths(e), T0Raises(r, e, n)
         PROVE  TypeOK'
    <2>1. IP_RECON' \in [Addresses -> Recon \cup {None}]
      BY <1>12 DEF T0Raises, TypeOK
    <2> QED
      BY <1>12, <2>1, RaisesTypes DEF T0Raises
  <1>13. ASSUME NEW r \in Requests, NEW e \in Events, NEW fam \in Families \cup {None},
                NEW n \in Lengths(e), GateRaises(r, e, fam, n) \/ FeaturesRaise(r, e, fam, n)
         PROVE  TypeOK'
    <2>1. IP_RECON' \in [Addresses -> Recon \cup {None}]
      BY <1>13, PassesTypes DEF GateRaises, FeaturesRaise
    <2> QED
      BY <1>13, <2>1, RaisesTypes DEF GateRaises, FeaturesRaise
  <1> QED
    BY <1>1, <1>2, <1>3, <1>4, <1>5, <1>6, <1>7, <1>8, <1>9, <1>10, <1>11, <1>12, <1>13
    DEF Next, Ingest, Answered

LEMMA Remembered == Typed /\ [Next]_vars => AskedKnown'
  <1> SUFFICES ASSUME TypeOK, AskedKnown, [Next]_vars, NEW r \in Requests,
                      phase'[r] = "asking"
               PROVE  asked'[r] # None
    BY DEF Typed, AskedKnown
  <1> USE DEF TypeOK, AskedKnown, Enter
  <1>1. ASSUME NEW q \in Requests, NEW n \in 1..MaxBatch, ReceiveLogs(q, n)
        PROVE  asked'[r] # None
    BY <1>1 DEF ReceiveLogs
  <1>2. ASSUME NEW q \in Requests, NEW e \in Events, T0Critical(q, e)
        PROVE  asked'[r] # None
    BY <1>2 DEF T0Critical
  <1>3. ASSUME NEW q \in Requests, NEW e \in Events, NEW fam \in Families,
               NEW n \in Lengths(e), ReconTriggers(q, e, fam, n)
        PROVE  asked'[r] # None
    BY <1>3 DEF ReconTriggers
  <1>4. ASSUME NEW q \in Requests, NEW e \in Events, NEW fam \in Families \cup {None},
               NEW n \in Lengths(e), Descends(q, e, fam, n)
        PROVE  asked'[r] # None
    <2>1. CASE AskT2(q, e, n)
      <3> DEFINE question == [key |-> KeyOf(e), blame |-> Blame(e, n)]
      <3>1. n > 0 /\ KeyOf(e) \in Keys
        BY SMTT(60), <2>1, WindowTypes, KeysOfEvents, SentinelAssumption DEF AskT2
      <3>2. question \in [key: Keys, blame: Addresses]
        BY <3>1, WindowTypes
      <3>3. question # None
        BY <3>2, SentinelAssumption DEF Keys
      <3> QED
        BY <2>1, <3>3 DEF AskT2
    <2> QED
      BY <1>4, <2>1 DEF Descends, Eliminated, T1Benign, T1High
  <1>5. ASSUME NEW q \in Requests, NEW yes \in BOOLEAN, AnswerT2(q, yes)
        PROVE  asked'[r] # None
    BY <1>5 DEF AnswerT2
  <1>6. ASSUME NEW q \in Requests, Reply(q) \/ EmitSignal(q)
        PROVE  asked'[r] # None
    BY <1>6 DEF Reply, EmitSignal
  <1>7. ASSUME NEW q \in Requests, NEW a \in Addresses, CanaryHit(q, a)
        PROVE  asked'[r] # None
    BY <1>7 DEF CanaryHit
  <1>8. CASE AdminReset \/ Tick \/ UNCHANGED vars
    BY <1>8 DEF AdminReset, Tick, vars, requests
  <1>9. ASSUME NEW q \in Requests, NEW e \in Events, NEW n \in Lengths(e), NEW cs, NEW us,
               Raises(q, e, n, cs, us)
        PROVE  asked'[r] # None
    BY <1>9 DEF Raises
  <1> QED
    BY <1>1, <1>2, <1>3, <1>4, <1>5, <1>6, <1>7, <1>8, <1>9
    DEF Next, Ingest, Answered, T0Raises, GateRaises, FeaturesRaise

LEMMA TypeInvariance == Spec => []Typed
  <1>1. Init => Typed
    BY SentinelAssumption
    DEF Init, Typed, TypeOK, AskedKnown, Phases, NoWindows, NoRecon, NoAlerts, NoCounts,
        NoneRaised
  <1>2. Typed /\ [Next]_vars => Typed'
    BY Types, Remembered DEF Typed
  <1> QED
    BY <1>1, <1>2, PTL DEF Spec

\* Every variable of the Sentinel keeps its type, whatever the batches, the
\* verdicts of the tiers and the visitors.
THEOREM TypeCorrect == Spec => []TypeOK
  <1>1. Typed => TypeOK
    BY DEF Typed
  <1> QED
    BY <1>1, TypeInvariance, PTL

(***************************************************************************)
(* Counters                                                                *)
(***************************************************************************)

LEMMA Counted ==
  ASSUME TypeOK, NEW cs, Count(cs)
  PROVE  \A c \in Counters :
           /\ STATS[c] \in Nat
           /\ STATS'[c] = IF c \in cs THEN STATS[c] + 1 ELSE STATS[c]
  BY DEF TypeOK, Count

\* The three ways the counters move.
LEMMA StopsEarly ==
  ASSUME TypeOK, EachEventStopsOnce,
         NEW c \in {"t0_critical_triggered", "cumulative_recon_triggered", "t0_eliminated"},
         NEW cs, {"events_total", c} \subseteq cs,
         cs \subseteq {"events_total", c, "window_skipped_small"}, Count(cs),
         raised' = raised
  PROVE  EachEventStopsOnce'
  <1>1. \A d \in Counters \ {"events_total", c, "window_skipped_small"} : STATS'[d] = STATS[d]
    BY Counted
  <1>2. \A d \in {"events_total", c} : STATS'[d] = STATS[d] + 1
    BY Counted DEF Counters
  <1>3. /\ STATS["events_total"] \in Nat
        /\ STATS["t0_critical_triggered"] \in Nat
        /\ STATS["cumulative_recon_triggered"] \in Nat
        /\ STATS["t0_eliminated"] \in Nat
        /\ STATS["t1_evaluations"] \in Nat
        /\ STATS["t1_high_triggered"] \in Nat
        /\ STATS["t1_benign"] \in Nat
        /\ STATS["t2_evaluations"] \in Nat
        /\ raised["gate"] \in Nat /\ raised["features"] \in Nat
        /\ raised'["gate"] = raised["gate"] /\ raised'["features"] = raised["features"]
    BY DEF TypeOK, Counters, Uncounted
  <1>4. CASE c = "t0_critical_triggered"
    <2>1. /\ STATS'["events_total"] = STATS["events_total"] + 1
          /\ STATS'["t0_critical_triggered"] = STATS["t0_critical_triggered"] + 1
          /\ STATS'["cumulative_recon_triggered"] = STATS["cumulative_recon_triggered"]
          /\ STATS'["t0_eliminated"] = STATS["t0_eliminated"]
          /\ STATS'["t1_evaluations"] = STATS["t1_evaluations"]
          /\ STATS'["t1_high_triggered"] = STATS["t1_high_triggered"]
          /\ STATS'["t1_benign"] = STATS["t1_benign"]
          /\ STATS'["t2_evaluations"] = STATS["t2_evaluations"]
      BY <1>1, <1>2, <1>4 DEF Counters
    <2> QED
      BY <1>3, <2>1 DEF EachEventStopsOnce
  <1>5. CASE c = "cumulative_recon_triggered"
    <2>1. /\ STATS'["events_total"] = STATS["events_total"] + 1
          /\ STATS'["t0_critical_triggered"] = STATS["t0_critical_triggered"]
          /\ STATS'["cumulative_recon_triggered"] = STATS["cumulative_recon_triggered"] + 1
          /\ STATS'["t0_eliminated"] = STATS["t0_eliminated"]
          /\ STATS'["t1_evaluations"] = STATS["t1_evaluations"]
          /\ STATS'["t1_high_triggered"] = STATS["t1_high_triggered"]
          /\ STATS'["t1_benign"] = STATS["t1_benign"]
          /\ STATS'["t2_evaluations"] = STATS["t2_evaluations"]
      BY <1>1, <1>2, <1>5 DEF Counters
    <2> QED
      BY <1>3, <2>1 DEF EachEventStopsOnce
  <1>6. CASE c = "t0_eliminated"
    <2>1. /\ STATS'["events_total"] = STATS["events_total"] + 1
          /\ STATS'["t0_critical_triggered"] = STATS["t0_critical_triggered"]
          /\ STATS'["cumulative_recon_triggered"] = STATS["cumulative_recon_triggered"]
          /\ STATS'["t0_eliminated"] = STATS["t0_eliminated"] + 1
          /\ STATS'["t1_evaluations"] = STATS["t1_evaluations"]
          /\ STATS'["t1_high_triggered"] = STATS["t1_high_triggered"]
          /\ STATS'["t1_benign"] = STATS["t1_benign"]
          /\ STATS'["t2_evaluations"] = STATS["t2_evaluations"]
      BY <1>1, <1>2, <1>6 DEF Counters
    <2> QED
      BY <1>3, <2>1 DEF EachEventStopsOnce
  <1> QED
    BY <1>4, <1>5, <1>6

LEMMA StopsAtT1 ==
  ASSUME TypeOK, EachEventStopsOnce,
         NEW c \in {"t1_high_triggered", "t1_benign", "t2_evaluations"},
         Count({"events_total", "t1_evaluations", c}), raised' = raised
  PROVE  EachEventStopsOnce'
  <1>1. \A d \in Counters \ {"events_total", "t1_evaluations", c} : STATS'[d] = STATS[d]
    BY Counted
  <1>2. \A d \in {"events_total", "t1_evaluations", c} : STATS'[d] = STATS[d] + 1
    BY Counted DEF Counters
  <1>3. /\ STATS["events_total"] \in Nat
        /\ STATS["t0_critical_triggered"] \in Nat
        /\ STATS["cumulative_recon_triggered"] \in Nat
        /\ STATS["t0_eliminated"] \in Nat
        /\ STATS["t1_evaluations"] \in Nat
        /\ STATS["t1_high_triggered"] \in Nat
        /\ STATS["t1_benign"] \in Nat
        /\ STATS["t2_evaluations"] \in Nat
        /\ raised["gate"] \in Nat /\ raised["features"] \in Nat
        /\ raised'["gate"] = raised["gate"] /\ raised'["features"] = raised["features"]
    BY DEF TypeOK, Counters, Uncounted
  <1>4. CASE c = "t1_high_triggered"
    <2>1. /\ STATS'["events_total"] = STATS["events_total"] + 1
          /\ STATS'["t0_critical_triggered"] = STATS["t0_critical_triggered"]
          /\ STATS'["cumulative_recon_triggered"] = STATS["cumulative_recon_triggered"]
          /\ STATS'["t0_eliminated"] = STATS["t0_eliminated"]
          /\ STATS'["t1_evaluations"] = STATS["t1_evaluations"] + 1
          /\ STATS'["t1_high_triggered"] = STATS["t1_high_triggered"] + 1
          /\ STATS'["t1_benign"] = STATS["t1_benign"]
          /\ STATS'["t2_evaluations"] = STATS["t2_evaluations"]
      BY <1>1, <1>2, <1>4 DEF Counters
    <2> QED
      BY <1>3, <2>1 DEF EachEventStopsOnce
  <1>5. CASE c = "t1_benign"
    <2>1. /\ STATS'["events_total"] = STATS["events_total"] + 1
          /\ STATS'["t0_critical_triggered"] = STATS["t0_critical_triggered"]
          /\ STATS'["cumulative_recon_triggered"] = STATS["cumulative_recon_triggered"]
          /\ STATS'["t0_eliminated"] = STATS["t0_eliminated"]
          /\ STATS'["t1_evaluations"] = STATS["t1_evaluations"] + 1
          /\ STATS'["t1_high_triggered"] = STATS["t1_high_triggered"]
          /\ STATS'["t1_benign"] = STATS["t1_benign"] + 1
          /\ STATS'["t2_evaluations"] = STATS["t2_evaluations"]
      BY <1>1, <1>2, <1>5 DEF Counters
    <2> QED
      BY <1>3, <2>1 DEF EachEventStopsOnce
  <1>6. CASE c = "t2_evaluations"
    <2>1. /\ STATS'["events_total"] = STATS["events_total"] + 1
          /\ STATS'["t0_critical_triggered"] = STATS["t0_critical_triggered"]
          /\ STATS'["cumulative_recon_triggered"] = STATS["cumulative_recon_triggered"]
          /\ STATS'["t0_eliminated"] = STATS["t0_eliminated"]
          /\ STATS'["t1_evaluations"] = STATS["t1_evaluations"] + 1
          /\ STATS'["t1_high_triggered"] = STATS["t1_high_triggered"]
          /\ STATS'["t1_benign"] = STATS["t1_benign"]
          /\ STATS'["t2_evaluations"] = STATS["t2_evaluations"] + 1
      BY <1>1, <1>2, <1>6 DEF Counters
    <2> QED
      BY <1>3, <2>1 DEF EachEventStopsOnce
  <1> QED
    BY <1>4, <1>5, <1>6

LEMMA CountsElsewhere ==
  ASSUME TypeOK, EachEventStopsOnce, NEW c \in {"t2_triggered", "canary_triggered"}, Count({c}),
         raised' = raised
  PROVE  EachEventStopsOnce'
  <1>1. \A d \in Counters \ {c} : STATS'[d] = STATS[d]
    BY Counted
  <1> QED
    BY <1>1 DEF Counters, EachEventStopsOnce

\* An event that raises is counted where it got to, or as raised.
LEMMA StopsRaising ==
  ASSUME TypeOK, EachEventStopsOnce, NEW r \in Requests, NEW e \in Events, NEW n \in Lengths(e),
         \/ Raises(r, e, n, {"events_total", "t0_critical_triggered"}, {})
         \/ Raises(r, e, n, {"events_total"}, {"gate"})
         \/ Raises(r, e, n, {"events_total", "t1_evaluations"}, {"features"})
  PROVE  EachEventStopsOnce'
  <1>1. raised \in [Uncounted -> Nat] /\ \A d \in Counters : STATS[d] \in Nat
    BY DEF TypeOK
  <1>2. CASE Raises(r, e, n, {"events_total", "t0_critical_triggered"}, {})
    <2>1. Count({"events_total", "t0_critical_triggered"}) /\ raised' = raised
      BY <1>1, <1>2 DEF Raises
    <2> QED
      BY <2>1, StopsEarly
  <1>3. CASE Raises(r, e, n, {"events_total"}, {"gate"})
    <2>1. Count({"events_total"})
      BY <1>3 DEF Raises
    <2>2. /\ STATS'["events_total"] = STATS["events_total"] + 1
          /\ \A d \in Counters \ {"events_total"} : STATS'[d] = STATS[d]
      BY <2>1, Counted DEF Counters
    <2>3. raised'["gate"] = raised["gate"] + 1 /\ raised'["features"] = raised["features"]
      BY <1>3 DEF Raises, Uncounted
    <2>4. raised["gate"] \in Nat /\ raised["features"] \in Nat
      BY <1>1 DEF Uncounted
    <2> QED
      BY <1>1, <2>2, <2>3, <2>4 DEF Counters, EachEventStopsOnce
  <1>4. CASE Raises(r, e, n, {"events_total", "t1_evaluations"}, {"features"})
    <2>1. Count({"events_total", "t1_evaluations"})
      BY <1>4 DEF Raises
    <2>2. /\ STATS'["events_total"] = STATS["events_total"] + 1
          /\ STATS'["t1_evaluations"] = STATS["t1_evaluations"] + 1
          /\ \A d \in Counters \ {"events_total", "t1_evaluations"} : STATS'[d] = STATS[d]
      BY <2>1, Counted DEF Counters
    <2>3. raised'["gate"] = raised["gate"] /\ raised'["features"] = raised["features"] + 1
      BY <1>4 DEF Raises, Uncounted
    <2>4. raised["gate"] \in Nat /\ raised["features"] \in Nat
      BY <1>1 DEF Uncounted
    <2> QED
      BY <1>1, <2>2, <2>3, <2>4 DEF Counters, EachEventStopsOnce
  <1> QED
    BY <1>2, <1>3, <1>4

LEMMA StopsOnce == TypeOK /\ EachEventStopsOnce /\ [Next]_vars => EachEventStopsOnce'
  <1> SUFFICES ASSUME TypeOK, EachEventStopsOnce, [Next]_vars PROVE EachEventStopsOnce'
    OBVIOUS
  <1>1. ASSUME NEW r \in Requests, NEW e \in Events, T0Critical(r, e)
        PROVE  EachEventStopsOnce'
    <2>1. Count({"events_total", "t0_critical_triggered"}) /\ raised' = raised
      BY <1>1 DEF T0Critical, Reads
    <2> QED
      BY <2>1, StopsEarly
  <1>2. ASSUME NEW r \in Requests, NEW e \in Events, NEW fam \in Families,
               NEW n \in Lengths(e), ReconTriggers(r, e, fam, n)
        PROVE  EachEventStopsOnce'
    <2>1. Count({"events_total", "cumulative_recon_triggered"}) /\ raised' = raised
      BY <1>2 DEF ReconTriggers, Reads
    <2> QED
      BY <2>1, StopsEarly
  <1>3. ASSUME NEW r \in Requests, NEW e \in Events, NEW fam \in Families \cup {None},
               NEW n \in Lengths(e), Descends(r, e, fam, n)
        PROVE  EachEventStopsOnce'
    <2>5. raised' = raised
      BY <1>3 DEF Descends, Reads
    <2>1. CASE Eliminated(r, e, n)
      <3>1. CASE n < MIN_WINDOW
        <4>1. Count({"events_total", "t0_eliminated"} \cup {"window_skipped_small"})
          BY <2>1, <3>1 DEF Eliminated
        <4> QED
          BY <4>1, <2>5, StopsEarly
      <3>2. CASE ~(n < MIN_WINDOW)
        <4>1. Count({"events_total", "t0_eliminated"} \cup {})
          BY <2>1, <3>2 DEF Eliminated
        <4> QED
          BY <4>1, <2>5, StopsEarly
      <3> QED
        BY <3>1, <3>2
    <2>2. CASE T1Benign(r, e, n)
      <3>1. Count({"events_total", "t1_evaluations", "t1_benign"})
        BY <2>2 DEF T1Benign
      <3> QED
        BY <3>1, <2>5, StopsAtT1
    <2>3. CASE T1High(r, e, n)
      <3>1. Count({"events_total", "t1_evaluations", "t1_high_triggered"})
        BY <2>3 DEF T1High
      <3> QED
        BY <3>1, <2>5, StopsAtT1
    <2>4. CASE AskT2(r, e, n)
      <3>1. Count({"events_total", "t1_evaluations", "t2_evaluations"})
        BY <2>4 DEF AskT2
      <3> QED
        BY <3>1, <2>5, StopsAtT1
    <2> QED
      BY <1>3, <2>1, <2>2, <2>3, <2>4 DEF Descends
  <1>4. ASSUME NEW r \in Requests, NEW yes \in BOOLEAN, AnswerT2(r, yes)
        PROVE  EachEventStopsOnce'
    <2>1. CASE yes
      <3>1. Count({"t2_triggered"}) /\ raised' = raised
        BY <1>4, <2>1 DEF AnswerT2
      <3> QED
        BY <3>1, CountsElsewhere
    <2> QED
      BY <1>4, <2>1 DEF AnswerT2, EachEventStopsOnce
  <1>5. ASSUME NEW r \in Requests, NEW a \in Addresses, CanaryHit(r, a)
        PROVE  EachEventStopsOnce'
    <2>1. Count({"canary_triggered"}) /\ raised' = raised
      BY <1>5 DEF CanaryHit
    <2> QED
      BY <2>1, CountsElsewhere
  <1>6. CASE AdminReset
    BY <1>6 DEF AdminReset, NoCounts, NoneRaised, Uncounted, Counters, EachEventStopsOnce
  <1>7. CASE UNCHANGED <<STATS, raised>>
    BY <1>7 DEF EachEventStopsOnce
  <1>8. ASSUME NEW r \in Requests, NEW e \in Events, NEW fam \in Families \cup {None},
               NEW n \in Lengths(e),
               T0Raises(r, e, n) \/ GateRaises(r, e, fam, n) \/ FeaturesRaise(r, e, fam, n)
        PROVE  EachEventStopsOnce'
    BY <1>8, StopsRaising DEF T0Raises, GateRaises, FeaturesRaise
  <1> QED
    BY <1>1, <1>2, <1>3, <1>4, <1>5, <1>6, <1>7, <1>8
    DEF Next, Ingest, Answered, ReceiveLogs, Reply, EmitSignal, Tick, vars, cascade

\* Every event is counted where it stopped, once, however requests interleave.
THEOREM EventsStopOnce == Spec => []EachEventStopsOnce
  <1>1. Init => EachEventStopsOnce
    BY DEF Init, NoCounts, NoneRaised, Uncounted, Counters, EachEventStopsOnce
  <1>2. Typed /\ EachEventStopsOnce /\ [Next]_vars => EachEventStopsOnce'
    BY StopsOnce DEF Typed
  <1> QED
    BY <1>1, <1>2, TypeInvariance, PTL DEF Spec

(***************************************************************************)
(* The cooldown                                                            *)
(***************************************************************************)

\* All that a step can do to the cooldown and the signals of one key: nothing
\* (time may pass), a signal that starts a cooldown, a signal of stub mode that
\* starts none, or a reset.
Quiet(k) ==
  /\ ALERTED_IPS'[k] = ALERTED_IPS[k] /\ queued'[k] = queued[k]
  /\ now' \in Nat /\ now <= now'

Fires(k, ip) ==
  /\ ~Cooling(k) /\ now' = now
  /\ ALERTED_IPS'[k] = now
  /\ queued'[k] = Append(queued[k], [at |-> now, ip |-> ip])

FiresUncooled(k, ip) ==
  /\ STUB /\ now' = now
  /\ ALERTED_IPS'[k] = ALERTED_IPS[k]
  /\ queued'[k] = Append(queued[k], [at |-> now, ip |-> ip])

Forgets(k) ==
  /\ ALERTED_IPS'[k] = None /\ queued'[k] = <<>> /\ now' = now

KeyStep(k) ==
  \/ Quiet(k)
  \/ \E ip \in Addresses : Fires(k, ip) \/ FiresUncooled(k, ip)
  \/ Forgets(k)

LEMMA StartedStep ==
  ASSUME TypeOK, NEW r \in Requests, NEW k \in Keys, NEW ip \in Addresses, NEW l \in Keys,
         now' = now, ~Cooling(k), StartCooldown(k), QueueSignal(r, k, ip)
  PROVE  KeyStep(l)
  <1>1. /\ ALERTED_IPS \in [Keys -> Nat \cup {None}] /\ queued \in [Keys -> Seq(Signals)]
        /\ now \in Nat
    BY DEF TypeOK
  <1>2. CASE l = k
    BY <1>1, <1>2 DEF KeyStep, Fires, StartCooldown, QueueSignal
  <1>3. CASE l # k
    BY <1>1, <1>3 DEF KeyStep, Quiet, StartCooldown, QueueSignal
  <1> QED
    BY <1>2, <1>3

LEMMA SignalStep ==
  ASSUME TypeOK, NEW r \in Requests, NEW k \in Keys, NEW ip \in Addresses, NEW l \in Keys,
         now' = now, Signal(r, k, ip)
  PROVE  KeyStep(l)
  <1>1. CASE Cooling(k)
    BY <1>1 DEF Signal, KeyStep, Quiet, TypeOK
  <1>2. CASE ~Cooling(k)
    BY <1>2, StartedStep DEF Signal
  <1> QED
    BY <1>1, <1>2

LEMMA EveryKeySteps ==
  ASSUME Typed, [Next]_vars, NEW l \in Keys
  PROVE  KeyStep(l)
  <1> USE DEF Typed
  <1>1. ASSUME NEW r \in Requests, NEW e \in Events, T0Critical(r, e)
        PROVE  KeyStep(l)
    BY <1>1, SignalStep, KeysOfEvents DEF T0Critical, Reads
  <1>2. ASSUME NEW r \in Requests, NEW e \in Events, NEW fam \in Families,
               NEW n \in Lengths(e), ReconTriggers(r, e, fam, n)
        PROVE  KeyStep(l)
    BY <1>2, StartedStep, KeysOfEvents DEF ReconTriggers, Reads, Broad
  <1>3. ASSUME NEW r \in Requests, NEW e \in Events, NEW fam \in Families \cup {None},
               NEW n \in Lengths(e), Descends(r, e, fam, n)
        PROVE  KeyStep(l)
    <2>1. now' = now
      BY <1>3 DEF Descends, Reads
    <2>2. CASE T1High(r, e, n) /\ STUB
      <3>1. CASE l = KeyOf(e)
        BY <2>1, <2>2, <3>1, KeysOfEvents DEF T1High, QueueSignal, KeyStep, FiresUncooled, TypeOK
      <3>2. CASE l # KeyOf(e)
        BY <2>1, <2>2, <3>2, KeysOfEvents DEF T1High, QueueSignal, KeyStep, Quiet, TypeOK
      <3> QED
        BY <3>1, <3>2
    <2>3. CASE T1High(r, e, n) /\ ~STUB
      BY <2>1, <2>3, SignalStep, KeysOfEvents DEF T1High
    <2>4. CASE Eliminated(r, e, n) \/ T1Benign(r, e, n) \/ AskT2(r, e, n)
      BY <2>1, <2>4 DEF Eliminated, T1Benign, AskT2, KeyStep, Quiet, TypeOK
    <2> QED
      BY <1>3, <2>2, <2>3, <2>4 DEF Descends
  <1>4. ASSUME NEW r \in Requests, NEW yes \in BOOLEAN, AnswerT2(r, yes)
        PROVE  KeyStep(l)
    <2>1. asked[r].key \in Keys /\ asked[r].blame \in Addresses /\ now' = now
      BY <1>4 DEF TypeOK, AskedKnown, AnswerT2
    <2>2. CASE yes
      BY <1>4, <2>1, <2>2, SignalStep DEF AnswerT2, Confident
    <2>3. CASE ~yes
      BY <1>4, <2>1, <2>3 DEF AnswerT2, Confident, KeyStep, Quiet, TypeOK
    <2> QED
      BY <2>2, <2>3
  <1>5. ASSUME NEW r \in Requests, NEW a \in Addresses, CanaryHit(r, a)
        PROVE  KeyStep(l)
    BY <1>5, SignalStep DEF CanaryHit, Keys
  <1>6. CASE AdminReset
    BY <1>6 DEF AdminReset, NoAlerts, KeyStep, Forgets
  <1>7. CASE Tick
    BY <1>7 DEF Tick, cascade, KeyStep, Quiet, TypeOK
  <1>8. CASE UNCHANGED <<now, ALERTED_IPS, queued>>
    BY <1>8 DEF KeyStep, Quiet, TypeOK
  <1>9. ASSUME NEW r \in Requests, NEW e \in Events, NEW n \in Lengths(e), NEW cs, NEW us,
               Raises(r, e, n, cs, us)
        PROVE  KeyStep(l)
    BY <1>8, <1>9 DEF Raises
  <1> QED
    BY <1>1, <1>2, <1>3, <1>4, <1>5, <1>6, <1>7, <1>8, <1>9
    DEF T0Raises, GateRaises, FeaturesRaise, Next, Ingest, Answered, ReceiveLogs, Reply, EmitSignal, vars, cascade

\* A cooldown started in the past, no signal came after the last one started,
\* and only stub mode sends a signal without starting one.
HasSignal(k) ==
  ALERTED_IPS[k] # None =>
    \E i \in 1..Len(queued[k]) : queued[k][i].at = ALERTED_IPS[k]

Covered(k) ==
  /\ ALERTED_IPS[k] # None => ALERTED_IPS[k] <= now
  /\ \A i \in 1..Len(queued[k]) :
       ALERTED_IPS[k] # None /\ queued[k][i].at <= ALERTED_IPS[k]

Spaced(k) ==
  \A i, j \in 1..Len(queued[k]) :
    i < j => queued[k][i].at + ALERT_COOLDOWN <= queued[k][j].at

LEMMA HasSignalKept ==
  ASSUME TypeOK, TypeOK', NEW k \in Keys, HasSignal(k), KeyStep(k)
  PROVE  HasSignal(k)'
  <1>1. queued[k] \in Seq(Signals) /\ now \in Nat
    BY DEF TypeOK
  <1>2. CASE Quiet(k)
    BY <1>2 DEF Quiet, HasSignal
  <1>3. ASSUME NEW ip \in Addresses, Fires(k, ip)
        PROVE  HasSignal(k)'
    <2> DEFINE s == [at |-> now, ip |-> ip]
    <2>1. Len(queued'[k]) = Len(queued[k]) + 1 /\ queued'[k][Len(queued[k]) + 1] = s
      BY <1>1, <1>3 DEF Fires, Signals
    <2>2. Len(queued[k]) + 1 \in 1..Len(queued'[k])
      BY <1>1, <2>1
    <2> QED
      BY <1>3, <2>1, <2>2 DEF Fires, HasSignal
  <1>4. ASSUME NEW ip \in Addresses, FiresUncooled(k, ip)
        PROVE  HasSignal(k)'
    <2>1. /\ Len(queued'[k]) = Len(queued[k]) + 1
          /\ \A i \in 1..Len(queued[k]) : queued'[k][i] = queued[k][i]
          /\ \A i \in 1..Len(queued[k]) : i \in 1..Len(queued'[k])
      BY <1>1, <1>4 DEF FiresUncooled, Signals
    <2> QED
      BY <1>4, <2>1 DEF FiresUncooled, HasSignal
  <1>5. CASE Forgets(k)
    BY <1>5 DEF Forgets, HasSignal
  <1> QED
    BY <1>2, <1>3, <1>4, <1>5 DEF KeyStep

LEMMA SpacingKept ==
  ASSUME TypeOK, TypeOK', NEW k \in Keys, ~STUB, Covered(k), Spaced(k), KeyStep(k)
  PROVE  Covered(k)' /\ Spaced(k)'
  <1>1. /\ queued[k] \in Seq(Signals) /\ now \in Nat
        /\ ALERTED_IPS[k] \in Nat \cup {None} /\ ALERT_COOLDOWN \in Nat
    BY SentinelAssumption DEF TypeOK
  <1>2. CASE Quiet(k)
    BY <1>1, <1>2 DEF Quiet, Covered, Spaced
  <1>3. ASSUME NEW ip \in Addresses, Fires(k, ip)
        PROVE  Covered(k)' /\ Spaced(k)'
    <2> DEFINE s == [at |-> now, ip |-> ip]
               m == Len(queued[k])
    <2>1. /\ Len(queued'[k]) = m + 1 /\ queued'[k][m + 1].at = now
          /\ m \in Nat
          /\ \A i \in 1..m : queued'[k][i] = queued[k][i]
          /\ \A i \in 1..m : queued[k][i].at \in Nat
      <3>1. s \in Signals /\ s.at = now /\ queued'[k] = Append(queued[k], s)
        BY <1>1, <1>3 DEF Fires, Signals
      <3> HIDE DEF s
      <3>2. \A i \in 1..m : queued[k][i] \in Signals
        BY <1>1
      <3>3. \A i \in 1..m : queued[k][i].at \in Nat
        BY <3>2 DEF Signals
      <3> QED
        BY <1>1, <3>1, <3>3
    <2>2. \A i \in 1..m : queued[k][i].at + ALERT_COOLDOWN <= now
      BY <1>1, <1>3, <2>1 DEF Fires, Cooling, Covered
    <2>3. now \in Nat /\ now # None
      BY <1>1, SentinelAssumption
    <2>4. /\ ALERTED_IPS'[k] = now /\ now' = now
          /\ \A i \in 1..m + 1 : i \in 1..m \/ i = m + 1
      BY <1>3, <2>1 DEF Fires
    <2> HIDE DEF m
    <2>5. Covered(k)'
      <3>1. ASSUME NEW i \in 1..m + 1
            PROVE  queued'[k][i].at <= now
        <4>1. CASE i = m + 1
          BY <2>1, <2>3, <4>1
        <4>2. CASE i \in 1..m
          <5>1. queued'[k][i].at = queued[k][i].at /\ queued[k][i].at \in Nat
            BY <2>1, <4>2
          <5>2. queued[k][i].at + ALERT_COOLDOWN <= now
            BY <2>2, <4>2
          <5>3. now \in Nat /\ ALERT_COOLDOWN \in Nat
            BY <1>1
          <5> QED
            BY ONLY <5>1, <5>2, <5>3
        <4> QED
          BY <2>4, <4>1, <4>2
      <3>2. now <= now
        BY <2>3
      <3> QED
        BY ONLY <2>1, <2>3, <2>4, <3>1, <3>2 DEF Covered
    <2>6. Spaced(k)'
      <3> SUFFICES ASSUME NEW i \in 1..m + 1, NEW j \in 1..m + 1, i < j
                   PROVE  queued'[k][i].at + ALERT_COOLDOWN <= queued'[k][j].at
        BY <2>1 DEF Spaced
      <3>1. CASE j = m + 1
        <4>1. i \in 1..m
          BY <2>1, <3>1
        <4> QED
          BY <2>1, <2>2, <2>4, <3>1, <4>1
      <3>2. CASE j \in 1..m
        <4>1. i \in 1..m
          BY <2>1, <3>2
        <4> QED
          BY <2>1, <3>2, <4>1 DEF Spaced, m
      <3> QED
        BY <2>4, <3>1, <3>2
    <2> QED
      BY <2>5, <2>6
  <1>4. CASE Forgets(k)
    BY <1>4 DEF Forgets, Covered, Spaced
  <1> QED
    BY <1>2, <1>3, <1>4 DEF KeyStep, FiresUncooled

\* A cooldown never hides an attacker nobody was told of, in stub mode or not.
THEOREM CooldownsHaveSignals == Spec => []CooldownHasSignal
  <1> DEFINE Inv == \A k \in Keys : HasSignal(k)
  <1>1. Init => Inv
    BY DEF Init, NoAlerts, HasSignal
  <1>2. Typed /\ Typed' /\ Inv /\ [Next]_vars => Inv'
    BY HasSignalKept, EveryKeySteps DEF Typed
  <1>3. Inv => CooldownHasSignal
    BY DEF HasSignal, CooldownHasSignal
  <1> QED
    BY <1>1, <1>2, <1>3, TypeInvariance, PTL DEF Spec

\* Outside stub mode a visitor's signals are a cooldown apart, whichever tiers,
\* batches and requests they come from.
THEOREM SignalsSpaced == ASSUME ~STUB PROVE Spec => []OneSignalPerCooldown
  <1> DEFINE Inv == \A k \in Keys : Covered(k) /\ Spaced(k)
  <1>1. Init => Inv
    BY DEF Init, NoAlerts, Covered, Spaced
  <1>2. Typed /\ Typed' /\ Inv /\ [Next]_vars => Inv'
    BY SpacingKept, EveryKeySteps DEF Typed
  <1>3. Inv => OneSignalPerCooldown
    BY DEF Spaced, OneSignalPerCooldown
  <1> QED
    BY <1>1, <1>2, <1>3, TypeInvariance, PTL DEF Spec

(***************************************************************************)
(* The tiers, for every rule, every kind of event and every length of the  *)
(* window                                                                  *)
(***************************************************************************)

\* F computes the sums of the beginnings of f, up to the first n of it.
Adds(F, f, n) == F = [i \in 0..n |-> IF i = 0 THEN 0 ELSE F[i - 1] + f[i]]

\* The recursion of Sum is well founded: some function satisfies it.
LEMMA SumIsComputed ==
  ASSUME NEW f, NEW n \in Nat
  PROVE  \E F : Adds(F, f, n)
<1> DEFINE T == {m \in Nat : ~ \E F : Adds(F, f, m)}
<1>1. SUFFICES ASSUME T # {} PROVE FALSE
  OBVIOUS
<1>2. PICK m \in T : \A k \in T : m <= k
  BY <1>1, LeastNumber
<1>3. m # 0
  <2> DEFINE F == [i \in 0..0 |-> 0]
  <2>1. Adds(F, f, 0)
    BY DEF Adds
  <2> QED BY <2>1
<1>4. m \in Nat /\ m - 1 \in Nat /\ m - 1 \notin T
  BY <1>2, <1>3
<1>5. PICK F : Adds(F, f, m - 1)
  BY <1>4
<1> DEFINE G == [i \in 0..m |-> IF i = m THEN F[m - 1] + f[m] ELSE F[i]]
<1>6. ASSUME NEW i \in 0..m PROVE G[i] = IF i = 0 THEN 0 ELSE G[i - 1] + f[i]
  <2>1. CASE i = m
    <3>1. m - 1 \in 0..m /\ m - 1 # m
      BY <1>4
    <3> QED BY <2>1, <3>1, <1>3
  <2>2. CASE i # m
    <3>1. i \in 0..m - 1 /\ (i # 0 => i - 1 \in 0..m - 1 /\ i - 1 \in 0..m /\ i - 1 # m)
      BY <2>2, <1>4
    <3>2. F[i] = IF i = 0 THEN 0 ELSE F[i - 1] + f[i]
      BY <3>1, <1>5 DEF Adds
    <3>3. G[i] = F[i] /\ (i # 0 => G[i - 1] = F[i - 1])
      BY <3>1, <2>2
    <3> HIDE DEF G
    <3> QED BY <3>2, <3>3
  <2> QED BY <2>1, <2>2
<1>7. Adds(G, f, m)
  <2>1. G = [i \in 0..m |-> G[i]]
    OBVIOUS
  <2> HIDE DEF G
  <2> QED BY <2>1, <1>6 DEF Adds
<1> QED BY <1>7, <1>2

\* What Sum returns, and that it is an integer.
LEMMA SumFacts ==
  ASSUME NEW f, NEW n \in Nat, \A i \in 1..n : f[i] \in Int
  PROVE  \E F : Adds(F, f, n) /\ Sum(f, n) = F[n] /\ \A i \in 0..n : F[i] \in Int
<1> DEFINE F == CHOOSE F : Adds(F, f, n)
<1>1. Sum(f, n) = F[n] /\ Adds(F, f, n)
  BY SumIsComputed DEF Sum, Adds
<1> HIDE DEF F
<1> DEFINE T == {i \in 0..n : F[i] \notin Int}
<1>2. ASSUME T # {} PROVE FALSE
  <2>1. T \in SUBSET Nat
    OBVIOUS
  <2>2. PICK i \in T : \A k \in T : i <= k
    <3> HIDE DEF T
    <3> QED BY <1>2, <2>1, LeastNumber
  <2>3. F[i] = IF i = 0 THEN 0 ELSE F[i - 1] + f[i]
    BY <1>1, <2>2 DEF Adds
  <2>4. i # 0
    BY <2>2, <2>3
  <2>5. i - 1 \in 0..n /\ i \in 1..n /\ i - 1 \notin T
    BY <2>2, <2>4
  <2> QED BY <2>2, <2>3, <2>4, <2>5
<1> QED BY <1>1, <1>2

\* The sum of seven numbers.
LEMMA SumOfSeven ==
  ASSUME NEW f, \A i \in 1..7 : f[i] \in Int
  PROVE  Sum(f, 7) = f[1] + f[2] + f[3] + f[4] + f[5] + f[6] + f[7]
<1>1. PICK F : Adds(F, f, 7) /\ Sum(f, 7) = F[7]
  BY SumFacts
<1>2. /\ F[0] = 0 /\ F[1] = F[0] + f[1] /\ F[2] = F[1] + f[2] /\ F[3] = F[2] + f[3]
      /\ F[4] = F[3] + f[4] /\ F[5] = F[4] + f[5] /\ F[6] = F[5] + f[6] /\ F[7] = F[6] + f[7]
  <2>1. \A i \in 0..7 : F[i] = IF i = 0 THEN 0 ELSE F[i - 1] + f[i]
    BY <1>1 DEF Adds
  <2>2. \A i \in 1..7 : F[i] = F[i - 1] + f[i]
    BY <2>1
  <2>3. /\ 1 - 1 = 0 /\ 2 - 1 = 1 /\ 3 - 1 = 2 /\ 4 - 1 = 3 /\ 5 - 1 = 4 /\ 6 - 1 = 5 /\ 7 - 1 = 6
        /\ {1, 2, 3, 4, 5, 6, 7} \subseteq 1..7 /\ 0 \in 0..7
    OBVIOUS
  <2> QED BY <2>1, <2>2, <2>3
<1> QED BY <1>1, <1>2

\* What the parts of a score can be.
LEMMA PartsFacts ==
  ASSUME NEW f
  PROVE  /\ Parts(f)[1] \in {0, 10, 25, 35} /\ Parts(f)[2] = Timing(f) /\ Timing(f) \in {0, 10, 35}
         /\ Parts(f)[3] \in {0, 10, 20} /\ Parts(f)[4] \in {0, 10, 25} /\ Parts(f)[5] \in {0, 5, 15}
         /\ Parts(f)[6] \in {0, 10} /\ Parts(f)[7] \in {0, 8, 15}
         /\ Above(f.rate_rps, 500) => Parts(f)[1] \in {10, 25, 35}
         /\ Parts(f) = <<Parts(f)[1], Parts(f)[2], Parts(f)[3], Parts(f)[4], Parts(f)[5],
                         Parts(f)[6], Parts(f)[7]>>
<1>1. Timing(f) \in {0, 10, 35}
  BY DEF Timing
<1> QED BY <1>1 DEF Parts

\* A score that was rounded down was one.
LEMMA ScoreFacts ==
  ASSUME NEW f
  PROVE  /\ Score(f) \in Nat
         /\ Above(f.rate_rps, 500) /\ Timing(f) = 35 => Score(f) >= 449
<1> DEFINE p == Parts(f)
<1>1. /\ p[1] \in {0, 10, 25, 35} /\ p[2] = Timing(f) /\ Timing(f) \in {0, 10, 35}
      /\ p[3] \in {0, 10, 20} /\ p[4] \in {0, 10, 25} /\ p[5] \in {0, 5, 15}
      /\ p[6] \in {0, 10} /\ p[7] \in {0, 8, 15}
      /\ Above(f.rate_rps, 500) => p[1] \in {10, 25, 35}
  BY PartsFacts
<1>2. Score(f) = 10 * Sum(p, 7) - (IF p \in RoundedDown THEN 1 ELSE 0)
  BY DEF Score
<1>3. p \in RoundedDown => p[4] + p[5] >= 1 \/ p[1] + p[3] >= 1
  BY DEF RoundedDown
<1> HIDE DEF p
<1>4. \A i \in 1..7 : p[i] \in Nat
  <2>1. \A i \in 1..7 : i = 1 \/ i = 2 \/ i = 3 \/ i = 4 \/ i = 5 \/ i = 6 \/ i = 7
    OBVIOUS
  <2>2. /\ p[1] \in Nat /\ p[2] \in Nat /\ p[3] \in Nat /\ p[4] \in Nat /\ p[5] \in Nat
        /\ p[6] \in Nat /\ p[7] \in Nat
    BY <1>1
  <2> QED BY <2>1, <2>2
<1>5. Sum(p, 7) = p[1] + p[2] + p[3] + p[4] + p[5] + p[6] + p[7]
  BY <1>4, SumOfSeven
<1>6. /\ Sum(p, 7) \in Nat /\ (p \in RoundedDown => Sum(p, 7) >= 1)
      /\ Above(f.rate_rps, 500) /\ Timing(f) = 35 => Sum(p, 7) >= 45
  BY <1>1, <1>3, <1>5
<1> QED BY <1>2, <1>6

\* The number of some of the events of a window is one.
LEMMA CountFacts ==
  ASSUME NEW S, NEW w \in Seq(S)
  PROVE  \A X \in SUBSET DOMAIN w : Cardinality(X) \in Nat
<1>1. DOMAIN w = 1..Len(w) /\ Len(w) \in Nat
  BY LenProperties
<1>2. IsFiniteSet(DOMAIN w)
  BY <1>1, FS_Interval
<1> QED BY <1>2, FS_Subset, FS_CardinalityType

LEMMA VotesFacts ==
  ASSUME NEW S, NEW w \in Seq(S), NEW v
  PROVE  Votes(w, v) \in Nat
<1>1. \A X \in SUBSET DOMAIN w : Cardinality(X) \in Nat
  BY CountFacts
<1> QED BY <1>1 DEF Votes, CountOf

\* Of five numbers there is a first largest one.
LEMMA FirstLargest ==
  ASSUME NEW V \in [1..5 -> Nat]
  PROVE  \E i \in 1..5 : /\ \A j \in 1..5 : V[j] <= V[i]
                         /\ \A j \in 1..(i - 1) : V[j] < V[i]
<1> DEFINE T == {n \in Nat : \E i \in 1..5 : n = V[i]}
           Largest == {i \in 1..5 : \A j \in 1..5 : V[j] <= V[i]}
<1>1. Largest # {}
  <2>1. /\ V[1] \in Nat /\ V[2] \in Nat /\ V[3] \in Nat /\ V[4] \in Nat /\ V[5] \in Nat
        /\ {1, 2, 3, 4, 5} \subseteq 1..5
        /\ \A j \in 1..5 : j = 1 \/ j = 2 \/ j = 3 \/ j = 4 \/ j = 5
    OBVIOUS
  <2>2. \E i \in {1, 2, 3, 4, 5} :
          V[1] <= V[i] /\ V[2] <= V[i] /\ V[3] <= V[i] /\ V[4] <= V[i] /\ V[5] <= V[i]
    BY <2>1
  <2> QED BY <2>1, <2>2
<1>2. Largest \in SUBSET Nat
  OBVIOUS
<1>3. PICK i \in Largest : \A k \in Largest : i <= k
  <2> HIDE DEF Largest
  <2> QED BY <1>1, <1>2, LeastNumber
<1>4. i \in 1..5 /\ \A j \in 1..5 : V[j] <= V[i]
  BY <1>3
<1>5. ASSUME NEW j \in 1..(i - 1) PROVE V[j] < V[i]
  <2>1. j \in 1..5 /\ j \notin Largest
    BY <1>3, <1>4
  <2>2. PICK k \in 1..5 : ~(V[k] <= V[j])
    BY <2>1
  <2> QED BY <2>1, <2>2, <1>4
<1> QED BY <1>4, <1>5

LEMMA DominantTypes ==
  ASSUME NEW S, NEW w \in Seq(S)
  PROVE  dominant_vector(w) \in Range(AttackVector)
<1> DEFINE V == [i \in 1..5 |-> Votes(w, AttackVector[i])]
           First(i) == /\ \A j \in 1..5 : Votes(w, AttackVector[j]) <= Votes(w, AttackVector[i])
                       /\ \A j \in 1..(i - 1) :
                            Votes(w, AttackVector[j]) < Votes(w, AttackVector[i])
           best == CHOOSE i \in 1..5 : First(i)
<1>1. V \in [1..5 -> Nat]
  BY VotesFacts
<1>2. \E i \in 1..5 : First(i)
  <2>1. PICK i \in 1..5 : /\ \A j \in 1..5 : V[j] <= V[i]
                          /\ \A j \in 1..(i - 1) : V[j] < V[i]
    <3> HIDE DEF V
    <3> QED BY <1>1, FirstLargest
  <2>2. \A j \in 1..(i - 1) : j \in 1..5
    OBVIOUS
  <2>3. \A j \in 1..5 : V[j] = Votes(w, AttackVector[j])
    OBVIOUS
  <2> HIDE DEF V
  <2> QED BY <2>1, <2>2, <2>3
<1>3. dominant_vector(w) = IF Votes(w, AttackVector[best]) > 0 THEN AttackVector[best] ELSE "recon"
  BY DEF dominant_vector
<1>4. best \in 1..5
  <2> HIDE DEF First
  <2> QED BY <1>2
<1> HIDE DEF best
<1>5. /\ 1..5 \subseteq DOMAIN AttackVector /\ 1 \in DOMAIN AttackVector
      /\ AttackVector[1] = "recon"
  BY DEF AttackVector
<1> QED BY <1>3, <1>4, <1>5 DEF Range

\* The heuristic's answer is a prediction.
LEMMA PredictTypes ==
  ASSUME NEW f
  PROVE  _heuristic_predict(f) \in [confidence: 0..1000, vector: Range(AttackVector)]
<1>1. Capped(Score(f)) \in 0..1000
  BY ScoreFacts DEF Capped
<1>2. {"recon", "brute_force", "injection", "ai-recon", "unknown"} \subseteq Range(AttackVector)
  BY DEF AttackVector, Range
<1> QED BY <1>1, <1>2 DEF _heuristic_predict

\* What is left of a window is one.
LEMMA LastTypes ==
  ASSUME NEW w \in Seq([kind: Kinds, gap: Int]), NEW n \in 1..Len(w)
  PROVE  Last(w, n) \in Seq([kind: Kinds, gap: Int]) /\ Len(Last(w, n)) = n
<1> DEFINE E == [kind: Kinds, gap: Int]
           rest == SubSeq(w, Len(w) - n + 1, Len(w))
<1>1. Len(w) \in Nat /\ n \in Nat /\ Len(w) - n + 1 \in 1..Len(w) + 1
  BY LenProperties
<1>2. rest \in Seq(E) /\ Len(rest) = n
  <2>1. w \in Seq(E)
    OBVIOUS
  <2> HIDE DEF E
  <2>2. \A i \in (Len(w) - n + 1)..Len(w) : w[i] \in E
    BY <1>1, <2>1, ElementOfSeq
  <2>3. Len(w) - n + 1 \in Int /\ Len(w) \in Int /\ Len(w) - n + 1 <= Len(w)
    BY <1>1
  <2>4. /\ rest \in Seq(E)
        /\ Len(rest) = IF Len(w) - n + 1 <= Len(w) THEN Len(w) - (Len(w) - n + 1) + 1 ELSE 0
    BY <2>2, <2>3, SubSeqProperties
  <2> HIDE DEF rest
  <2> QED BY <2>3, <2>4, <1>1
<1> HIDE DEF rest
<1>3. DOMAIN rest = 1..n /\ \A i \in 1..n : rest[i] \in E
  BY <1>2, ElementOfSeq, LenProperties
<1>4. \A i \in 1..n : (IF i = 1 THEN [rest[1] EXCEPT !.gap = 0] ELSE rest[i]) \in E
  BY <1>3
<1>5. Last(w, n) = [i \in 1..n |-> IF i = 1 THEN [rest[1] EXCEPT !.gap = 0] ELSE rest[i]]
  BY <1>3 DEF Last, rest
<1>6. Last(w, n) \in [1..n -> E]
  BY <1>4, <1>5
<1>7. Last(w, n) \in Seq(E)
  BY <1>6, <1>1, SeqDef
<1>8. 1..n = 1..Len(Last(w, n)) /\ Len(Last(w, n)) \in Nat
  BY <1>6, <1>7, LenProperties
<1> QED BY <1>1, <1>7, <1>8

\* What the tiers make of a window.
LEMMA JudgeTypes ==
  ASSUME NEW w \in Seq([kind: Kinds, gap: Int]), Len(w) <= MAXLEN, Judge(w)
  PROVE  /\ window' \in Seq([kind: Kinds, gap: Int]) /\ Len(window') <= MAXLEN
         /\ verdict' \in Verdicts
<1>1. <<>> \in Seq([kind: Kinds, gap: Int]) /\ Len(<<>>) <= MAXLEN
  BY EmptySeq, TiersAssumption
<1>2. "unknown" \in Range(AttackVector)
  BY DEF AttackVector, Range
<1>3. CASE /\ verdict' = [tier |-> "T0", confidence |-> 950, vector |-> dominant_vector(w)]
           /\ window' = <<>>
  BY <1>1, <1>3, DominantTypes DEF Verdicts
<1>4. CASE Stops("small", w) \/ Stops("gate", w)
  <2>1. /\ window' = w
        /\ \/ verdict' = [tier |-> "small", confidence |-> 0, vector |-> "unknown"]
           \/ verdict' = [tier |-> "gate", confidence |-> 0, vector |-> "unknown"]
    BY <1>4 DEF Stops, NoVerdict
  <2>2. 0 \in 0..1000
    OBVIOUS
  <2> QED BY <2>1, <2>2, <1>2 DEF Verdicts
<1>5. CASE Classify(w)
  <2>1. PICK p \in Predictions(extract_features(w)), tier \in {"T1", "benign", "T2"} :
          /\ verdict' = [tier |-> tier, confidence |-> p.confidence, vector |-> p.vector]
          /\ window' = <<>> \/ window' = w
    BY <1>5 DEF Classify
  <2>2. p \in [confidence: 0..1000, vector: Range(AttackVector)]
    <3> DEFINE P == [confidence: 0..1000, vector: Range(AttackVector)]
    <3>1. Booster \subseteq P
      BY TiersAssumption
    <3>2. _heuristic_predict(extract_features(w)) \in P
      BY PredictTypes
    <3> HIDE DEF P
    <3>3. p \in P
      BY <2>1, <3>1, <3>2 DEF Predictions
    <3> QED BY <3>3 DEF P
  <2> QED BY <2>1, <2>2, <1>1 DEF Verdicts
<1>6. CASE Behavioral(w)
  <2>1. 860 \in 0..1000 /\ "ai-recon" \in Range(AttackVector)
    BY DEF AttackVector, Range
  <2> QED BY <1>6, <2>1 DEF Behavioral, Verdicts
<1> QED BY <1>3, <1>4, <1>5, <1>6 DEF Judge

LEMMA TiersTypes == TiersTypeOK /\ [TiersNext]_tiersVars => TiersTypeOK'
<1> SUFFICES ASSUME TiersTypeOK, [TiersNext]_tiersVars PROVE TiersTypeOK'
  OBVIOUS
<1>1. ASSUME NEW t \in Tokens, Write(t) PROVE TiersTypeOK'
  <2>1. condition' \in Seq(Tokens)
    BY <1>1, AppendProperties DEF TiersTypeOK, Write
  <2> QED BY <2>1, <1>1 DEF TiersTypeOK, Write
<1>2. ASSUME NEW l \in {"low", "critical"}, Load(l) PROVE TiersTypeOK'
  BY <1>2 DEF TiersTypeOK, Load
<1>3. ASSUME NEW k \in Kinds, NEW g \in Gaps, NEW n \in 0..MaxExpired, Arrive(k, g, n)
      PROVE  TiersTypeOK'
  <2> DEFINE E    == [kind: Kinds, gap: Int]
             w    == Append(window, [kind |-> k, gap |-> g])
             full == IF Len(w) > MAXLEN THEN MAXLEN ELSE Len(w)
  <2>1. n < full /\ Judge(Last(w, full - n)) /\ UNCHANGED <<condition, level>>
    BY <1>3 DEF Arrive
  <2>2. w \in Seq(E) /\ Len(w) \in Nat
    <3>1. window \in Seq(E) /\ [kind |-> k, gap |-> g] \in E
      BY TiersAssumption DEF TiersTypeOK
    <3> HIDE DEF E
    <3> QED BY <3>1, AppendProperties, LenProperties
  <2> HIDE DEF w
  <2>3. full - n \in 1..Len(w) /\ full - n <= MAXLEN
    BY <2>1, <2>2, TiersAssumption
  <2>4. Last(w, full - n) \in Seq(E) /\ Len(Last(w, full - n)) <= MAXLEN
    <3> HIDE DEF full
    <3> QED BY <2>2, <2>3, LastTypes
  <2>5. /\ window' \in Seq(E) /\ Len(window') <= MAXLEN
        /\ verdict' \in Verdicts
    BY <2>1, <2>4, JudgeTypes
  <2> QED BY <2>1, <2>5 DEF TiersTypeOK
<1>4. CASE UNCHANGED tiersVars
  BY <1>4 DEF TiersTypeOK, tiersVars
<1> QED BY <1>1, <1>2, <1>3, <1>4 DEF TiersNext

\* The tiers keep their types, the window its length and confidence its range, whatever
\* the rule and whatever the model answers (ingest_logs; predict).
THEOREM TiersTypeCorrect == TiersSpec => []TiersTypeOK
<1>1. TiersInit => TiersTypeOK
  <2>1. "unknown" \in Range(AttackVector)
    BY DEF AttackVector, Range
  <2>2. NoVerdict \in Verdicts
    <3>1. 0 \in 0..1000
      OBVIOUS
    <3> QED BY <2>1, <3>1 DEF NoVerdict, Verdicts
  <2>3. <<>> \in Seq(Tokens) /\ <<>> \in Seq([kind: Kinds, gap: Int]) /\ Len(<<>>) <= MAXLEN
    BY EmptySeq, TiersAssumption
  <2> QED BY <2>2, <2>3 DEF TiersInit, TiersTypeOK
<1> QED BY <1>1, TiersTypes, PTL DEF TiersSpec

\* At six events a second the rate exceeds the five that score, and the pauses are short
\* enough for an agent's.
LEMMA FastScores ==
  ASSUME NEW n \in Nat, NEW d \in Int, n >= 3, d >= 1, 1000 * n >= 6 * d
  PROVE  100 * (1000 * n) > 500 * d /\ 0 < d /\ d < 1700 * (n - 1)
OBVIOUS

\* For a gate of six requests a second or more (its default is twenty), T1 never
\* dismisses a window that the gate let through for its rate, unless the rate or the
\* pauses were computed by a fallback (looks_suspicious; extract_features; predict).
THEOREM FastWindowsAreNotBenign ==
  ASSUME RPS_THRESHOLD >= 6
  PROVE  TiersSpec => []FastIsNotBenign
<1>1. TiersTypeOK => FastIsNotBenign
  <2> SUFFICES ASSUME TiersTypeOK, Len(window) >= 3, RpsReaches(window, RPS_THRESHOLD),
                      Dt(window) >= 1
               PROVE  _heuristic_predict(extract_features(window)).confidence >= 400
    BY DEF FastIsNotBenign
  <2> DEFINE n == Len(window)
             f == extract_features(window)
  <2>1. n \in Nat /\ DOMAIN window = 1..n /\ \A i \in 1..n : window[i].gap \in Int
    <3> DEFINE E == [kind: Kinds, gap: Int]
    <3>1. window \in Seq(E) /\ \A e \in E : e.gap \in Int
      BY DEF TiersTypeOK
    <3> HIDE DEF E
    <3> QED BY <3>1, ElementOfSeq, LenProperties
  <2>2. Dt(window) \in Int
    <3> DEFINE gap == [i \in DOMAIN window |-> window[i].gap]
    <3>1. \A i \in 1..n : gap[i] \in Int
      BY <2>1
    <3>2. Dt(window) = Sum(gap, n)
      BY DEF Dt
    <3> HIDE DEF gap
    <3>3. PICK F : Sum(gap, n) = F[n] /\ \A i \in 0..n : F[i] \in Int
      BY <2>1, <3>1, SumFacts
    <3>4. n \in 0..n
      BY <2>1
    <3> QED BY <3>2, <3>3, <3>4
  <2>3. 1000 * n >= 6 * Dt(window)
    <3>1. 1000 * n >= RPS_THRESHOLD * Dt(window)
      BY <2>2 DEF RpsReaches
    <3>2. RPS_THRESHOLD * Dt(window) >= 6 * Dt(window)
      <4>1. \A a, d \in Int : a >= 6 /\ d >= 1 => a * d >= 6 * d
        OBVIOUS
      <4>2. RPS_THRESHOLD \in Int
        BY TiersAssumption
      <4> QED BY <4>1, <4>2, <2>2
    <3> QED BY <3>1, <3>2, <2>1, <2>2, TiersAssumption
  <2>4. /\ 100 * (1000 * n) > 500 * Dt(window)
        /\ 0 < Dt(window) /\ Dt(window) < 1700 * (n - 1)
    BY <2>1, <2>2, <2>3, FastScores
  <2>5. f.rate_rps = <<1000 * n, Dt(window)>> /\ f.inter_mean = <<Dt(window), n - 1>>
    BY <2>1, <2>2 DEF extract_features
  <2> HIDE DEF f
  <2>6. Above(f.rate_rps, 500) /\ Timing(f) = 35
    <3> HIDE DEF n
    <3>1. /\ f.rate_rps[1] = 1000 * n /\ f.rate_rps[2] = Dt(window)
          /\ f.inter_mean[1] = Dt(window) /\ f.inter_mean[2] = n - 1
      BY <2>5
    <3>2. Above(f.rate_rps, 500)
      BY <2>4, <3>1 DEF Above
    <3>3. /\ 0 < f.inter_mean[1]
          /\ f.inter_mean[1] < 1700 * f.inter_mean[2]
      BY <2>4, <3>1
    <3>4. Timing(f) = 35
      <4>1. /\ f.inter_mean[1] \in Int /\ f.inter_mean[2] \in Int
            /\ 0 < f.inter_mean[1] /\ f.inter_mean[1] < 1700 * f.inter_mean[2]
        BY <2>1, <2>2, <3>1, <3>3
      <4> QED BY <4>1 DEF Timing
    <3> QED BY <3>2, <3>4
  <2>7. Score(f) \in Nat /\ Score(f) >= 449
    BY <2>6, ScoreFacts
  <2>8. Capped(Score(f)) >= 400
    BY <2>7 DEF Capped
  <2>9. _heuristic_predict(f).confidence = Capped(Score(f))
    BY DEF _heuristic_predict
  <2> QED BY <2>8, <2>9 DEF f
<1> QED BY <1>1, TiersTypeCorrect, PTL

(***************************************************************************)
(* Conditions, of any length: Parse is a function, though it is computed   *)
(* from the end of the condition to its beginning                          *)
(***************************************************************************)

Peek(tokens, i) == IF i <= Len(tokens) THEN tokens[i] ELSE ""

Follows(tokens, op, l) == l.ok /\ Peek(tokens, l.next) = op

\* l, and what is joined to it where op follows.
Chain(tokens, l, op, r) == IF Follows(tokens, op, l) THEN Both(l, r, op) ELSE l

\* One round of Parse, P being what it yields behind i.
Factor(P, tokens, truth, i) ==
  CASE Peek(tokens, i) = "not" ->
         IF P[i + 1].factor.ok
         THEN Parsed(~P[i + 1].factor.val, P[i + 1].factor.next) ELSE Failed
    [] Peek(tokens, i) = "(" ->
         IF Follows(tokens, ")", P[i + 1].expr)
         THEN Parsed(P[i + 1].expr.val, P[i + 1].expr.next + 1) ELSE Failed
    [] Peek(tokens, i) \in {"and", "or", ")", ""} -> Parsed(FALSE, i)
    [] OTHER -> Parsed(Peek(tokens, i) \in DOMAIN truth /\ truth[Peek(tokens, i)], i + 1)

Term(P, tokens, truth, i) ==
  Chain(tokens, Factor(P, tokens, truth, i), "and",
        P[Factor(P, tokens, truth, i).next + 1].term)

Expr(P, tokens, truth, i) ==
  Chain(tokens, Term(P, tokens, truth, i), "or", P[Term(P, tokens, truth, i).next + 1].expr)

Round(P, tokens, truth, i) ==
  [expr |-> Expr(P, tokens, truth, i), term |-> Term(P, tokens, truth, i),
   factor |-> Factor(P, tokens, truth, i)]

Parses(P, tokens, truth) ==
  P = [i \in 1..(Len(tokens) + 1) |-> Round(P, tokens, truth, i)]

LEMMA ParseIs ==
  ASSUME NEW tokens, NEW truth
  PROVE  Parse(tokens, truth) = (CHOOSE P : Parses(P, tokens, truth))[1].expr
  BY Zenon DEF Parse, Parses, Round, Expr, Term, Factor, Chain, Follows, Peek

Results == [ok: BOOLEAN, val: BOOLEAN, next: Nat]

\* l was parsed from i on: it does not end before i, nor beyond the end N.
EndsIn(l, i, N) == l \in Results /\ (l.ok => l.next \in i..(N + 1))

EndIn(R, i, N) == EndsIn(R.expr, i, N) /\ EndsIn(R.term, i, N) /\ EndsIn(R.factor, i, N)

LEMMA ResultFacts ==
  /\ \A v \in BOOLEAN, i \in Nat :
       /\ Parsed(v, i) \in Results
       /\ Parsed(v, i).ok /\ Parsed(v, i).val = v /\ Parsed(v, i).next = i
  /\ Failed \in Results /\ ~Failed.ok /\ ~Failed.val
  BY DEF Results, Parsed, Failed

LEMMA ResultIs ==
  ASSUME NEW r, NEW v \in BOOLEAN, NEW n \in Nat, r = Parsed(v, n)
  PROVE  r.ok /\ r.val = v /\ r.next = n
  BY ResultFacts, Zenon

LEMMA BothFacts ==
  ASSUME NEW l \in Results, NEW r \in Results, NEW op \in {"or", "and"}
  PROVE  /\ Both(l, r, op) \in Results
         /\ Both(l, r, op).ok <=> r.ok
         /\ r.ok => Both(l, r, op).next = r.next
  BY DEF Results, Parsed, Failed, Both

\* Only an end is empty.
LEMMA PeekFacts ==
  ASSUME NEW tokens, NEW i
  PROVE  /\ i <= Len(tokens) => Peek(tokens, i) = tokens[i]
         /\ Peek(tokens, i) # "" => i <= Len(tokens)
  BY Zenon DEF Peek

LEMMA ChainEnds ==
  ASSUME NEW S, NEW tokens \in Seq(S), NEW l, NEW r, NEW op \in {"or", "and"},
         NEW i \in 1..(Len(tokens) + 1), EndsIn(l, i, Len(tokens)),
         l.ok /\ l.next + 1 \in (i + 1)..(Len(tokens) + 1) =>
           EndsIn(r, l.next + 1, Len(tokens))
  PROVE  EndsIn(Chain(tokens, l, op, r), i, Len(tokens))
<1>0. Len(tokens) \in Nat
  OBVIOUS
<1>1. CASE ~Follows(tokens, op, l)
  BY <1>1 DEF Chain
<1>2. CASE Follows(tokens, op, l)
  <2>1. l \in Results /\ l.ok /\ l.next \in i..(Len(tokens) + 1) /\ Peek(tokens, l.next) = op
    BY <1>2 DEF Follows, EndsIn
  <2>2. l.next <= Len(tokens)
    BY <2>1 DEF Peek
  <2>3. l.next + 1 \in (i + 1)..(Len(tokens) + 1)
    BY <2>1, <2>2, <1>0
  <2>4. r \in Results /\ (r.ok => r.next \in (l.next + 1)..(Len(tokens) + 1))
    BY <2>1, <2>3 DEF EndsIn
  <2>5. Chain(tokens, l, op, r) = Both(l, r, op)
    BY <1>2 DEF Chain
  <2>6. r.ok => r.next \in i..(Len(tokens) + 1)
    BY <2>4, <2>1, <1>0
  <2>7. Both(l, r, op) \in Results /\ (Both(l, r, op).ok <=> r.ok)
        /\ (r.ok => Both(l, r, op).next = r.next)
    <3>1. l \in Results /\ r \in Results
      BY <2>1, <2>4
    <3> QED BY <3>1, BothFacts
  <2> QED BY ONLY <2>5, <2>6, <2>7 DEF EndsIn
<1> QED BY <1>1, <1>2

LEMMA FactorEnds ==
  ASSUME NEW S, NEW tokens \in Seq(S), NEW truth \in [Names -> BOOLEAN],
         NEW P, NEW i \in 1..(Len(tokens) + 1),
         i <= Len(tokens) => EndIn(P[i + 1], i + 1, Len(tokens))
  PROVE  EndsIn(Factor(P, tokens, truth, i), i, Len(tokens))
<1> DEFINE N == Len(tokens)
           p == Peek(tokens, i)
           F == Factor(P, tokens, truth, i)
<1>0. N \in Nat /\ i \in Nat
  OBVIOUS
<1>1. p # "" => i <= N
  BY PeekFacts
<1>2. p # "" => EndIn(P[i + 1], i + 1, N) /\ i + 1 \in i..(N + 1) /\ i + 1 \in Nat
  <2>1. i <= N => i + 1 \in i..(N + 1) /\ i + 1 \in Nat
    BY ONLY <1>0
  <2> HIDE DEF p, N
  <2> QED BY <1>1, <2>1 DEF N
<1>3. CASE p = "not"
  <2> DEFINE r == P[i + 1].factor
  <2>1. r \in Results /\ (r.ok => r.next \in (i + 1)..(N + 1))
    BY <1>2, <1>3 DEF EndIn, EndsIn
  <2>2. F = IF r.ok THEN Parsed(~r.val, r.next) ELSE Failed
    BY <1>3 DEF Factor
  <2> HIDE DEF r, F, N
  <2>3. r.ok \in BOOLEAN /\ r.val \in BOOLEAN /\ (~r.val) \in BOOLEAN /\ r.next \in Nat
    BY <2>1 DEF Results
  <2>4. r.ok => r.next \in i..(N + 1)
    BY <2>1, <1>0
  <2>5. EndsIn(F, i, N)
    BY <2>2, <2>3, <2>4, ResultFacts DEF EndsIn
  <2> QED BY <2>5 DEF F, N
<1>4. CASE p = "("
  <2> DEFINE r == P[i + 1].expr
  <2>1. r \in Results /\ (r.ok => r.next \in (i + 1)..(N + 1))
    BY <1>2, <1>4 DEF EndIn, EndsIn
  <2>2. F = IF Follows(tokens, ")", r) THEN Parsed(r.val, r.next + 1) ELSE Failed
    BY <1>4 DEF Factor
  <2>3. r.ok \in BOOLEAN /\ r.val \in BOOLEAN /\ r.next \in Nat
    BY <2>1 DEF Results
  <2>4. Follows(tokens, ")", r) => r.next <= N /\ r.ok
    BY DEF Follows, Peek
  <2> HIDE DEF r, F, N
  <2>5. Follows(tokens, ")", r) => r.next + 1 \in Nat /\ r.next + 1 \in i..(N + 1)
    BY <2>1, <2>3, <2>4, <1>0
  <2>6. EndsIn(F, i, N)
    BY <2>2, <2>3, <2>5, ResultFacts DEF EndsIn
  <2> QED BY <2>6 DEF F, N
<1>5. CASE p \in {"and", "or", ")", ""}
  <2>1. F = Parsed(FALSE, i)
    BY <1>5 DEF Factor
  <2>2. i \in i..(N + 1)
    BY <1>0
  <2> HIDE DEF F, p, N
  <2>3. EndsIn(F, i, N)
    BY <2>1, <2>2, <1>0, ResultFacts DEF EndsIn
  <2> QED BY <2>3 DEF F, N
<1>6. CASE p \notin {"not", "(", "and", "or", ")", ""}
  <2>1. F = Parsed(p \in DOMAIN truth /\ truth[p], i + 1)
    BY <1>6 DEF Factor
  <2>2. (p \in DOMAIN truth /\ truth[p]) \in BOOLEAN
    OBVIOUS
  <2>3. i + 1 \in i..(N + 1) /\ i + 1 \in Nat
    BY <1>2, <1>6
  <2> HIDE DEF F, p, N
  <2>4. EndsIn(F, i, N)
    BY <2>1, <2>2, <2>3, ResultFacts DEF EndsIn
  <2> QED BY <2>4 DEF F, N
<1> QED BY <1>3, <1>4, <1>5, <1>6

\* P is what Parse yields from m on.
ParsesFrom(P, tokens, truth, m) ==
  \A i \in m..(Len(tokens) + 1) :
    P[i] = Round(P, tokens, truth, i) /\ EndIn(P[i], i, Len(tokens))

\* A round looks only at what is behind it.
LEMMA RoundLocal ==
  ASSUME NEW S, NEW tokens \in Seq(S), NEW truth \in [Names -> BOOLEAN],
         NEW P, NEW Q, NEW i \in 1..(Len(tokens) + 1),
         \A k \in (i + 1)..(Len(tokens) + 1) : EndIn(P[k], k, Len(tokens)) /\ Q[k] = P[k]
  PROVE  /\ Round(Q, tokens, truth, i) = Round(P, tokens, truth, i)
         /\ EndIn(Round(P, tokens, truth, i), i, Len(tokens))
<1> DEFINE N == Len(tokens)
           f == Factor(P, tokens, truth, i)
           t == Term(P, tokens, truth, i)
           e == Expr(P, tokens, truth, i)
<1>0. N \in Nat /\ i \in Nat
  OBVIOUS
<1>1. i <= N => i + 1 \in (i + 1)..(N + 1)
  BY <1>0
<1>2. EndsIn(f, i, N)
  BY <1>1, FactorEnds
<1>3. Factor(Q, tokens, truth, i) = f
  <2>1. Peek(tokens, i) # "" => i <= N
    BY <1>0 DEF Peek
  <2>2. Peek(tokens, i) # "" => Q[i + 1] = P[i + 1]
    BY <2>1, <1>1
  <2> QED BY <2>2 DEF Factor
<1>4. ASSUME NEW l, EndsIn(l, i, N), NEW op \in {"and", "or"}, Follows(tokens, op, l)
      PROVE  Q[l.next + 1] = P[l.next + 1]
  <2>1. l.next \in i..(N + 1) /\ l.next \in Nat /\ Peek(tokens, l.next) = op
    BY <1>4 DEF Follows, EndsIn, Results
  <2>2. l.next <= N
    BY <2>1, PeekFacts
  <2>3. l.next + 1 \in (i + 1)..(N + 1)
    BY ONLY <2>1, <2>2, <1>0
  <2> QED BY <2>3
<1>5. EndsIn(t, i, N)
  BY <1>2, ChainEnds DEF Term, EndIn
<1>6. Term(Q, tokens, truth, i) = t
  <2> HIDE DEF f
  <2>1. CASE Follows(tokens, "and", f)
    BY <1>2, <1>3, <1>4, <2>1 DEF Term, f
  <2>2. CASE ~Follows(tokens, "and", f)
    BY <1>3, <2>2 DEF Term, Chain, f
  <2> QED BY <2>1, <2>2
<1>7. EndsIn(e, i, N)
  BY <1>5, ChainEnds DEF Expr, EndIn
<1>8. Expr(Q, tokens, truth, i) = e
  <2> HIDE DEF t
  <2>1. CASE Follows(tokens, "or", t)
    BY <1>5, <1>6, <1>4, <2>1 DEF Expr, t
  <2>2. CASE ~Follows(tokens, "or", t)
    BY <1>6, <2>2 DEF Expr, Chain, t
  <2> QED BY <2>1, <2>2
<1> QED BY <1>2, <1>3, <1>5, <1>6, <1>7, <1>8 DEF Round, EndIn

\* The recursion of Parse is well founded: some function satisfies it.
LEMMA ParseIsComputed ==
  ASSUME NEW S, NEW tokens \in Seq(S), NEW truth \in [Names -> BOOLEAN]
  PROVE  \E P : Parses(P, tokens, truth)
<1> DEFINE N == Len(tokens)
           Fine(n) == \E P : P = [i \in 1..(N + 1) |-> P[i]]
                             /\ ParsesFrom(P, tokens, truth, N + 2 - n)
           T == {n \in 0..(N + 1) : ~Fine(n)}
<1>0. N \in Nat
  OBVIOUS
<1>1. Fine(N + 1)
  <2> SUFFICES ASSUME T # {} PROVE FALSE
    <3>1. N + 1 \in 0..(N + 1)
      BY <1>0
    <3> HIDE DEF Fine, N
    <3> QED BY <3>1
  <2>2. PICK n \in T : \A m \in T : n <= m
    <3>1. T \in SUBSET Nat
      BY <1>0
    <3> HIDE DEF T
    <3> QED BY <3>1, LeastNumber
  <2>3. n \in Nat /\ ~Fine(n) /\ n <= N + 1
    BY <2>2, <1>0
  <2>4. n # 0
    <3> DEFINE Z == [i \in 1..(N + 1) |-> 0]
    <3>1. (N + 2 - 0)..(N + 1) = {}
      BY <1>0
    <3>2. ParsesFrom(Z, tokens, truth, N + 2 - 0)
      BY <3>1 DEF ParsesFrom
    <3>3. Z = [i \in 1..(N + 1) |-> Z[i]]
      OBVIOUS
    <3> HIDE DEF Z
    <3>4. Fine(0)
      BY <3>2, <3>3
    <3> QED BY <3>4, <2>3
  <2>5. Fine(n - 1)
    <3>1. n - 1 \in 0..(N + 1) /\ ~(n <= n - 1)
      BY <2>3, <2>4, <1>0
    <3> HIDE DEF Fine, N
    <3> QED BY <2>2, <3>1
  <2> DEFINE i == N + 2 - n
  <2>6. i \in 1..(N + 1) /\ N + 2 - (n - 1) = i + 1
    BY <2>3, <2>4, <1>0
  <2>7. PICK P : P = [k \in 1..(N + 1) |-> P[k]] /\ ParsesFrom(P, tokens, truth, i + 1)
    BY <2>5, <2>6
  <2> DEFINE Q == [k \in 1..(N + 1) |-> IF k = i THEN Round(P, tokens, truth, i) ELSE P[k]]
  <2> HIDE DEF i
  <2>8. /\ Q[i] = Round(P, tokens, truth, i)
        /\ \A k \in (i + 1)..(N + 1) : Q[k] = P[k]
        /\ Q = [k \in 1..(N + 1) |-> Q[k]]
    BY <2>6, <1>0
  <2> HIDE DEF Q
  <2>9. ASSUME NEW k \in i..(N + 1)
        PROVE  Q[k] = Round(Q, tokens, truth, k) /\ EndIn(Q[k], k, N)
    <3>1. k \in 1..(N + 1) /\ (k + 1)..(N + 1) \subseteq (i + 1)..(N + 1)
      BY <2>6, <1>0
    <3>2. \A m \in (k + 1)..(N + 1) : EndIn(P[m], m, N) /\ Q[m] = P[m]
      BY <3>1, <2>7, <2>8 DEF ParsesFrom
    <3>3. /\ Round(Q, tokens, truth, k) = Round(P, tokens, truth, k)
          /\ EndIn(Round(P, tokens, truth, k), k, N)
      BY <3>1, <3>2, RoundLocal
    <3>4. CASE k = i
      BY <3>3, <3>4, <2>8
    <3>5. CASE k # i
      <4>1. k \in (i + 1)..(N + 1)
        BY <3>5, <2>6, <1>0
      <4> QED BY <4>1, <3>3, <2>7, <2>8 DEF ParsesFrom
    <3> QED BY <3>4, <3>5
  <2>10. ParsesFrom(Q, tokens, truth, i)
    BY <2>9 DEF ParsesFrom
  <2> QED BY <2>8, <2>10, <2>3 DEF i
<1>2. PICK P : P = [i \in 1..(N + 1) |-> P[i]] /\ ParsesFrom(P, tokens, truth, 1)
  <2>1. N + 2 - (N + 1) = 1
    BY <1>0
  <2> QED BY <1>1, <2>1
<1>3. [i \in 1..(N + 1) |-> P[i]] = [i \in 1..(N + 1) |-> Round(P, tokens, truth, i)]
  BY <1>2 DEF ParsesFrom
<1> QED BY <1>2, <1>3 DEF Parses

\* What Parse returns satisfies its recursion.
LEMMA ParseFacts ==
  ASSUME NEW S, NEW tokens \in Seq(S), NEW truth \in [Names -> BOOLEAN]
  PROVE  \E P : /\ Parse(tokens, truth) = P[1].expr
                /\ \A i \in 1..(Len(tokens) + 1) : P[i] = Round(P, tokens, truth, i)
<1> DEFINE P == CHOOSE P : Parses(P, tokens, truth)
<1>1. Parses(P, tokens, truth)
  BY ParseIsComputed
<1>2. Parse(tokens, truth) = P[1].expr
  BY ParseIs
<1> HIDE DEF P
<1>3. \A i \in 1..(Len(tokens) + 1) : P[i] = Round(P, tokens, truth, i)
  BY <1>1 DEF Parses
<1> QED BY <1>2, <1>3

(***************************************************************************)
(* So is Value, computed from the shorter parts of a condition             *)
(***************************************************************************)

\* One round of Value, V being the values of shorter parts.
Joined(V, tokens, truth, i, j) ==
  IF i > j THEN FALSE
  ELSE IF Splits(tokens, i, j, "or") # {}
    THEN V[<<i, Min(Splits(tokens, i, j, "or")) - 1>>]
         \/ V[<<Min(Splits(tokens, i, j, "or")) + 1, j>>]
  ELSE IF Splits(tokens, i, j, "and") # {}
    THEN V[<<i, Min(Splits(tokens, i, j, "and")) - 1>>]
         /\ V[<<Min(Splits(tokens, i, j, "and")) + 1, j>>]
  ELSE CASE tokens[i] = "not" -> ~V[<<i + 1, j>>]
         [] tokens[i] = "("   -> V[<<i + 1, j - 1>>]
         [] OTHER             -> tokens[i] \in Names /\ truth[tokens[i]]

Segments(tokens) == (1..(Len(tokens) + 1)) \X (0..Len(tokens))

Joins(V, tokens, truth) ==
  V = [ij \in Segments(tokens) |-> Joined(V, tokens, truth, ij[1], ij[2])]

LEMMA ValueIs ==
  ASSUME NEW tokens, NEW truth
  PROVE  Value(tokens, truth) = (CHOOSE V : Joins(V, tokens, truth))[<<1, Len(tokens)>>]
  BY Zenon DEF Value, Joins, Joined, Segments

\* The first split is one.
LEMMA FirstSplit ==
  ASSUME NEW tokens, NEW i \in Nat, NEW j \in Nat, NEW op, Splits(tokens, i, j, op) # {}
  PROVE  /\ Min(Splits(tokens, i, j, op)) \in Splits(tokens, i, j, op)
         /\ \A k \in Splits(tokens, i, j, op) : Min(Splits(tokens, i, j, op)) <= k
         /\ Min(Splits(tokens, i, j, op)) \in (i + 1)..(j - 1)
<1> DEFINE X == Splits(tokens, i, j, op)
<1>1. X \in SUBSET Nat /\ X \subseteq (i + 1)..(j - 1)
  BY DEF Splits
<1> HIDE DEF X
<1>2. PICK k \in X : \A m \in X : k <= m
  BY <1>1, LeastNumber DEF X
<1>3. Min(X) \in X /\ \A m \in X : Min(X) <= m
  BY <1>2 DEF Min
<1> QED BY <1>1, <1>3 DEF X

\* A round looks only at shorter parts.
LEMMA JoinedLocal ==
  ASSUME NEW S, NEW tokens \in Seq(S), NEW truth, NEW V, NEW W,
         NEW i \in 1..(Len(tokens) + 1), NEW j \in 0..Len(tokens),
         \A k \in 1..(Len(tokens) + 1), m \in 0..Len(tokens) :
           m - k < j - i => W[<<k, m>>] = V[<<k, m>>]
  PROVE  Joined(W, tokens, truth, i, j) = Joined(V, tokens, truth, i, j)
<1> DEFINE N == Len(tokens)
<1>0. N \in Nat /\ i \in Nat /\ j \in Nat
  OBVIOUS
<1>1. CASE i > j
  BY <1>1 DEF Joined
<1>2. ASSUME i <= j PROVE W[<<i + 1, j>>] = V[<<i + 1, j>>] /\ W[<<i + 1, j - 1>>] = V[<<i + 1, j - 1>>]
  <2>1. /\ i + 1 \in 1..(N + 1) /\ j - 1 \in 0..N
        /\ j - (i + 1) < j - i /\ (j - 1) - (i + 1) < j - i
    BY <1>0, <1>2
  <2> HIDE DEF N
  <2> QED BY <2>1 DEF N
<1>3. ASSUME NEW op, Splits(tokens, i, j, op) # {}
      PROVE  /\ W[<<i, Min(Splits(tokens, i, j, op)) - 1>>] =
                V[<<i, Min(Splits(tokens, i, j, op)) - 1>>]
             /\ W[<<Min(Splits(tokens, i, j, op)) + 1, j>>] =
                V[<<Min(Splits(tokens, i, j, op)) + 1, j>>]
  <2> DEFINE k == Min(Splits(tokens, i, j, op))
  <2>1. k \in (i + 1)..(j - 1)
    BY <1>0, <1>3, FirstSplit
  <2> HIDE DEF k
  <2>2. /\ k - 1 \in 0..N /\ k + 1 \in 1..(N + 1)
        /\ (k - 1) - i < j - i /\ j - (k + 1) < j - i
    BY <1>0, <2>1
  <2> QED BY <2>2 DEF k
<1>4. CASE ~(i > j)
  <2>1. i <= j
    BY <1>0, <1>4
  <2> QED BY <1>2, <1>3, <2>1, Zenon DEF Joined
<1> QED BY <1>1, <1>4

\* The recursion of Value is well founded: some function satisfies it.
LEMMA ValueIsComputed ==
  ASSUME NEW S, NEW tokens \in Seq(S), NEW truth
  PROVE  \E V : Joins(V, tokens, truth)
<1> DEFINE N == Len(tokens)
           Right(V, n) ==
             \A k \in 1..(N + 1), m \in 0..N :
               m - k < n - N - 1 => V[<<k, m>>] = Joined(V, tokens, truth, k, m)
           Fine(n) == \E V : V = [ij \in Segments(tokens) |-> V[ij]] /\ Right(V, n)
           T == {n \in Nat : ~Fine(n)}
<1>0. N \in Nat
  OBVIOUS
<1>1. Fine(2 * N + 2)
  <2> SUFFICES ASSUME T # {} PROVE FALSE
    <3>1. 2 * N + 2 \in Nat
      BY <1>0
    <3> HIDE DEF Fine, N
    <3> QED BY <3>1
  <2>2. PICK n \in T : \A m \in T : n <= m
    <3>1. T \in SUBSET Nat
      OBVIOUS
    <3> HIDE DEF T
    <3> QED BY <3>1, LeastNumber
  <2>3. n \in Nat /\ ~Fine(n)
    BY <2>2
  <2>4. n # 0
    <3> DEFINE Z == [ij \in Segments(tokens) |-> FALSE]
    <3>1. \A k \in 1..(N + 1), m \in 0..N : ~(m - k < 0 - N - 1)
      BY <1>0
    <3>2. Right(Z, 0)
      BY <3>1
    <3>3. Z = [ij \in Segments(tokens) |-> Z[ij]]
      OBVIOUS
    <3> HIDE DEF Z, Right
    <3>4. Fine(0)
      BY <3>2, <3>3
    <3> QED BY <3>4, <2>3
  <2>5. Fine(n - 1)
    <3>1. n - 1 \in Nat /\ ~(n <= n - 1)
      BY <2>3, <2>4
    <3> HIDE DEF Fine, N
    <3> QED BY <2>2, <3>1
  <2>6. PICK V : V = [ij \in Segments(tokens) |-> V[ij]] /\ Right(V, n - 1)
    BY <2>5
  <2> DEFINE W == [ij \in Segments(tokens) |->
                     IF ij[2] - ij[1] < n - N - 2 THEN V[ij]
                     ELSE Joined(V, tokens, truth, ij[1], ij[2])]
  <2>7. /\ W = [ij \in Segments(tokens) |-> W[ij]]
        /\ \A k \in 1..(N + 1), m \in 0..N :
             W[<<k, m>>] = IF m - k < n - N - 2 THEN V[<<k, m>>]
                           ELSE Joined(V, tokens, truth, k, m)
    BY DEF Segments
  <2> HIDE DEF W
  <2>8. ASSUME NEW i \in 1..(N + 1), NEW j \in 0..N, j - i < n - N - 1
        PROVE  W[<<i, j>>] = Joined(W, tokens, truth, i, j)
    <3>1. ASSUME NEW k \in 1..(N + 1), NEW m \in 0..N, m - k < j - i
          PROVE  W[<<k, m>>] = V[<<k, m>>]
      <4>1. m - k < n - N - 2
        BY <2>3, <2>8, <3>1, <1>0
      <4> QED BY <4>1, <2>7
    <3>2. Joined(W, tokens, truth, i, j) = Joined(V, tokens, truth, i, j)
      BY <3>1, JoinedLocal
    <3>3. j - i < n - N - 2 => V[<<i, j>>] = Joined(V, tokens, truth, i, j)
      <4>1. (n - 1) - N - 1 = n - N - 2
        BY <2>3, <1>0
      <4> QED BY <2>6, <4>1
    <3> QED BY <2>7, <3>2, <3>3
  <2>9. Right(W, n)
    BY <2>8
  <2> HIDE DEF Right
  <2> QED BY <2>7, <2>9, <2>3
<1>2. PICK V : V = [ij \in Segments(tokens) |-> V[ij]] /\ Right(V, 2 * N + 2)
  BY <1>1
<1>3. \A k \in 1..(N + 1), m \in 0..N : V[<<k, m>>] = Joined(V, tokens, truth, k, m)
  <2>1. \A k \in 1..(N + 1), m \in 0..N : m - k < (2 * N + 2) - N - 1
    BY <1>0
  <2> QED BY <1>2, <2>1
<1>4. [ij \in Segments(tokens) |-> V[ij]] =
      [ij \in Segments(tokens) |-> Joined(V, tokens, truth, ij[1], ij[2])]
  BY <1>3 DEF Segments
<1> QED BY <1>2, <1>4 DEF Joins

\* What Value returns satisfies its recursion.
LEMMA ValueFacts ==
  ASSUME NEW S, NEW tokens \in Seq(S), NEW truth
  PROVE  \E V : /\ Value(tokens, truth) = V[<<1, Len(tokens)>>]
                /\ \A i \in 1..(Len(tokens) + 1), j \in 0..Len(tokens) :
                     V[<<i, j>>] = Joined(V, tokens, truth, i, j)
<1> DEFINE V == CHOOSE V : Joins(V, tokens, truth)
<1>1. Joins(V, tokens, truth)
  BY ValueIsComputed
<1>2. Value(tokens, truth) = V[<<1, Len(tokens)>>]
  BY ValueIs
<1> HIDE DEF V
<1>3. \A i \in 1..(Len(tokens) + 1), j \in 0..Len(tokens) :
        V[<<i, j>>] = Joined(V, tokens, truth, i, j)
  BY <1>1 DEF Joins, Segments
<1> QED BY <1>2, <1>3

(***************************************************************************)
(* Brackets                                                                *)
(***************************************************************************)

\* How many brackets are open after k tokens.
Level(tokens, k) == Open(SubSeq(tokens, 1, k))

\* What a token adds to that.
Weight(t) == IF t = "(" THEN 1 ELSE IF t = ")" THEN -1 ELSE 0

\* How often v is among the first n of f.
Seen(f, v, n) == Cardinality({x \in 1..n : f[x] = v})

\* One more position, one more to count.
LEMMA SeenStep ==
  ASSUME NEW f, NEW v, NEW n \in Nat
  PROVE  /\ Seen(f, v, n) \in Nat
         /\ Seen(f, v, n + 1) = Seen(f, v, n) + (IF f[n + 1] = v THEN 1 ELSE 0)
         /\ Seen(f, v, 0) = 0
<1> DEFINE A == {x \in 1..n : f[x] = v}
           B == {x \in 1..(n + 1) : f[x] = v}
<1>1. IsFiniteSet(A)
  <2>1. IsFiniteSet(1..n) /\ A \subseteq 1..n
    BY FS_Interval
  <2> QED BY <2>1, FS_Subset
<1>2. Cardinality(A) \in Nat
  BY <1>1, FS_CardinalityType
<1>3. Cardinality(B) = Cardinality(A) + (IF f[n + 1] = v THEN 1 ELSE 0)
  <2>1. CASE f[n + 1] = v
    <3>1. B = A \cup {n + 1} /\ n + 1 \notin A
      BY <2>1
    <3> HIDE DEF A, B
    <3>2. Cardinality(B) = Cardinality(A) + 1
      BY <1>1, <3>1, FS_AddElement
    <3> QED BY <2>1, <3>2
  <2>2. CASE f[n + 1] # v
    <3>1. B = A
      BY <2>2
    <3> HIDE DEF A, B
    <3> QED BY <1>2, <2>2, <3>1
  <2> QED BY <2>1, <2>2
<1>4. Seen(f, v, 0) = 0
  <2>1. {x \in 1..0 : f[x] = v} = {}
    OBVIOUS
  <2> QED BY <2>1, FS_EmptySet DEF Seen
<1> QED BY <1>2, <1>3, <1>4 DEF Seen

\* The brackets open between two tokens, and after one more.
LEMMA OpenStep ==
  ASSUME NEW S, NEW tokens \in Seq(S), NEW i \in 1..(Len(tokens) + 1),
         NEW k \in (i - 1)..Len(tokens)
  PROVE  /\ Open(SubSeq(tokens, i, k)) \in Int
         /\ k = i - 1 => Open(SubSeq(tokens, i, k)) = 0
         /\ k + 1 <= Len(tokens) =>
              Open(SubSeq(tokens, i, k + 1)) =
                Open(SubSeq(tokens, i, k)) + Weight(tokens[k + 1])
<1> DEFINE n == k - i + 1
           f == [x \in 1..(n + 1) |-> tokens[i + x - 1]]
<1>0. n \in Nat /\ i \in Nat /\ k \in Int /\ Len(tokens) \in Nat
  OBVIOUS
<1>1. Open(SubSeq(tokens, i, k)) = Seen(f, "(", n) - Seen(f, ")", n)
  <2>1. DOMAIN SubSeq(tokens, i, k) = 1..n
        /\ \A x \in 1..n : SubSeq(tokens, i, k)[x] = f[x]
    OBVIOUS
  <2>2. \A v : {x \in DOMAIN SubSeq(tokens, i, k) : SubSeq(tokens, i, k)[x] = v}
               = {x \in 1..n : f[x] = v}
    BY <2>1
  <2> HIDE DEF n, f
  <2> QED BY <2>2 DEF Open, Seen
<1>2. k + 1 <= Len(tokens) =>
        Open(SubSeq(tokens, i, k + 1)) = Seen(f, "(", n + 1) - Seen(f, ")", n + 1)
  <2> HAVE k + 1 <= Len(tokens)
  <2>1. DOMAIN SubSeq(tokens, i, k + 1) = 1..(n + 1)
        /\ \A x \in 1..(n + 1) : SubSeq(tokens, i, k + 1)[x] = f[x]
    OBVIOUS
  <2>2. \A v : {x \in DOMAIN SubSeq(tokens, i, k + 1) : SubSeq(tokens, i, k + 1)[x] = v}
               = {x \in 1..(n + 1) : f[x] = v}
    BY <2>1
  <2> HIDE DEF n, f
  <2> QED BY <2>2 DEF Open, Seen
<1>3. f[n + 1] = tokens[k + 1]
  <2>1. n + 1 \in 1..(n + 1) /\ i + (n + 1) - 1 = k + 1
    BY <1>0
  <2> QED BY <2>1
<1>4. k = i - 1 => n = 0
  BY <1>0
<1> HIDE DEF f, n
<1>5. \A v : /\ Seen(f, v, n) \in Nat
             /\ Seen(f, v, n + 1) = Seen(f, v, n) + (IF f[n + 1] = v THEN 1 ELSE 0)
             /\ Seen(f, v, 0) = 0
  BY <1>0, SeenStep
<1>6. Open(SubSeq(tokens, i, k)) \in Int
  BY <1>1, <1>5
<1>7. k = i - 1 => Open(SubSeq(tokens, i, k)) = 0
  BY <1>1, <1>4, <1>5
<1>8. k + 1 <= Len(tokens) =>
        Open(SubSeq(tokens, i, k + 1)) = Open(SubSeq(tokens, i, k)) + Weight(tokens[k + 1])
  <2>1. "(" # ")"
    OBVIOUS
  <2>2. /\ Seen(f, "(", n + 1) = Seen(f, "(", n) + (IF tokens[k + 1] = "(" THEN 1 ELSE 0)
        /\ Seen(f, ")", n + 1) = Seen(f, ")", n) + (IF tokens[k + 1] = ")" THEN 1 ELSE 0)
        /\ Seen(f, "(", n) \in Nat /\ Seen(f, ")", n) \in Nat
    BY ONLY <1>3, <1>5
  <2> QED BY <1>1, <1>2, <2>1, <2>2 DEF Weight
<1> QED BY <1>6, <1>7, <1>8

LEMMA LevelFacts ==
  ASSUME NEW S, NEW tokens \in Seq(S)
  PROVE  /\ \A k \in 0..Len(tokens) : Level(tokens, k) \in Int
         /\ Level(tokens, 0) = 0
         /\ \A k \in 1..Len(tokens) :
              Level(tokens, k) = Level(tokens, k - 1) + Weight(tokens[k])
<1>0. Len(tokens) \in Nat
  OBVIOUS
<1>1. 1 \in 1..(Len(tokens) + 1) /\ 0 = 1 - 1
  BY <1>0
<1>2. ASSUME NEW k \in 0..Len(tokens)
      PROVE  /\ Level(tokens, k) \in Int
             /\ k = 0 => Level(tokens, k) = 0
             /\ k + 1 <= Len(tokens) =>
                  Level(tokens, k + 1) = Level(tokens, k) + Weight(tokens[k + 1])
  BY <1>1, OpenStep DEF Level
<1>3. ASSUME NEW k \in 1..Len(tokens)
      PROVE  Level(tokens, k) = Level(tokens, k - 1) + Weight(tokens[k])
  <2>1. k - 1 \in 0..Len(tokens) /\ (k - 1) + 1 = k /\ k <= Len(tokens)
    BY <1>0
  <2> QED BY <2>1, <1>2
<1>4. 0 \in 0..Len(tokens)
  BY <1>0
<1> QED BY <1>2, <1>3, <1>4

\* Between two tokens as many are opened as the level rises.
LEMMA OpenIsRise ==
  ASSUME NEW S, NEW tokens \in Seq(S), NEW i \in 1..(Len(tokens) + 1),
         NEW j \in (i - 1)..Len(tokens)
  PROVE  Open(SubSeq(tokens, i, j)) = Level(tokens, j) - Level(tokens, i - 1)
<1> DEFINE N == Len(tokens)
           O(k) == Open(SubSeq(tokens, i, k))
           Fine(k) == O(k) = Level(tokens, k) - Level(tokens, i - 1)
           T == {k \in (i - 1)..N : ~Fine(k)}
<1>0. N \in Nat /\ i \in Nat /\ i - 1 \in 0..N
  OBVIOUS
<1>1. SUFFICES ASSUME T # {} PROVE FALSE
  <2> HIDE DEF Fine
  <2>1. Fine(j)
    BY <1>1
  <2> QED BY <2>1 DEF Fine
<1>2. PICK k \in T : \A m \in T : k <= m
  <2>1. T \in SUBSET Nat
    BY <1>0
  <2> HIDE DEF T
  <2> QED BY <1>1, <2>1, LeastNumber
<1>3. k \in (i - 1)..N /\ ~Fine(k)
  BY <1>2
<1>4. k # i - 1
  <2>1. O(i - 1) = 0
    BY <1>0, OpenStep
  <2>2. Level(tokens, i - 1) \in Int
    BY <1>0, LevelFacts
  <2> HIDE DEF O
  <2>3. Fine(i - 1)
    BY <2>1, <2>2
  <2> HIDE DEF Fine
  <2> QED BY <2>3, <1>3
<1>5. k - 1 \in (i - 1)..N /\ k \in 1..N /\ (k - 1) + 1 = k /\ k <= N /\ ~(k <= k - 1) /\ k - 1 \in 0..N
  BY <1>0, <1>3, <1>4
<1>6. Fine(k - 1)
  <2> HIDE DEF Fine
  <2> QED BY <1>2, <1>5
<1>7. O(k) = O(k - 1) + Weight(tokens[k]) /\ O(k - 1) \in Int
  <2> HIDE DEF Fine, T
  <2> QED BY <1>5, OpenStep
<1>8. /\ Level(tokens, k) = Level(tokens, k - 1) + Weight(tokens[k])
      /\ Level(tokens, k - 1) \in Int /\ Level(tokens, i - 1) \in Int
  BY <1>0, <1>5, LevelFacts
<1>9. Weight(tokens[k]) \in Int
  BY DEF Weight
<1> HIDE DEF O
<1>10. Fine(k)
  BY <1>6, <1>7, <1>8, <1>9
<1> HIDE DEF Fine
<1> QED BY <1>3, <1>10

(***************************************************************************)
(* Expressions and their parts                                             *)
(***************************************************************************)

\* What an operand follows, and what follows an operand.
Before == {"and", "or", "not", "("}
After  == {"and", "or", ")"}

\* Operands and what joins them alternate.
Alternates(tokens) ==
  \A k \in 2..Len(tokens) : tokens[k] \in After <=> tokens[k - 1] \notin Before

\* The tokens from i to j are an expression of their own.
Part(tokens, i, j) ==
  /\ i \in 1..j /\ j \in 1..Len(tokens)
  /\ tokens[i] \notin After /\ tokens[j] \notin Before
  /\ Level(tokens, j) = Level(tokens, i - 1)
  /\ \A k \in i..j : Level(tokens, k) >= Level(tokens, i - 1)

LEMMA BeforeFacts ==
  ASSUME NEW S, NEW tokens \in Seq(S), NEW k \in 1..Len(tokens)
  PROVE  /\ Operand(SubSeq(tokens, 1, k - 1)) <=> k = 1 \/ tokens[k - 1] \in Before
         /\ Open(SubSeq(tokens, 1, k - 1)) = Level(tokens, k - 1)
<1>0. Len(tokens) \in Nat /\ k \in Nat
  OBVIOUS
<1>1. CASE k = 1
  <2>1. SubSeq(tokens, 1, k - 1) = <<>>
    BY <1>1
  <2> QED BY <2>1, <1>1 DEF Operand, Level
<1>2. CASE k # 1
  <2> DEFINE s == SubSeq(tokens, 1, k - 1)
  <2>1. Len(s) = k - 1 /\ s[k - 1] = tokens[k - 1] /\ s # <<>>
    BY <1>0, <1>2
  <2> HIDE DEF s
  <2>2. Operand(s) <=> tokens[k - 1] \in Before
    BY <2>1 DEF Operand, Before
  <2> QED BY <2>2, <1>2 DEF s, Level
<1> QED BY <1>1, <1>2

\* An expression alternates and is a part of itself.
LEMMA ExpressionFacts ==
  ASSUME NEW S, NEW tokens \in Seq(S), Expression(tokens)
  PROVE  Alternates(tokens) /\ Part(tokens, 1, Len(tokens))
<1> DEFINE N == Len(tokens)
<1>0. N \in Nat
  OBVIOUS
<1>1. N # 0 /\ tokens[N] \notin Before
  BY DEF Expression, Operand, Before
<1>2. N \in 1..N /\ 1 \in 1..N
  BY <1>0, <1>1
<1>3. ASSUME NEW k \in 1..N
      PROVE  IF k = 1 \/ tokens[k - 1] \in Before
             THEN tokens[k] \notin After
             ELSE tokens[k] \in {"and", "or"} \/ (tokens[k] = ")" /\ Level(tokens, k - 1) > 0)
  <2>1. IF Operand(SubSeq(tokens, 1, k - 1)) THEN tokens[k] \notin {"and", "or", ")"}
        ELSE tokens[k] \in {"and", "or"}
             \/ (tokens[k] = ")" /\ Open(SubSeq(tokens, 1, k - 1)) > 0)
    BY DEF Expression, Begins
  <2> QED BY <2>1, BeforeFacts DEF After
<1>4. ASSUME NEW k \in 2..N PROVE tokens[k] \in After <=> tokens[k - 1] \notin Before
  <2>1. k \in 1..N /\ k # 1
    BY <1>0
  <2> QED BY <2>1, <1>3 DEF After
<1>5. Level(tokens, N) = 0
  <2>1. SubSeq(tokens, 1, N) = tokens
    BY <1>0
  <2> QED BY <2>1 DEF Expression, Level
<1>6. ASSUME NEW k \in 0..N PROVE Level(tokens, k) >= 0
  <2> DEFINE T == {m \in 0..N : ~(Level(tokens, m) >= 0)}
  <2>1. SUFFICES ASSUME T # {} PROVE FALSE
    OBVIOUS
  <2>2. PICK m \in T : \A n \in T : m <= n
    <3>1. T \in SUBSET Nat
      BY <1>0
    <3> HIDE DEF T
    <3> QED BY <2>1, <3>1, LeastNumber
  <2>3. m \in 0..N /\ ~(Level(tokens, m) >= 0)
    BY <2>2
  <2>4. m # 0
    BY <2>3, LevelFacts
  <2>5. m \in 1..N /\ m - 1 \in 0..N /\ ~(m <= m - 1)
    BY <2>3, <2>4, <1>0
  <2>6. Level(tokens, m - 1) >= 0
    BY <2>2, <2>5
  <2>7. /\ Level(tokens, m) = Level(tokens, m - 1) + Weight(tokens[m])
        /\ Level(tokens, m - 1) \in Int
    BY <2>5, LevelFacts
  <2>8. tokens[m] = ")" => Level(tokens, m - 1) > 0
    BY <2>5, <1>3 DEF After
  <2> QED BY <2>3, <2>6, <2>7, <2>8 DEF Weight
<1>7. Alternates(tokens)
  BY <1>4 DEF Alternates
<1>8. tokens[1] \notin After
  BY <1>2, <1>3
<1>9. Level(tokens, 1 - 1) = 0
  BY LevelFacts
<1>10. \A k \in 1..N : k \in 0..N
  BY <1>0
<1> QED BY <1>1, <1>2, <1>5, <1>6, <1>7, <1>8, <1>9, <1>10 DEF Part

\* A part splits where the level is that of its beginning.
LEMMA SplitFacts ==
  ASSUME NEW S, NEW tokens \in Seq(S), NEW i \in 1..Len(tokens), NEW j \in 1..Len(tokens),
         NEW op, NEW k
  PROVE  k \in Splits(tokens, i, j, op) <=>
           k \in (i + 1)..(j - 1) /\ tokens[k] = op /\ Level(tokens, k) = Level(tokens, i - 1)
<1>0. Len(tokens) \in Nat /\ i \in Nat /\ j \in Nat
  OBVIOUS
<1>1. ASSUME k \in (i + 1)..(j - 1)
      PROVE  Open(SubSeq(tokens, i, k)) = 0 <=> Level(tokens, k) = Level(tokens, i - 1)
  <2>1. /\ k \in (i - 1)..Len(tokens) /\ i \in 1..(Len(tokens) + 1)
        /\ k \in 0..Len(tokens) /\ i - 1 \in 0..Len(tokens)
    BY <1>0, <1>1
  <2>2. Open(SubSeq(tokens, i, k)) = Level(tokens, k) - Level(tokens, i - 1)
    BY <2>1, OpenIsRise
  <2>3. Level(tokens, k) \in Int /\ Level(tokens, i - 1) \in Int
    BY <2>1, LevelFacts
  <2> QED BY <2>2, <2>3
<1> QED BY <1>1 DEF Splits

\* Both sides of a split are parts, and split where the whole does.
LEMMA SplitParts ==
  ASSUME NEW S, NEW tokens \in Seq(S), Alternates(tokens), NEW i, NEW j, Part(tokens, i, j),
         NEW op \in {"or", "and"}, NEW k \in Splits(tokens, i, j, op)
  PROVE  /\ k \in (i + 1)..(j - 1) /\ tokens[k] = op
         /\ Part(tokens, i, k - 1) /\ Part(tokens, k + 1, j)
         /\ \A o : \A m \in Splits(tokens, i, k - 1, o) :
              m \in Splits(tokens, i, j, o) /\ ~(k <= m)
         /\ \A o : Splits(tokens, k + 1, j, o) \subseteq Splits(tokens, i, j, o)
<1> DEFINE N == Len(tokens)
<1>0. N \in Nat /\ i \in 1..N /\ j \in 1..N /\ i <= j
  BY DEF Part
<1>1. k \in (i + 1)..(j - 1) /\ tokens[k] = op /\ Level(tokens, k) = Level(tokens, i - 1)
  BY <1>0, SplitFacts
<1>2. /\ k \in 2..N /\ k + 1 \in 2..N /\ k - 1 \in 1..N /\ (k + 1) - 1 = k
      /\ i \in 1..(k - 1) /\ k + 1 \in 1..j
  BY <1>0, <1>1
<1>3. tokens[k] \in After /\ tokens[k] \in Before /\ Weight(tokens[k]) = 0
  BY <1>1 DEF After, Before, Weight
<1>4. tokens[k - 1] \notin Before /\ tokens[k + 1] \notin After
  BY <1>2, <1>3 DEF Alternates
<1>5. Level(tokens, k - 1) = Level(tokens, i - 1)
  <2>1. /\ k \in 1..N /\ k - 1 \in 0..N
        /\ Level(tokens, k) = Level(tokens, k - 1) + Weight(tokens[k])
    BY <1>0, <1>2, LevelFacts
  <2>2. Level(tokens, k - 1) \in Int
    BY <2>1, LevelFacts
  <2> QED BY <1>1, <1>3, <2>1, <2>2
<1>6. Part(tokens, i, k - 1)
  <2>1. \A m \in i..(k - 1) : m \in i..j
    BY <1>0, <1>1
  <2> QED BY <1>2, <1>4, <1>5, <2>1 DEF Part
<1>7. Part(tokens, k + 1, j)
  <2>1. \A m \in (k + 1)..j : m \in i..j
    BY <1>0, <1>1
  <2> QED BY <1>0, <1>1, <1>2, <1>4, <2>1 DEF Part
<1>8. ASSUME NEW o, NEW m \in Splits(tokens, i, k - 1, o)
      PROVE  m \in Splits(tokens, i, j, o) /\ ~(k <= m)
  <2>1. /\ m \in (i + 1)..((k - 1) - 1) /\ tokens[m] = o
        /\ Level(tokens, m) = Level(tokens, i - 1)
    BY <1>0, <1>2, SplitFacts
  <2>2. m \in (i + 1)..(j - 1) /\ ~(k <= m)
    BY <1>0, <1>1, <2>1
  <2> QED BY <1>0, <2>1, <2>2, SplitFacts
<1>9. ASSUME NEW o, NEW m \in Splits(tokens, k + 1, j, o)
      PROVE  m \in Splits(tokens, i, j, o)
  <2>1. k + 1 \in 1..N
    BY <1>2
  <2>2. /\ m \in ((k + 1) + 1)..(j - 1) /\ tokens[m] = o
        /\ Level(tokens, m) = Level(tokens, (k + 1) - 1)
    BY <1>0, <2>1, SplitFacts
  <2>3. m \in (i + 1)..(j - 1) /\ Level(tokens, m) = Level(tokens, i - 1)
    BY <1>0, <1>1, <1>2, <2>2
  <2> QED BY <1>0, <2>2, <2>3, SplitFacts
<1> QED BY <1>1, <1>6, <1>7, <1>8, <1>9

\* What is negated is a part, and splits where the whole does.
LEMMA NegatedPart ==
  ASSUME NEW S, NEW tokens \in Seq(S), Alternates(tokens), NEW i, NEW j, Part(tokens, i, j),
         tokens[i] = "not"
  PROVE  /\ Part(tokens, i + 1, j)
         /\ \A o : Splits(tokens, i + 1, j, o) \subseteq Splits(tokens, i, j, o)
<1> DEFINE N == Len(tokens)
<1>0. N \in Nat /\ i \in 1..N /\ j \in 1..N /\ i <= j
  BY DEF Part
<1>1. i # j
  BY DEF Part, Before
<1>2. i + 1 \in 2..N /\ (i + 1) - 1 = i /\ i + 1 \in 1..j /\ i + 1 \in 1..N
  BY <1>0, <1>1
<1>3. tokens[i + 1] \notin After
  BY <1>2 DEF Alternates, Before
<1>4. Level(tokens, i) = Level(tokens, i - 1)
  <2>1. i - 1 \in 0..N /\ Level(tokens, i) = Level(tokens, i - 1) + Weight(tokens[i])
    BY <1>0, LevelFacts
  <2>2. Level(tokens, i - 1) \in Int
    BY <2>1, LevelFacts
  <2>3. Weight(tokens[i]) = 0
    BY DEF Weight
  <2> QED BY <2>1, <2>2, <2>3
<1>5. Part(tokens, i + 1, j)
  <2>1. \A m \in (i + 1)..j : m \in i..j
    BY <1>0
  <2> QED BY <1>0, <1>2, <1>3, <1>4, <2>1 DEF Part
<1>6. ASSUME NEW o, NEW m \in Splits(tokens, i + 1, j, o)
      PROVE  m \in Splits(tokens, i, j, o)
  <2>1. /\ m \in ((i + 1) + 1)..(j - 1) /\ tokens[m] = o
        /\ Level(tokens, m) = Level(tokens, (i + 1) - 1)
    BY <1>0, <1>2, SplitFacts
  <2>2. m \in (i + 1)..(j - 1) /\ Level(tokens, m) = Level(tokens, i - 1)
    BY <1>0, <1>2, <1>4, <2>1
  <2> QED BY <1>0, <2>1, <2>2, SplitFacts
<1> QED BY <1>5, <1>6

\* Where a part is back at the level of its beginning and does not end, it splits.
LEMMA BackAtLevel ==
  ASSUME NEW S, NEW tokens \in Seq(S), Alternates(tokens), NEW i, NEW j, Part(tokens, i, j),
         NEW k \in i..j, Level(tokens, k) = Level(tokens, i - 1), tokens[k] \notin Before,
         Splits(tokens, i, j, "or") = {}, Splits(tokens, i, j, "and") = {}
  PROVE  k = j
<1> DEFINE N == Len(tokens)
<1>0. N \in Nat /\ i \in 1..N /\ j \in 1..N /\ i <= j
  BY DEF Part
<1>1. SUFFICES ASSUME k # j PROVE FALSE
  OBVIOUS
<1>2. /\ k + 1 \in 2..N /\ (k + 1) - 1 = k /\ k + 1 \in i..j /\ k + 1 \in 1..N
      /\ k + 1 \in (i + 1)..j
      /\ k \in 0..N
  BY <1>0, <1>1
<1>3. tokens[k + 1] \in After
  BY <1>2 DEF Alternates
<1>4. Level(tokens, k + 1) = Level(tokens, k) + Weight(tokens[k + 1]) /\ Level(tokens, k) \in Int
  BY <1>2, LevelFacts
<1>5. tokens[k + 1] # ")"
  <2>1. Level(tokens, k + 1) >= Level(tokens, i - 1)
    BY <1>2 DEF Part
  <2> QED BY <1>4, <2>1 DEF Weight
<1>6. tokens[k + 1] \in {"and", "or"}
  BY <1>3, <1>5 DEF After
<1>7. Level(tokens, k + 1) = Level(tokens, i - 1)
  <2>1. Weight(tokens[k + 1]) = 0
    BY <1>6 DEF Weight
  <2> QED BY <1>4, <2>1
<1>8. k + 1 # j
  BY <1>6 DEF Part, Before
<1>9. k + 1 \in (i + 1)..(j - 1)
  BY <1>0, <1>2, <1>8
<1>10. k + 1 \in Splits(tokens, i, j, tokens[k + 1])
  BY <1>0, <1>7, <1>9, SplitFacts
<1> QED BY <1>6, <1>10

\* A part in brackets.
LEMMA BracketedPart ==
  ASSUME NEW S, NEW tokens \in Seq(S), Alternates(tokens), NEW i, NEW j, Part(tokens, i, j),
         tokens[i] = "(",
         Splits(tokens, i, j, "or") = {}, Splits(tokens, i, j, "and") = {}
  PROVE  tokens[j] = ")" /\ Part(tokens, i + 1, j - 1)
<1> DEFINE N == Len(tokens)
           T == {m \in i..j : Level(tokens, m) <= Level(tokens, i - 1)}
<1>0. N \in Nat /\ i \in 1..N /\ j \in 1..N /\ i <= j
  BY DEF Part
<1>1. \A m \in (i - 1)..j : m \in 0..N /\ Level(tokens, m) \in Int
  <2>1. \A m \in (i - 1)..j : m \in 0..N
    BY <1>0
  <2> QED BY <2>1, LevelFacts
<1>2. \A m \in i..j : /\ Level(tokens, m) = Level(tokens, m - 1) + Weight(tokens[m])
                      /\ Level(tokens, m) \in Int /\ Level(tokens, m - 1) \in Int
  <2>1. \A m \in i..j : m \in 1..N /\ m \in (i - 1)..j /\ m - 1 \in (i - 1)..j
    BY <1>0
  <2> QED BY <2>1, <1>1, LevelFacts
<1>3. i \in i..j /\ j \in i..j /\ i - 1 \in (i - 1)..j
  BY <1>0
<1>4. Level(tokens, i) = Level(tokens, i - 1) + 1 /\ Level(tokens, i - 1) \in Int
  BY <1>1, <1>2, <1>3 DEF Weight
<1>5. j \in T
  <2>1. Level(tokens, j) = Level(tokens, i - 1)
    BY DEF Part
  <2> QED BY <1>3, <1>4, <2>1
<1>6. PICK k \in T : \A m \in T : k <= m
  <2>1. T \in SUBSET Nat
    BY <1>0
  <2> HIDE DEF T
  <2> QED BY <1>5, <2>1, LeastNumber
<1>7. k \in i..j /\ Level(tokens, k) <= Level(tokens, i - 1)
  BY <1>6
<1>8. k # i
  BY <1>4, <1>7
<1>9. k - 1 \in i..j /\ ~(k <= k - 1)
  BY <1>0, <1>7, <1>8
<1>10. ~(Level(tokens, k - 1) <= Level(tokens, i - 1))
  BY <1>6, <1>9
<1>11. Level(tokens, k) >= Level(tokens, i - 1)
  BY <1>7 DEF Part
<1>12. tokens[k] = ")" /\ Level(tokens, k) = Level(tokens, i - 1)
       /\ Level(tokens, k - 1) = Level(tokens, i - 1) + 1
  <2>1. /\ Level(tokens, k) = Level(tokens, k - 1) + Weight(tokens[k])
        /\ Level(tokens, k) \in Int /\ Level(tokens, k - 1) \in Int
    BY <1>2, <1>7
  <2> QED BY <2>1, <1>4, <1>7, <1>10, <1>11 DEF Weight
<1>13. k = j
  <2>1. tokens[k] \notin Before
    BY <1>12 DEF Before
  <2> QED BY <1>7, <1>12, <2>1, BackAtLevel
<1>14. \A m \in i..(j - 1) : Level(tokens, m) >= Level(tokens, i)
  <2>1. ASSUME NEW m \in i..(j - 1) PROVE Level(tokens, m) >= Level(tokens, i)
    <3>1. m \in i..j /\ ~(j <= m)
      BY <1>0
    <3>2. ~(Level(tokens, m) <= Level(tokens, i - 1))
      BY <3>1, <1>6, <1>13
    <3>3. Level(tokens, m) \in Int
      BY <3>1, <1>2
    <3> QED BY <3>2, <3>3, <1>4
  <2> QED BY <2>1
<1>15. i + 1 \in 2..N /\ (i + 1) - 1 = i /\ j \in 2..N
  BY <1>0, <1>7, <1>8, <1>13
<1>16. tokens[i + 1] \notin After
  BY <1>15 DEF Alternates, Before
<1>17. i + 1 # j
  BY <1>12, <1>13, <1>16 DEF After
<1>18. tokens[j - 1] \notin Before
  BY <1>12, <1>13, <1>15 DEF Alternates, After
<1>19. Part(tokens, i + 1, j - 1)
  <2>1. i + 1 \in 1..(j - 1) /\ j - 1 \in 1..N
    BY <1>0, <1>7, <1>8, <1>13, <1>17
  <2>2. \A m \in (i + 1)..(j - 1) : m \in i..(j - 1)
    BY <1>0
  <2> QED BY <2>1, <2>2, <1>4, <1>12, <1>13, <1>14, <1>15, <1>16, <1>18 DEF Part
<1> QED BY <1>12, <1>13, <1>19

(***************************************************************************)
(* What is parsed is the value                                             *)
(***************************************************************************)

\* P and V are what Parse and Value compute of tokens.
Rounds(P, V, tokens, truth) ==
  /\ \A i \in 1..(Len(tokens) + 1) : P[i] = Round(P, tokens, truth, i)
  /\ \A i \in 1..(Len(tokens) + 1), j \in 0..Len(tokens) :
       V[<<i, j>>] = Joined(V, tokens, truth, i, j)

NoSplit(tokens, i, j, op) == Splits(tokens, i, j, op) = {}

\* From i on the value of the tokens up to j is parsed, by whichever rule they fall under.
FactorAgrees(P, V, tokens, i, j) ==
  NoSplit(tokens, i, j, "or") /\ NoSplit(tokens, i, j, "and")
  => P[i].factor = Parsed(V[<<i, j>>], j + 1)

TermAgrees(P, V, tokens, i, j) ==
  NoSplit(tokens, i, j, "or") /\ Peek(tokens, j + 1) # "and"
  => P[i].term = Parsed(V[<<i, j>>], j + 1)

ExprAgrees(P, V, tokens, i, j) ==
  Peek(tokens, j + 1) # "or" /\ Peek(tokens, j + 1) # "and"
  => P[i].expr = Parsed(V[<<i, j>>], j + 1)

Agrees(P, V, tokens, i, j) ==
  /\ V[<<i, j>>] \in BOOLEAN
  /\ FactorAgrees(P, V, tokens, i, j)
  /\ TermAgrees(P, V, tokens, i, j)
  /\ ExprAgrees(P, V, tokens, i, j)

LEMMA ChainStops ==
  ASSUME NEW tokens, NEW v \in BOOLEAN, NEW n \in Nat, NEW op, NEW r, Peek(tokens, n) # op
  PROVE  Chain(tokens, Parsed(v, n), op, r) = Parsed(v, n)
  BY ResultFacts, Zenon DEF Chain, Follows

LEMMA ChainJoins ==
  ASSUME NEW tokens, NEW op, NEW l, NEW r, l.ok, Peek(tokens, l.next) = op
  PROVE  Chain(tokens, l, op, r) = Both(l, r, op)
  BY Zenon DEF Chain, Follows

\* All parts shorter than n agree.
ShorterAgree(P, V, tokens, n) ==
  \A k, m : Part(tokens, k, m) /\ m - k < n => Agrees(P, V, tokens, k, m)

\* What follows the first split, and what comes before, are shorter parts, which agree.
Shortens(P, V, tokens, i, j, op, k) ==
  /\ k = Min(Splits(tokens, i, j, op))
  /\ k \in (i + 1)..(j - 1) /\ k \in Nat /\ k - 1 \in Nat
  /\ (k - 1) + 1 = k /\ k + 1 \in 1..(Len(tokens) + 1)
  /\ Peek(tokens, k) = op
  /\ NoSplit(tokens, i, k - 1, op)
  /\ \A o : NoSplit(tokens, i, j, o) =>
             NoSplit(tokens, i, k - 1, o) /\ NoSplit(tokens, k + 1, j, o)
  /\ Agrees(P, V, tokens, i, k - 1) /\ Agrees(P, V, tokens, k + 1, j)

LEMMA SplitAgrees ==
  ASSUME NEW S, NEW tokens \in Seq(S), Alternates(tokens), NEW P, NEW V,
         NEW i, NEW j, Part(tokens, i, j), NEW op \in {"or", "and"},
         ~NoSplit(tokens, i, j, op), ShorterAgree(P, V, tokens, j - i)
  PROVE  \E k : Shortens(P, V, tokens, i, j, op, k)
<1> DEFINE k == Min(Splits(tokens, i, j, op))
<1>0. Len(tokens) \in Nat /\ i \in 1..Len(tokens) /\ j \in 1..Len(tokens) /\ i \in Nat /\ j \in Nat
  BY DEF Part
<1>1. /\ k \in Splits(tokens, i, j, op) /\ \A m \in Splits(tokens, i, j, op) : k <= m
  BY <1>0, FirstSplit DEF NoSplit
<1> HIDE DEF k
<1>2. /\ k \in (i + 1)..(j - 1) /\ tokens[k] = op
      /\ Part(tokens, i, k - 1) /\ Part(tokens, k + 1, j)
      /\ \A o : \A m \in Splits(tokens, i, k - 1, o) :
           m \in Splits(tokens, i, j, o) /\ ~(k <= m)
      /\ \A o : Splits(tokens, k + 1, j, o) \subseteq Splits(tokens, i, j, o)
  BY <1>1, SplitParts
<1>3. /\ k \in Nat /\ k - 1 \in Nat /\ (k - 1) + 1 = k /\ k <= Len(tokens)
      /\ k + 1 \in 1..(Len(tokens) + 1)
      /\ (k - 1) - i < j - i /\ j - (k + 1) < j - i
  BY <1>0, <1>2
<1>4. Peek(tokens, k) = op
  BY <1>2, <1>3, PeekFacts
<1>5. NoSplit(tokens, i, k - 1, op)
  BY <1>1, <1>2 DEF NoSplit
<1>6. \A o : NoSplit(tokens, i, j, o) =>
               NoSplit(tokens, i, k - 1, o) /\ NoSplit(tokens, k + 1, j, o)
  BY <1>2 DEF NoSplit
<1>7. Agrees(P, V, tokens, i, k - 1) /\ Agrees(P, V, tokens, k + 1, j)
  BY <1>2, <1>3 DEF ShorterAgree
<1>8. k = Min(Splits(tokens, i, j, op))
  BY DEF k
<1> QED BY <1>2, <1>3, <1>4, <1>5, <1>6, <1>7, <1>8 DEF Shortens

\* There is a token, and it is no empty one.
Named(tokens, i)  == Peek(tokens, i) # ""
Unnamed(tokens)   == \E i \in 1..Len(tokens) : tokens[i] = ""

LEMMA FactorStep ==
  ASSUME NEW S, NEW tokens \in Seq(S), Alternates(tokens), NEW truth \in [Names -> BOOLEAN],
         NEW P, NEW V, Rounds(P, V, tokens, truth),
         NEW i, NEW j, Part(tokens, i, j), Named(tokens, i),
         ShorterAgree(P, V, tokens, j - i),
         NoSplit(tokens, i, j, "or"), NoSplit(tokens, i, j, "and")
  PROVE  V[<<i, j>>] \in BOOLEAN /\ P[i].factor = Parsed(V[<<i, j>>], j + 1)
<1> DEFINE N == Len(tokens)
           p == tokens[i]
<1>0. N \in Nat /\ i \in 1..N /\ j \in 1..N /\ i <= j /\ i \in Nat /\ j \in Nat
      /\ i \in 1..(N + 1) /\ j \in 0..N /\ ~(i > j) /\ j + 1 \in Nat
  BY DEF Part
<1>1. Peek(tokens, i) = p
  <2>1. i <= N
    BY <1>0
  <2> QED BY <2>1, PeekFacts, Zenon
<1>2. V[<<i, j>>] = CASE p = "not" -> ~V[<<i + 1, j>>]
                      [] p = "("   -> V[<<i + 1, j - 1>>]
                      [] OTHER     -> p \in Names /\ truth[p]
  BY <1>0, Zenon DEF Rounds, Joined, NoSplit
<1>3. P[i].factor = Factor(P, tokens, truth, i)
  <2>1. P[i] = Round(P, tokens, truth, i)
    BY <1>0 DEF Rounds
  <2> QED BY <2>1 DEF Round
<1>4. p \notin {"and", "or", ")", ""}
  BY <1>1, Zenon DEF Part, After, Named
<1>5. CASE p = "not"
  <2>1. Part(tokens, i + 1, j) /\ NoSplit(tokens, i + 1, j, "or")
        /\ NoSplit(tokens, i + 1, j, "and")
    BY <1>5, NegatedPart DEF NoSplit
  <2>2. j - (i + 1) < j - i
    BY <1>0
  <2>3. V[<<i + 1, j>>] \in BOOLEAN /\ P[i + 1].factor = Parsed(V[<<i + 1, j>>], j + 1)
    BY <2>1, <2>2 DEF ShorterAgree, Agrees, FactorAgrees
  <2>4. V[<<i, j>>] = ~V[<<i + 1, j>>]
    BY <1>2, <1>5, Zenon
  <2>5. /\ P[i + 1].factor.ok /\ P[i + 1].factor.val = V[<<i + 1, j>>]
        /\ P[i + 1].factor.next = j + 1
    <3>1. j + 1 \in Nat
      BY <1>0
    <3> QED BY <2>3, <3>1, ResultIs, Zenon
  <2>6. Factor(P, tokens, truth, i) = Parsed(~V[<<i + 1, j>>], j + 1)
    BY <2>5, <1>1, <1>5, Zenon DEF Factor
  <2> QED BY <2>3, <2>4, <2>6, <1>3, Zenon
<1>6. CASE p = "("
  <2>1. tokens[j] = ")" /\ Part(tokens, i + 1, j - 1)
    BY <1>6, BracketedPart DEF NoSplit
  <2>2. (j - 1) - (i + 1) < j - i /\ (j - 1) + 1 = j
    BY <1>0
  <2>3. Peek(tokens, j) = ")" /\ Peek(tokens, j) # "or" /\ Peek(tokens, j) # "and"
    <3>1. j <= N
      BY <1>0
    <3>2. Peek(tokens, j) = ")"
      BY <2>1, <3>1, PeekFacts, Zenon
    <3> QED BY <3>2
  <2>4. V[<<i + 1, j - 1>>] \in BOOLEAN /\ P[i + 1].expr = Parsed(V[<<i + 1, j - 1>>], j)
    BY <2>1, <2>2, <2>3 DEF ShorterAgree, Agrees, ExprAgrees
  <2>5. V[<<i, j>>] = V[<<i + 1, j - 1>>]
    BY <1>2, <1>6
  <2>6. /\ P[i + 1].expr.ok /\ P[i + 1].expr.val = V[<<i + 1, j - 1>>]
        /\ P[i + 1].expr.next = j
    BY <2>4, <1>0, ResultIs, Zenon
  <2>7. Factor(P, tokens, truth, i) = Parsed(V[<<i + 1, j - 1>>], j + 1)
    BY <2>3, <2>6, <1>1, <1>6 DEF Factor, Follows
  <2> QED BY <2>4, <2>5, <2>7, <1>3, Zenon
<1>7. CASE p # "not" /\ p # "("
  <2>1. p \notin Before
    BY <1>4, <1>7 DEF Before
  <2>2. Level(tokens, i) = Level(tokens, i - 1)
    <3>1. /\ i - 1 \in 0..N /\ Level(tokens, i) = Level(tokens, i - 1) + Weight(p)
          /\ Level(tokens, i - 1) \in Int
      <4>1. i - 1 \in 0..N
        BY <1>0
      <4> QED BY <1>0, <4>1, LevelFacts
    <3>2. Weight(p) = 0
      BY <1>4, <1>7 DEF Weight
    <3> QED BY <3>1, <3>2
  <2>3. i = j
    <3>1. i \in i..j
      BY <1>0
    <3> QED BY <2>1, <2>2, <3>1, BackAtLevel DEF NoSplit
  <2>4. V[<<i, j>>] = (p \in Names /\ truth[p])
    BY <1>2, <1>7, Zenon
  <2>5. DOMAIN truth = Names
    OBVIOUS
  <2>6. Factor(P, tokens, truth, i) = Parsed(p \in Names /\ truth[p], i + 1)
    BY <1>1, <1>4, <1>7, <2>5, Zenon DEF Factor
  <2>7. (p \in Names /\ truth[p]) \in BOOLEAN
    BY Zenon
  <2> QED BY <2>3, <2>4, <2>6, <2>7, <1>3, Zenon
<1> QED BY <1>5, <1>6, <1>7

\* A part agrees when all shorter ones do.
LEMMA PartAgrees ==
  ASSUME NEW S, NEW tokens \in Seq(S), Alternates(tokens), NEW truth \in [Names -> BOOLEAN],
         NEW P, NEW V, Rounds(P, V, tokens, truth),
         NEW i, NEW j, Part(tokens, i, j), Named(tokens, i),
         ShorterAgree(P, V, tokens, j - i)
  PROVE  Agrees(P, V, tokens, i, j)
<1> DEFINE N == Len(tokens)
           v == V[<<i, j>>]
<1>0. N \in Nat /\ i \in 1..N /\ j \in 1..N /\ i <= j /\ i \in Nat /\ j \in Nat
      /\ i \in 1..(N + 1) /\ j \in 0..N /\ ~(i > j) /\ j + 1 \in Nat
  BY DEF Part
<1>1. /\ P[i].term = Chain(tokens, P[i].factor, "and", P[P[i].factor.next + 1].term)
      /\ P[i].expr = Chain(tokens, P[i].term, "or", P[P[i].term.next + 1].expr)
  <2>1. P[i] = Round(P, tokens, truth, i)
    BY <1>0 DEF Rounds
  <2>2. /\ P[i].factor = Factor(P, tokens, truth, i)
        /\ P[i].term = Term(P, tokens, truth, i)
        /\ P[i].expr = Expr(P, tokens, truth, i)
    BY <2>1 DEF Round
  <2> QED BY <2>2 DEF Term, Expr
<1>2. v = Joined(V, tokens, truth, i, j)
  BY <1>0 DEF Rounds
<1>3. NoSplit(tokens, i, j, "or") /\ NoSplit(tokens, i, j, "and")
      => v \in BOOLEAN /\ P[i].factor = Parsed(v, j + 1)
  BY FactorStep
<1>4. NoSplit(tokens, i, j, "or")
      => v \in BOOLEAN /\ (Peek(tokens, j + 1) # "and" => P[i].term = Parsed(v, j + 1))
  <2> HAVE NoSplit(tokens, i, j, "or")
  <2>1. CASE NoSplit(tokens, i, j, "and")
    <3>1. v \in BOOLEAN /\ P[i].factor = Parsed(v, j + 1)
      BY <1>3, <2>1
    <3> HIDE DEF v
    <3> QED BY <1>0, <1>1, <3>1, ChainStops
  <2>2. CASE ~NoSplit(tokens, i, j, "and")
    <3>1. PICK k : Shortens(P, V, tokens, i, j, "and", k)
      BY <2>2, SplitAgrees
    <3> DEFINE a == V[<<i, k - 1>>]
               b == V[<<k + 1, j>>]
    <3>2. a \in BOOLEAN /\ b \in BOOLEAN
      BY <3>1 DEF Shortens, Agrees
    <3>3. v = (a /\ b)
      BY <1>0, <1>2, <2>2, <3>1, Zenon DEF Shortens, Joined, NoSplit
    <3>4. P[i].factor = Parsed(a, k)
      BY <3>1 DEF Shortens, Agrees, FactorAgrees
    <3>5. Peek(tokens, j + 1) # "and" => P[k + 1].term = Parsed(b, j + 1)
      BY <3>1 DEF Shortens, Agrees, TermAgrees
    <3> HIDE DEF a, b, v
    <3>6. P[i].factor.next = k
      <4>1. k \in Nat
        BY <3>1 DEF Shortens
      <4> QED BY <3>2, <3>4, <4>1, ResultIs, Zenon
    <3>7. Peek(tokens, j + 1) # "and" =>
            P[i].term = Chain(tokens, Parsed(a, k), "and", Parsed(b, j + 1))
      BY <1>1, <3>4, <3>5, <3>6
    <3>8. Chain(tokens, Parsed(a, k), "and", Parsed(b, j + 1)) = Parsed(a /\ b, j + 1)
      <4>1. k \in Nat /\ j + 1 \in Nat /\ Peek(tokens, k) = "and"
        BY <1>0, <3>1 DEF Shortens
      <4>2. /\ Parsed(a, k).ok /\ Parsed(a, k).val = a /\ Parsed(a, k).next = k
            /\ Parsed(b, j + 1).ok /\ Parsed(b, j + 1).val = b
            /\ Parsed(b, j + 1).next = j + 1
        BY <3>2, <4>1, ResultFacts, Zenon
      <4>3. Peek(tokens, Parsed(a, k).next) = "and"
        BY <4>1, <4>2, Zenon
      <4> DEFINE l == Parsed(a, k)
                 r == Parsed(b, j + 1)
      <4>4. Chain(tokens, l, "and", r) = Both(l, r, "and")
        <5> HIDE DEF l, r
        <5>1. l.ok /\ Peek(tokens, l.next) = "and"
          BY <4>2, <4>3 DEF l, r
        <5> QED BY <5>1, ChainJoins
      <4>5. Both(l, r, "and") = Parsed(a /\ b, j + 1)
        BY <4>2, Zenon DEF Both
      <4> QED BY <4>4, <4>5
    <3>9. v \in BOOLEAN
      BY <3>3, Zenon
    <3> QED BY <3>3, <3>7, <3>8, <3>9, Zenon
  <2> QED BY <2>1, <2>2
<1>5. v \in BOOLEAN
      /\ (Peek(tokens, j + 1) # "or" /\ Peek(tokens, j + 1) # "and"
          => P[i].expr = Parsed(v, j + 1))
  <2>1. CASE NoSplit(tokens, i, j, "or")
    <3>1. v \in BOOLEAN /\ (Peek(tokens, j + 1) # "and" => P[i].term = Parsed(v, j + 1))
      BY <1>4, <2>1
    <3> HIDE DEF v
    <3> QED BY <1>0, <1>1, <3>1, ChainStops
  <2>2. CASE ~NoSplit(tokens, i, j, "or")
    <3>1. PICK k : Shortens(P, V, tokens, i, j, "or", k)
      BY <2>2, SplitAgrees
    <3> DEFINE a == V[<<i, k - 1>>]
               b == V[<<k + 1, j>>]
    <3>2. a \in BOOLEAN /\ b \in BOOLEAN
      BY <3>1 DEF Shortens, Agrees
    <3>3. v = (a \/ b)
      BY <1>0, <1>2, <2>2, <3>1, Zenon DEF Shortens, Joined, NoSplit
    <3>4. P[i].term = Parsed(a, k)
      BY <3>1 DEF Shortens, Agrees, TermAgrees
    <3>5. Peek(tokens, j + 1) # "or" /\ Peek(tokens, j + 1) # "and"
          => P[k + 1].expr = Parsed(b, j + 1)
      BY <3>1 DEF Shortens, Agrees, ExprAgrees
    <3> HIDE DEF a, b, v
    <3>6. P[i].term.next = k
      <4>1. k \in Nat
        BY <3>1 DEF Shortens
      <4> QED BY <3>2, <3>4, <4>1, ResultIs, Zenon
    <3>7. Peek(tokens, j + 1) # "or" /\ Peek(tokens, j + 1) # "and" =>
            P[i].expr = Chain(tokens, Parsed(a, k), "or", Parsed(b, j + 1))
      BY <1>1, <3>4, <3>5, <3>6
    <3>8. Chain(tokens, Parsed(a, k), "or", Parsed(b, j + 1)) = Parsed(a \/ b, j + 1)
      <4>1. k \in Nat /\ j + 1 \in Nat /\ Peek(tokens, k) = "or"
        BY <1>0, <3>1 DEF Shortens
      <4>2. /\ Parsed(a, k).ok /\ Parsed(a, k).val = a /\ Parsed(a, k).next = k
            /\ Parsed(b, j + 1).ok /\ Parsed(b, j + 1).val = b
            /\ Parsed(b, j + 1).next = j + 1
        BY <3>2, <4>1, ResultFacts, Zenon
      <4>3. Peek(tokens, Parsed(a, k).next) = "or"
        BY <4>1, <4>2, Zenon
      <4> DEFINE l == Parsed(a, k)
                 r == Parsed(b, j + 1)
      <4>4. Chain(tokens, l, "or", r) = Both(l, r, "or")
        <5> HIDE DEF l, r
        <5>1. l.ok /\ Peek(tokens, l.next) = "or"
          BY <4>2, <4>3 DEF l, r
        <5> QED BY <5>1, ChainJoins
      <4>5. Both(l, r, "or") = Parsed(a \/ b, j + 1)
        BY <4>2, Zenon DEF Both
      <4> QED BY <4>4, <4>5
    <3>9. v \in BOOLEAN
      BY <3>3, Zenon
    <3> QED BY <3>3, <3>7, <3>8, <3>9, Zenon
  <2> QED BY <2>1, <2>2
<1> QED BY <1>3, <1>4, <1>5 DEF Agrees, FactorAgrees, TermAgrees, ExprAgrees

\* The condition of a rule is parsed to its value, however long it is.
LEMMA ParseIsValue ==
  ASSUME NEW S, NEW tokens \in Seq(S), ~Unnamed(tokens), NEW truth \in [Names -> BOOLEAN],
         Expression(tokens)
  PROVE  Holds(tokens, truth) = Value(tokens, truth)
<1> DEFINE N == Len(tokens)
<1>1. Alternates(tokens) /\ Part(tokens, 1, N)
  BY ExpressionFacts
<1>2. PICK P : /\ Parse(tokens, truth) = P[1].expr
               /\ \A i \in 1..(N + 1) : P[i] = Round(P, tokens, truth, i)
  BY ParseFacts
<1>3. PICK V : /\ Value(tokens, truth) = V[<<1, N>>]
               /\ \A i \in 1..(N + 1), j \in 0..N :
                    V[<<i, j>>] = Joined(V, tokens, truth, i, j)
  BY ValueFacts
<1>4. Rounds(P, V, tokens, truth)
  BY <1>2, <1>3 DEF Rounds
<1> DEFINE Fine(n) ==
             \A i, j : Part(tokens, i, j) /\ j - i = n => Agrees(P, V, tokens, i, j)
           T == {n \in Nat : ~Fine(n)}
<1>5. \A n \in Nat : Fine(n)
  <2> SUFFICES ASSUME T # {} PROVE FALSE
    OBVIOUS
  <2>1. PICK n \in T : \A m \in T : n <= m
    <3>1. T \in SUBSET Nat
      OBVIOUS
    <3> HIDE DEF T
    <3> QED BY <3>1, LeastNumber
  <2>2. n \in Nat /\ ~Fine(n)
    BY <2>1
  <2>3. PICK i, j : Part(tokens, i, j) /\ j - i = n /\ ~Agrees(P, V, tokens, i, j)
    BY <2>2
  <2>4. ShorterAgree(P, V, tokens, j - i)
    <3> SUFFICES ASSUME NEW k, NEW m, Part(tokens, k, m), m - k < j - i
                 PROVE  Agrees(P, V, tokens, k, m)
      BY DEF ShorterAgree
    <3>1. m - k \in Nat /\ ~(n <= m - k)
      <4>1. k \in 1..m /\ m \in 1..N
        BY DEF Part
      <4>2. m - k \in Nat
        BY <4>1
      <4> QED BY <2>1, <2>2, <2>3, <4>2
    <3>2. Fine(m - k)
      <4> HIDE DEF Fine
      <4> QED BY <2>1, <3>1
    <3> QED BY <3>2
  <2>5. Named(tokens, i)
    <3>1. i \in 1..N /\ i <= N
      BY <2>3, LenProperties DEF Part
    <3>2. Peek(tokens, i) = tokens[i]
      BY <3>1, PeekFacts, Zenon
    <3> QED BY <3>1, <3>2, Zenon DEF Named, Unnamed
  <2>6. Agrees(P, V, tokens, i, j)
    BY <1>1, <1>4, <2>3, <2>4, <2>5, PartAgrees
  <2> QED BY <2>3, <2>6
<1>6. Agrees(P, V, tokens, 1, N)
  <2>1. N - 1 \in Nat
    BY <1>1 DEF Part
  <2> QED BY <1>1, <1>5, <2>1
<1>7. Peek(tokens, N + 1) # "or" /\ Peek(tokens, N + 1) # "and"
  <2>1. ~(N + 1 <= N)
    BY LenProperties
  <2>2. Peek(tokens, N + 1) = ""
    BY <2>1, Zenon DEF Peek
  <2> QED BY <2>2
<1>8. P[1].expr = Parsed(V[<<1, N>>], N + 1) /\ V[<<1, N>>] \in BOOLEAN
  BY <1>6, <1>7 DEF Agrees, ExprAgrees
<1>9. Parsed(V[<<1, N>>], N + 1).val = V[<<1, N>>]
  BY <1>8, LenProperties, ResultFacts
<1> QED BY <1>2, <1>3, <1>8, <1>9 DEF Holds

\* A rule whose condition is an expression matches what the expression says.
THEOREM ConditionsMeanWhatTheySay == TiersSpec => []ConditionMeansWhatItSays
<1>1. TiersTypeOK => ConditionMeansWhatItSays
  <2> SUFFICES ASSUME TiersTypeOK, Expression(condition), NEW truth \in [Names -> BOOLEAN]
               PROVE  Holds(condition, truth) <=> Value(condition, truth)
    BY DEF ConditionMeansWhatItSays
  <2>1. condition \in Seq(Tokens)
    BY DEF TiersTypeOK
  <2>2. \A i \in 1..Len(condition) : condition[i] \in Tokens
    BY <2>1, ElementOfSeq
  <2>3. ~Unnamed(condition)
    BY <2>2, NameAssumption, Zenon DEF Unnamed
  <2>4. Holds(condition, truth) = Value(condition, truth)
    BY <2>1, <2>3, ParseIsValue
  <2> QED BY <2>4, Zenon
<1> QED BY <1>1, TiersTypeCorrect, PTL
=============================================================================
