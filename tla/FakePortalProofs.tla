-------------------------- MODULE FakePortalProofs --------------------------
(***************************************************************************)
(* Proofs about FakePortal: types, and that a flag stands exactly as long  *)
(* as its last cause asks for. FlagStands is not inductive as it stands: a *)
(* flag must be known to expire one TTL after its last cause, or to have   *)
(* been dropped by then.                                                   *)
(***************************************************************************)
EXTENDS FakePortal, TLAPS

\* The flag of a visitor expires a TTL after its last cause, or is gone since.
Dated ==
  \A v \in Visitors : caused[v] # None =>
    \/ FLAGGED_IPS[v] = caused[v] + FLAG_TTL
    \/ FLAGGED_IPS[v] = None /\ now >= caused[v] + FLAG_TTL

Inv == TypeOK /\ Dated /\ FlagHasCause

\* What a step may do to the flags: nothing, drop those that expired, date some
\* anew, or clear them with the scores.
FlagStep ==
  \/ UNCHANGED <<FLAGGED_IPS, IP_SUSPICION, caused>>
  \/ \E v \in Visitors : DropExpired(v) /\ UNCHANGED <<IP_SUSPICION, caused>>
  \/ \E v \in Visitors, amount \in Nat : _bump_suspicion(v, amount)
  \/ \E v \in Visitors : _flag_ip(v) /\ UNCHANGED IP_SUSPICION
  \/ ClearFlags

-----------------------------------------------------------------------------
(* The types *)

\* A flag or a score that is changed keeps its type.
LEMMA FlagTypes ==
  ASSUME TypeOK, FlagStep
  PROVE  /\ FLAGGED_IPS' \in [Visitors -> Nat \cup {None}]
         /\ IP_SUSPICION' \in [Visitors -> Nat]
         /\ caused' \in [Visitors -> Nat \cup {None}]
<1>1. CASE UNCHANGED <<FLAGGED_IPS, IP_SUSPICION, caused>>
  BY <1>1 DEF TypeOK
<1>2. CASE \E v \in Visitors : DropExpired(v) /\ UNCHANGED <<IP_SUSPICION, caused>>
  BY <1>2 DEF TypeOK, DropExpired
<1>3. CASE \E v \in Visitors, amount \in Nat : _bump_suspicion(v, amount)
  BY <1>3, PortalAssumption DEF TypeOK, _bump_suspicion, _flag_ip
<1>4. CASE \E v \in Visitors : _flag_ip(v) /\ UNCHANGED IP_SUSPICION
  BY <1>4, PortalAssumption DEF TypeOK, _flag_ip
<1>5. CASE ClearFlags
  BY <1>5 DEF TypeOK, ClearFlags
<1> QED BY <1>1, <1>2, <1>3, <1>4, <1>5 DEF FlagStep

\* A busy request knows its visitor, its path and its cookie.
LEMMA Busy ==
  ASSUME TypeOK, NEW r \in Requests, req[r] # Idle
  PROVE  /\ req[r].from \in Visitors /\ req[r].path \in Paths /\ req[r].cookie \in Nat
         /\ req[r] \in [at: Phases \ {"idle"}, from: Visitors, path: Paths, cookie: Nat]
BY DEF TypeOK, Progress

\* Every step does to the flags what FlagStep allows, and to the clock nothing but
\* let it pass.
LEMMA Steps ==
  ASSUME TypeOK, Next
  PROVE  FlagStep /\ now' \in Nat /\ now' >= now
<1>1. ASSUME NEW r \in Requests, NEW v \in Visitors, NEW path \in Paths,
             NEW cookie \in {0, jar[v]}, Arrive(r, v, path, cookie)
      PROVE  FlagStep /\ now' = now
  <2>1. UNCHANGED <<FLAGGED_IPS, IP_SUSPICION, caused>> \/ (DropExpired(v) /\ UNCHANGED <<IP_SUSPICION, caused>>)
    BY <1>1 DEF Arrive
  <2> QED BY <2>1, <1>1 DEF FlagStep, Arrive
<1>2. ASSUME NEW r \in Requests, GhostAnswers(r) \/ FallBack(r) \/ Serve(r)
      PROVE  FlagStep /\ now' = now
  BY <1>2 DEF GhostAnswers, FallBack, Serve, Handles, FlagStep, flags
<1>3. ASSUME NEW r \in Requests, LoginSubmit(r)
      PROVE  FlagStep /\ now' = now
  <2>1. req[r] # Idle
    BY <1>3 DEF LoginSubmit, Handles, Idle
  <2>2. req[r].from \in Visitors
    BY <2>1, Busy
  <2>3. _bump_suspicion(req[r].from, Injection) /\ Injection \in Nat
    BY <1>3, PortalAssumption DEF LoginSubmit
  <2> QED BY <2>2, <2>3, <1>3 DEF FlagStep, LoginSubmit, Handles
<1>4. ASSUME NEW r \in Requests, AdminAcknowledge(r)
      PROVE  FlagStep /\ now' = now
  <2>1. req[r] # Idle
    BY <1>4 DEF AdminAcknowledge, Handles, Idle
  <2>2. req[r].from \in Visitors
    BY <2>1, Busy
  <2> QED BY <2>2, <1>4 DEF FlagStep, AdminAcknowledge, Handles
<1>5. ASSUME NEW r \in Requests, AdminReset(r)
      PROVE  FlagStep /\ now' = now
  BY <1>5 DEF FlagStep, AdminReset, Handles
<1>6. ASSUME NEW r \in Requests, Answer(r)
      PROVE  FlagStep /\ now' = now
  <2>1. req[r] # Idle
    BY <1>6 DEF Answer, Idle
  <2>2. req[r].from \in Visitors
    BY <2>1, Busy
  <2>3. Score(r) /\ Probe \in Nat /\ Miss \in Nat
    BY <1>6, PortalAssumption DEF Answer
  <2>4. \/ _bump_suspicion(req[r].from, Probe) \/ _bump_suspicion(req[r].from, Miss)
        \/ UNCHANGED <<FLAGGED_IPS, IP_SUSPICION, caused>>
    BY <2>3 DEF Score, flags
  <2> QED BY <2>2, <2>3, <2>4, <1>6 DEF FlagStep, Answer
<1>7. CASE Tick
  BY <1>7 DEF Tick, flags, FlagStep, TypeOK
<1> QED BY <1>1, <1>2, <1>3, <1>4, <1>5, <1>6, <1>7 DEF Next, TypeOK

\* A step keeps the types.
LEMMA TypeStep ==
  ASSUME TypeOK, Next
  PROVE  TypeOK'
<1> USE DEF TypeOK
<1>1. /\ FLAGGED_IPS' \in [Visitors -> Nat \cup {None}]
      /\ IP_SUSPICION' \in [Visitors -> Nat]
      /\ caused' \in [Visitors -> Nat \cup {None}]
      /\ now' \in Nat
  BY Steps, FlagTypes
<1>2. ASSUME NEW r \in Requests, NEW v \in Visitors, NEW path \in Paths,
             NEW cookie \in {0, jar[v]}, Arrive(r, v, path, cookie)
      PROVE  TypeOK'
  <2>1. cookie \in Nat
    OBVIOUS
  <2>2. req' \in [Requests -> Progress]
    BY <1>2, <2>1 DEF Arrive, Progress, Phases
  <2>3. seen' \in Nat
    BY <1>2 DEF Arrive
  <2> QED BY <1>1, <1>2, <2>2, <2>3 DEF Arrive, cookies
<1>3. ASSUME NEW r \in Requests, GhostAnswers(r)
      PROVE  TypeOK'
  BY <1>1, <1>3 DEF GhostAnswers, flags, cookies, Progress
<1>4. ASSUME NEW r \in Requests, FallBack(r)
      PROVE  TypeOK'
  <2>1. req[r] # Idle
    BY <1>4 DEF FallBack, Idle
  <2>2. req' \in [Requests -> Progress]
    BY <1>4, <2>1, Busy DEF FallBack, Progress, Phases
  <2> QED BY <1>1, <1>4, <2>2 DEF FallBack, flags, cookies
<1>5. ASSUME NEW r \in Requests, NEW paths \in SUBSET Paths, Handles(r, paths)
      PROVE  /\ req' \in [Requests -> Progress]
             /\ jar' \in [Visitors -> Nat] /\ issued' \in Nat /\ seen' \in Nat
             /\ req[r].from \in Visitors /\ req[r].cookie \in Nat
  <2>1. req[r] # Idle
    BY <1>5 DEF Handles, Idle
  <2>2. req' \in [Requests -> Progress]
    BY <1>5, <2>1, Busy DEF Handles, Progress, Phases
  <2> QED BY <1>5, <2>1, <2>2, Busy DEF Handles, cookies
<1>6. ASSUME NEW r \in Requests, Serve(r)
      PROVE  TypeOK'
  BY <1>1, <1>6, <1>5 DEF Serve, flags, Paths
<1>7. ASSUME NEW r \in Requests, LoginSubmit(r)
      PROVE  TypeOK'
  BY <1>1, <1>7, <1>5 DEF LoginSubmit, Paths
<1>8. ASSUME NEW r \in Requests, AdminAcknowledge(r)
      PROVE  TypeOK'
  <2>1. reported' \subseteq Reports
    BY <1>8, <1>5 DEF AdminAcknowledge, _spawn, Reports, Paths
  <2> QED BY <1>1, <1>8, <1>5, <2>1 DEF AdminAcknowledge, Paths
<1>9. ASSUME NEW r \in Requests, AdminReset(r)
      PROVE  TypeOK'
  <2>1. resets' \in Nat
    BY <1>9 DEF AdminReset
  <2> QED BY <1>1, <1>9, <1>5, <2>1 DEF AdminReset, Paths
<1>10. ASSUME NEW r \in Requests, Answer(r)
       PROVE  TypeOK'
  <2>1. req[r] # Idle
    BY <1>10 DEF Answer, Idle
  <2>2. req[r].from \in Visitors /\ req[r].cookie \in Nat
    BY <2>1, Busy
  <2>3. req' \in [Requests -> Progress]
    BY <1>10 DEF Answer, Progress
  <2>4. issued' \in Nat /\ jar' \in [Visitors -> Nat]
    BY <1>10, <2>2 DEF Answer, Identify
  <2>6. Sid(r) \in Nat
    BY <2>2 DEF Sid
  <2>7. reported' \subseteq Reports
    BY <1>10, <2>2, <2>6 DEF Answer, _spawn, Reports
  <2> QED BY <1>1, <1>10, <2>3, <2>4, <2>7 DEF Answer
<1>11. CASE Tick
  BY <1>1, <1>11 DEF Tick, flags, cookies
<1> QED BY <1>2, <1>3, <1>4, <1>6, <1>7, <1>8, <1>9, <1>10, <1>11 DEF Next

-----------------------------------------------------------------------------
(* The flags *)

\* A step keeps the flags dated by their causes.
LEMMA DatedStep ==
  ASSUME Inv, Next
  PROVE  Dated' /\ FlagHasCause'
<1> USE PortalAssumption DEF Inv, TypeOK
<1>0. now' \in Nat /\ now' >= now /\ FlagStep
  BY Steps
<1>1. CASE UNCHANGED <<FLAGGED_IPS, IP_SUSPICION, caused>>
  BY <1>0, <1>1 DEF Dated, FlagHasCause
<1>2. ASSUME NEW v \in Visitors, DropExpired(v), UNCHANGED <<IP_SUSPICION, caused>>
      PROVE  Dated' /\ FlagHasCause'
  BY <1>0, <1>2 DEF Dated, FlagHasCause, DropExpired, Flagged
<1>3. ASSUME NEW v \in Visitors, _flag_ip(v),
             \A w \in Visitors : w # v => IP_SUSPICION'[w] = IP_SUSPICION[w]
      PROVE  Dated' /\ FlagHasCause'
  <2>1. FLAGGED_IPS'[v] = now + FLAG_TTL /\ caused'[v] = now /\ caused'[v] # None
    BY <1>3 DEF _flag_ip
  <2>2. \A w \in Visitors \ {v} : FLAGGED_IPS'[w] = FLAGGED_IPS[w] /\ caused'[w] = caused[w]
    BY <1>3 DEF _flag_ip
  <2> QED BY <1>0, <1>3, <2>1, <2>2 DEF Dated, FlagHasCause
<1>4. ASSUME NEW v \in Visitors, NEW amount \in Nat, _bump_suspicion(v, amount)
      PROVE  Dated' /\ FlagHasCause'
  <2>1. IP_SUSPICION' = [IP_SUSPICION EXCEPT ![v] = @ + amount]
    BY <1>4 DEF _bump_suspicion
  <2>2. CASE IP_SUSPICION[v] + amount >= SUSPICION_THRESHOLD
    BY <1>3, <1>4, <2>1, <2>2 DEF _bump_suspicion
  <2>3. CASE ~(IP_SUSPICION[v] + amount >= SUSPICION_THRESHOLD)
    BY <1>0, <1>4, <2>1, <2>3 DEF _bump_suspicion, Dated, FlagHasCause
  <2> QED BY <2>2, <2>3
<1>5. CASE ClearFlags
  BY <1>5 DEF ClearFlags, Dated, FlagHasCause
<1> QED BY <1>0, <1>1, <1>2, <1>3, <1>4, <1>5 DEF FlagStep

\* The invariant of the portal.
THEOREM Invariance == Spec => []Inv
<1>1. Init => Inv
  BY PortalAssumption DEF Init, Inv, TypeOK, Dated, FlagHasCause, Progress
<1>2. Inv /\ [Next]_vars => Inv'
  <2> SUFFICES ASSUME Inv, [Next]_vars PROVE Inv'
    OBVIOUS
  <2>1. CASE Next
    BY <2>1, TypeStep, DatedStep DEF Inv
  <2>2. CASE UNCHANGED vars
    BY <2>2 DEF Inv, TypeOK, Dated, FlagHasCause, vars, flags, cookies
  <2> QED BY <2>1, <2>2
<1> QED BY <1>1, <1>2, PTL DEF Spec

\* Every variable of the portal keeps its type.
THEOREM TypeCorrect == Spec => []TypeOK
BY Invariance, PTL DEF Inv

\* A flag stands for a whole TTL after its last cause, however requests, lookups
\* and expiries interleave (_flag_ip, _is_flagged, _bump_suspicion).
THEOREM FlagsStand == Spec => []FlagStands
<1>1. Inv => FlagStands
  BY PortalAssumption DEF Inv, TypeOK, Dated, FlagStands, Flagged
<1> QED BY <1>1, Invariance, PTL

\* Nobody is flagged, nor over the threshold, who is not due a flag.
THEOREM FlagsHaveCauses == Spec => []FlagHasCause
BY Invariance, PTL DEF Inv
=============================================================================
