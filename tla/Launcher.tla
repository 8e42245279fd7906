------------------------------- MODULE Launcher -------------------------------
(***************************************************************************)
(* The red-team launcher of the console (services/api/attacks.py): each    *)
(* launch is a child process of the gateway, kept in _RUNS with its exit   *)
(* code once it has one.                                                   *)
(*                                                                         *)
(* The limit of live runs is tested, the child starts, and the handler     *)
(* waits for it to be set up before the run is recorded: other requests,   *)
(* the end of the child and the clock come in between. The pump of a run   *)
(* reads its output to the end and then records the exit code.             *)
(*                                                                         *)
(* Runs are numbered in the order they are launched.                       *)
(***************************************************************************)
EXTENDS Integers, FiniteSets, TLC, Maps

CONSTANTS
  Clients,                   \* requests to launch, in progress at once
  MAX_CONCURRENT, _RETAIN_FINISHED_S,
  MaxLaunches, MaxClock       \* bounds

ASSUME LauncherAssumption ==
  /\ IsFiniteSet(Clients)
  /\ MAX_CONCURRENT \in Nat \ {0} /\ _RETAIN_FINISHED_S \in Nat
  /\ MaxLaunches \in Nat /\ MaxClock \in Nat

VARIABLES
  clock,
  launched,     \* the number of children started
  live,         \* the children that have not ended
  terminated,   \* of these, the ones that were sent SIGTERM
  client,       \* the run whose set-up each request waits for, 0 if none
  _RUNS         \* of the runs that are recorded: what is known of them

launchVars == <<clock, launched, live, terminated, client, _RUNS>>

\* pump: whether a task reads the output; rc: whether there is an exit code
Run == [started_at: Nat, pump: BOOLEAN, rc: BOOLEAN]

LaunchTypeOK ==
  /\ clock \in Nat /\ launched \in Nat
  /\ live \subseteq 1..launched /\ terminated \subseteq live
  /\ client \in [Clients -> 0..launched]
  /\ DOMAIN _RUNS \subseteq 1..launched /\ \A rid \in DOMAIN _RUNS : _RUNS[rid] \in Run

LaunchInit ==
  /\ clock = 0 /\ launched = 0 /\ live = {} /\ terminated = {}
  /\ client = [c \in Clients |-> 0]
  /\ _RUNS = <<>>

-----------------------------------------------------------------------------

\* Mutant: a run is dropped by its age alone.
Reapable_Running(rid) == clock - _RUNS[rid].started_at > _RETAIN_FINISHED_S

Reapable(rid) == _RUNS[rid].rc /\ clock - _RUNS[rid].started_at > _RETAIN_FINISHED_S

_reap == Without(_RUNS, {rid \in DOMAIN _RUNS : Reapable(rid)})

Unfinished == {rid \in DOMAIN _reap : ~_reap[rid].rc}

\* Mutant: one more than the limit.
Room_OneMore == Cardinality(Unfinished) <= MAX_CONCURRENT

Room == Cardinality(Unfinished) < MAX_CONCURRENT

\* A launch that is refused has reaped all the same, as ListRuns does.
Launch(c) ==
  /\ client[c] = 0 /\ launched < MaxLaunches
  /\ Room
  /\ launched' = launched + 1
  /\ live' = live \cup {launched'}
  /\ client' = [client EXCEPT ![c] = launched']
  /\ _RUNS' = _reap
  /\ UNCHANGED <<clock, terminated>>

\* No child can be started: the reaping is all that is left of the launch.
LaunchFails(c) ==
  /\ client[c] = 0 /\ Room
  /\ _RUNS' = _reap
  /\ UNCHANGED <<clock, launched, live, terminated, client>>

\* Mutant: no output is read of a child that has ended.
Pumped_Live(rid) == rid \in live

Pumped(rid) == rid \in 1..launched

Record(c) ==
  /\ client[c] # 0
  /\ _RUNS' = [rid \in DOMAIN _RUNS \cup {client[c]} |->
                 IF rid = client[c]
                   THEN [started_at |-> clock, pump |-> Pumped(rid), rc |-> FALSE]
                   ELSE _RUNS[rid]]
  /\ client' = [client EXCEPT ![c] = 0]
  /\ UNCHANGED <<clock, launched, live, terminated>>

Exit(rid) ==
  /\ rid \in live
  /\ live' = live \ {rid}
  /\ terminated' = terminated \ {rid}
  /\ UNCHANGED <<clock, launched, client, _RUNS>>

PumpEnds(rid) ==
  /\ rid \in DOMAIN _RUNS \ live
  /\ _RUNS[rid].pump /\ ~_RUNS[rid].rc
  /\ _RUNS' = [_RUNS EXCEPT ![rid].rc = TRUE]
  /\ UNCHANGED <<clock, launched, live, terminated, client>>

\* A run that is not recorded is unknown: 404. SIGTERM is sent and nothing is awaited.
Stopped(rid) == _RUNS

Signalled(rid) == {rid} \cap live

Stop(rid) ==
  /\ rid \in DOMAIN _RUNS /\ ~_RUNS[rid].rc
  /\ terminated' = terminated \cup Signalled(rid)
  /\ _RUNS' = Stopped(rid)
  /\ UNCHANGED <<clock, launched, live, client>>

ListRuns ==
  /\ _RUNS' = _reap
  /\ UNCHANGED <<clock, launched, live, terminated, client>>

ClockTicks ==
  /\ clock < MaxClock /\ clock' = clock + 1
  /\ UNCHANGED <<launched, live, terminated, client, _RUNS>>

LaunchNext ==
  \/ \E c \in Clients : Launch(c) \/ LaunchFails(c) \/ Record(c)
  \/ \E rid \in 1..launched : Exit(rid) \/ PumpEnds(rid) \/ Stop(rid)
  \/ ListRuns
  \/ ClockTicks

\* A child that is told to stop ends, and the event loop runs what is ready. Nothing
\* is assumed of the others: not every level minds its duration.
Fairness ==
  /\ \A c \in Clients : WF_launchVars(Record(c))
  /\ \A rid \in 1..MaxLaunches :
       WF_launchVars(rid \in terminated /\ Exit(rid)) /\ WF_launchVars(PumpEnds(rid))

LaunchSpec == LaunchInit /\ [][LaunchNext]_launchVars /\ Fairness

\* Requests are alike.
ClientSymmetry == Permutations(Clients)

-----------------------------------------------------------------------------
(* Properties *)

\* MAX_CONCURRENT is exceeded only by launches that overlap, by one less than their
\* number at most, and however they interleave with ends, stops and reaping. One
\* operator who waits for each answer never exceeds it.
LiveBound ==
  Cardinality(live) <= MAX_CONCURRENT + Cardinality(Clients) - 1

\* A child that has not ended can be stopped, or is about to be recorded: it is not
\* reaped, nor taken for finished.
LiveIsStoppable ==
  \A rid \in live :
    \/ \E c \in Clients : client[c] = rid
    \/ rid \in DOMAIN _RUNS /\ ~_RUNS[rid].rc

\* A run that was told to stop, or had ended when it was told to, gives its place
\* back: it has an exit code in the end, or is gone from the map.
StopFrees ==
  \A rid \in 1..MaxLaunches :
    (rid \in DOMAIN _RUNS /\ (rid \in terminated \/ rid \notin live))
      ~> (rid \in DOMAIN _RUNS => _RUNS[rid].rc)
=============================================================================
