----------------------------- MODULE TokenBucket -----------------------------
(***************************************************************************)
(* The rate limiter in front of every tool call of the orchestrator        *)
(* (services/orchestrator/mcp_client.py, class _TokenBucket).              *)
(*                                                                         *)
(* Time advances in ticks of 1 / (RATE * UNIT) second and tokens are       *)
(* counted in units, UNIT of them to a token, so that a tick is worth one  *)
(* unit and a second is worth Capacity units. Callers are not told apart:  *)
(* the asyncio lock is first come, first served.                           *)
(***************************************************************************)
EXTENDS Naturals

CONSTANTS
  RATE,          \* calls per second, and the tokens of a full bucket
  UNIT,          \* units in a token
  Resolution,    \* ticks by which the event loop may run a timer early
  WindowStart,   \* any tick: grants are counted from there
  MaxClock,      \* bound: ticks
  MaxCalls       \* bound: calls

ASSUME TokenBucketAssumption ==
  /\ RATE \in Nat \ {0} /\ UNIT \in Nat \ {0}
  /\ Resolution \in Nat /\ WindowStart \in Nat
  /\ MaxClock \in Nat /\ MaxCalls \in Nat

VARIABLES
  clock,      \* time.monotonic()
  tokens,     \* _tokens
  last,       \* _last
  sleeping,   \* the holder of the lock is asleep
  wake,       \* when it wakes, 0 when nobody sleeps
  waiting,    \* callers queued for the lock
  calls,      \* calls of acquire so far
  sent        \* units taken out since WindowStart

bucketVars == <<clock, tokens, last, sleeping, wake, waiting, calls, sent>>

Capacity == RATE * UNIT

AtMost(a, b) == IF a < b THEN a ELSE b

\* Types; a bucket never holds more than its capacity and never owes a token.
BucketTypeOK ==
  /\ clock \in Nat /\ last \in 0..clock /\ wake \in Nat
  /\ tokens \in 0..Capacity
  /\ sleeping \in BOOLEAN
  /\ waiting \in Nat /\ calls \in Nat /\ sent \in Nat

BucketInit ==
  /\ clock = 0 /\ last = 0
  /\ tokens = Capacity
  /\ sleeping = FALSE /\ wake = 0
  /\ waiting = 0 /\ calls = 0 /\ sent = 0

-----------------------------------------------------------------------------

\* What the bucket holds after the refill at this moment.
Refilled == AtMost(Capacity, tokens + (clock - last))

Enough(units) == units >= UNIT

\* The body of `acquire` from a refill to the next await: a token is taken out
\* and the lock released, or the caller sleeps for what is missing.
Take ==
  /\ last' = clock
  /\ IF Enough(Refilled)
       THEN /\ tokens' = Refilled - UNIT
            /\ sent' = IF clock >= WindowStart THEN sent + UNIT ELSE sent
            /\ sleeping' = FALSE /\ wake' = 0
       ELSE /\ tokens' = Refilled
            /\ sleeping' = TRUE
            /\ wake' = clock + (UNIT - Refilled)
            /\ UNCHANGED sent

\* acquire() on a lock that is free and that nobody queues for.
Acquire ==
  /\ calls < MaxCalls
  /\ ~sleeping /\ waiting = 0
  /\ calls' = calls + 1
  /\ Take
  /\ UNCHANGED <<clock, waiting>>

\* acquire() on a lock that is held or queued for.
Queue ==
  /\ calls < MaxCalls
  /\ sleeping \/ waiting > 0
  /\ calls' = calls + 1
  /\ waiting' = waiting + 1
  /\ UNCHANGED <<clock, tokens, last, sleeping, wake, sent>>

\* The first of the queue gets the lock.
Enter ==
  /\ ~sleeping /\ waiting > 0
  /\ waiting' = waiting - 1
  /\ Take
  /\ UNCHANGED <<clock, calls>>

\* Mutant: the holder takes its token for granted when it wakes, so the next
\* refill credits the time slept once more.
Wake_StaleClock ==
  /\ sleeping /\ clock + Resolution >= wake
  /\ tokens' = 0
  /\ sent' = IF clock >= WindowStart THEN sent + UNIT ELSE sent
  /\ sleeping' = FALSE /\ wake' = 0
  /\ UNCHANGED <<clock, last, waiting, calls>>

\* The holder wakes, refills from a fresh clock and tests again.
Wake ==
  /\ sleeping /\ clock + Resolution >= wake
  /\ Take
  /\ UNCHANGED <<clock, waiting, calls>>

\* The task of the holder is cancelled: the lock is released.
CancelHolder ==
  /\ sleeping
  /\ sleeping' = FALSE /\ wake' = 0
  /\ UNCHANGED <<clock, tokens, last, waiting, calls, sent>>

\* The task of a queued caller is cancelled.
CancelWaiter ==
  /\ waiting > 0
  /\ waiting' = waiting - 1
  /\ UNCHANGED <<clock, tokens, last, sleeping, wake, calls, sent>>

Tick ==
  /\ clock < MaxClock
  /\ clock' = clock + 1
  /\ UNCHANGED <<tokens, last, sleeping, wake, waiting, calls, sent>>

BucketNext ==
  Acquire \/ Queue \/ Enter \/ Wake \/ CancelHolder \/ CancelWaiter \/ Tick

BucketSpec == BucketInit /\ [][BucketNext]_bucketVars

-----------------------------------------------------------------------------

\* However calls arrive, queue, sleep and are cancelled, what leaves the bucket
\* from any moment on is bounded by one full bucket and the time since then: the
\* comment on acquire (lines 35-38), which says the slept time is not credited
\* twice. WindowStart is any tick.
WindowBound ==
  clock >= WindowStart => sent <= Capacity + (clock - WindowStart)
=============================================================================
