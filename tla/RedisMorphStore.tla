---------------------------- MODULE RedisMorphStore ----------------------------
(***************************************************************************)
(* The morph store in Redis (services/orchestrator/store.py, class         *)
(* RedisMorphStore), shared by several orchestrators: a hash from request  *)
(* ids to contexts and a list of the ids in the order they were added,     *)
(* which is the order of eviction.                                         *)
(*                                                                         *)
(* Every command is a round trip, and the commands of all signals, tasks,  *)
(* resets and instances interleave: `contains` and `add` are three of      *)
(* them, an eviction is a loop of them. Any of them may raise, with or     *)
(* without effect. An instance may crash between any two; nothing it       *)
(* leaves in Redis is taken up again.                                      *)
(*                                                                         *)
(* Of an engagement only its registration and its saves are left: it is    *)
(* idle until its task starts, then live, then it has ended.               *)
(***************************************************************************)
EXTENDS Integers, Sequences, FiniteSets, TLC, Lists

CONSTANTS
  Signals,                 \* deliveries of attack signals, each its own context
  Ids, IdOf,               \* request ids, and the one of each delivery
  MAX_ACTIVE,
  MaxFaults                \* bound: resets, shutdowns, crashes and commands that fail

ASSUME StoreAssumption ==
  /\ IdOf \in [Signals -> Ids] /\ MAX_ACTIVE \in Nat /\ MaxFaults \in Nat

VARIABLES
  morphs,       \* the hash: of each id, whose context it holds and in which state
  order,        \* the list
  at,           \* of each delivery: the command it is at, see Stages
  todo,         \* the ids an eviction has yet to look at
  state,        \* of each context, as its task has it
  unwinding,    \* the tasks that roll back because they were cancelled
  cancelling,   \* the resets and shutdowns that have yet to cancel the tasks
  faults,       \* how many of them there have been
  cut,          \* history: the tasks whose last save was not answered, or whose
                \* rollback was cut short
  excused       \* history: see Excuses

redis  == <<morphs, order>>
task   == <<state, unwinding, cut>>
events == <<cancelling, faults>>
vars   == <<redis, at, todo, task, events, excused>>

-----------------------------------------------------------------------------
(* Types *)

\* The command a handler waits for, then the life of the task:
\*   new                contains: the signal has arrived
\*   hset, rpush        add
\*   hlen               count
\*   trim, lrange       evict_terminal, up to its loop
\*   next, hget, hdel, lrem                the loop
\*   created            the task, before its start
\*   saving, midway, closing     it waits for the save of its start, of a transition on
\*                      the way, of its end
\*   running            it waits for something else
\*   done, lost         nothing is left of it; it was lost if its task was under way
Stages ==
  {"new", "hset", "rpush", "hlen", "trim", "lrange", "next", "hget", "hdel", "lrem",
   "created", "saving", "midway", "running", "closing", "done", "lost"}

Saving == {"saving", "midway", "closing"}
Driven == Saving \cup {"running"}

States == {"idle", "live", "ended"}

_TERMINAL == {"idle", "ended"}

TypeOK ==
  /\ DOMAIN morphs \subseteq Ids
  /\ \A i \in DOMAIN morphs : morphs[i] \in [by: Signals, state: States]
  /\ order \in Seq(Ids)
  /\ at \in [Signals -> Stages]
  /\ todo \in [Signals -> Seq(Ids)]
  /\ \A s \in Signals : at[s] \in {"hget", "hdel", "lrem"} => todo[s] # <<>>
  /\ state \in [Signals -> States]
  /\ unwinding \subseteq Signals /\ cut \subseteq Signals
  /\ cancelling \in Nat /\ faults \in Nat /\ excused \subseteq Ids

Init ==
  /\ morphs = <<>> /\ order = <<>>
  /\ at = [s \in Signals |-> "new"]
  /\ todo = [s \in Signals |-> <<>>]
  /\ state = [s \in Signals |-> "idle"]
  /\ cancelling = 0 /\ faults = 0
  /\ unwinding = {} /\ cut = {} /\ excused = {}

-----------------------------------------------------------------------------
(* Helpers *)

Holds(i) == i \in DOMAIN morphs

Full == Cardinality(DOMAIN morphs) > MAX_ACTIVE

\* hset: the context of s, as its task has it, under its id.
HSet(s, st) ==
  morphs' = [i \in DOMAIN morphs \cup {IdOf[s]} |->
               IF i = IdOf[s] THEN [by |-> s, state |-> st] ELSE morphs[i]]

HDel(ids) == morphs' = [i \in DOMAIN morphs \ ids |-> morphs[i]]

LRem(i) == order' = Less(order, {i})

Goes(s, stage) == at' = [at EXCEPT ![s] = stage]

\* Between the registration of its context and the end of its task.
UnderWay(s) ==
  at[s] \in {"rpush", "hlen", "trim", "lrange", "next", "hget", "hdel", "lrem", "created",
             "saving", "midway", "running", "closing"}

\* An eviction that has read that i is gone or ended, and will strike it off the list.
Striking(i) == \E s \in Signals : at[s] \in {"hdel", "lrem"} /\ Head(todo[s]) = i

\* What excuses the loss of an id from the list: its context is removed while its
\* engagement is under way, it is registered while an eviction strikes it off, or the
\* signal ends between hset and rpush, in a crash of its instance or because rpush
\* raises.
Excuses ==
  excused' = excused
    \cup {i \in DOMAIN morphs \ DOMAIN morphs' : \E s \in Signals : IdOf[s] = i /\ UnderWay(s)}
    \cup {i \in DOMAIN morphs' : Striking(i)}
    \cup {IdOf[s] : s \in {x \in Signals : at[x] = "rpush" /\ at'[x] = "done"}}

\* A command that raises, a crash, a shutdown or a reset.
Fault == faults < MaxFaults /\ faults' = faults + 1

-----------------------------------------------------------------------------
(* POST /signal *)

\* contains. A duplicate is answered, and done with.
\* Mutant: an id counts as there when it is on the list.
Known_Listed(i) == \E k \in DOMAIN order : order[k] = i

Known(i) == Holds(i)

HExists(s) ==
  /\ at[s] = "new" /\ Goes(s, IF Known(IdOf[s]) THEN "done" ELSE "hset")
  /\ UNCHANGED <<redis, todo, task, events>>

\* Mutant: only the hash is written, as by `save`.
AddStage_HashOnly == "hlen"

AddStage == "rpush"

AddHSet(s) ==
  /\ at[s] = "hset" /\ Goes(s, AddStage)
  /\ HSet(s, "idle")
  /\ UNCHANGED <<order, todo, task, events>>

AddRPush(s) ==
  /\ at[s] = "rpush" /\ Goes(s, "hlen")
  /\ order' = Append(order, IdOf[s])
  /\ UNCHANGED <<morphs, todo, task, events>>

Count(s) ==
  /\ at[s] = "hlen" /\ Goes(s, IF Full THEN "trim" ELSE "created")
  /\ UNCHANGED <<redis, todo, task, events>>

-----------------------------------------------------------------------------
(* evict_terminal *)

Trim(s) ==
  /\ at[s] = "trim" /\ Goes(s, IF Full THEN "lrange" ELSE "created")
  /\ UNCHANGED <<redis, todo, task, events>>

LRange(s) ==
  /\ at[s] = "lrange" /\ Goes(s, "next")
  /\ todo' = [todo EXCEPT ![s] = order]
  /\ UNCHANGED <<redis, task, events>>

\* The head of the loop: its end, or the test of the size.
EvictNext(s) ==
  /\ at[s] = "next"
  /\ IF todo[s] = <<>> \/ ~Full
       THEN Goes(s, "created") /\ todo' = [todo EXCEPT ![s] = <<>>]
       ELSE Goes(s, "hget") /\ UNCHANGED todo
  /\ UNCHANGED <<redis, task, events>>

AfterRead(i) ==
  IF ~Holds(i) THEN "lrem" ELSE IF morphs[i].state \in _TERMINAL THEN "hdel" ELSE "next"

\* Mutant: an id leaves the loop when it is read.
Drops_AtOnce(s, stage) == Tail(todo[s])

Drops(s, stage) == IF stage = "next" THEN Tail(todo[s]) ELSE todo[s]

HGet(s) ==
  /\ at[s] = "hget"
  /\ LET stage == AfterRead(Head(todo[s]))
     IN  Goes(s, stage) /\ todo' = [todo EXCEPT ![s] = Drops(s, stage)]
  /\ UNCHANGED <<redis, task, events>>

EvictHDel(s) ==
  /\ at[s] = "hdel" /\ Goes(s, "lrem")
  /\ HDel({Head(todo[s])})
  /\ UNCHANGED <<order, todo, task, events>>

EvictLRem(s) ==
  /\ at[s] = "lrem" /\ Goes(s, "next")
  /\ LRem(Head(todo[s]))
  /\ todo' = [todo EXCEPT ![s] = Tail(@)]
  /\ UNCHANGED <<morphs, task, events>>

\* A command raises: the signal is answered 500 and gets no task. When the command had
\* its effect all the same, this is the next one that raises.
Refuse(s) ==
  /\ at[s] \in {"new", "hset", "rpush", "hlen", "trim", "lrange", "next", "hget", "hdel", "lrem"}
  /\ Goes(s, "done")
  /\ todo' = [todo EXCEPT ![s] = <<>>]
  /\ Fault
  /\ UNCHANGED <<redis, task, cancelling>>

-----------------------------------------------------------------------------
(* The task *)

Start(s) ==
  /\ at[s] = "created" /\ Goes(s, "saving")
  /\ state' = [state EXCEPT ![s] = "live"]
  /\ UNCHANGED <<redis, todo, unwinding, cut, events>>

\* Mutant: the state is saved that the context was created with.
Saves_Created(s) == HSet(s, "idle")

Saves(s) == HSet(s, state[s])

Save(s) ==
  /\ at[s] \in Saving /\ Goes(s, IF at[s] = "closing" THEN "done" ELSE "running")
  /\ Saves(s)
  /\ cut' = cut \ {s}
  /\ UNCHANGED <<order, todo, state, unwinding, events>>

\* A save raises. In a step the step is tried again, or given up and rolled back, which
\* begins with a save; outside of one, that is in the save of the start, of the end below
\* the gate and in a rollback, it ends the task.
SaveFails(s) ==
  /\ at[s] \in Saving
  /\ Saves(s) \/ UNCHANGED morphs
  /\ \/ /\ at[s] # "saving" /\ s \notin unwinding
        /\ Goes(s, "midway") /\ state' = [state EXCEPT ![s] = "live"]
     \/ Goes(s, "done") /\ UNCHANGED state
  /\ cut' = cut \cup {s}
  /\ Fault
  /\ UNCHANGED <<order, todo, unwinding, cancelling>>

\* From one step to the next, or into a rollback.
Transition(s) ==
  /\ at[s] = "running" /\ s \notin unwinding /\ Goes(s, "midway")
  /\ UNCHANGED <<redis, todo, task, events>>

End(s) ==
  /\ at[s] = "running" /\ Goes(s, "closing")
  /\ state' = [state EXCEPT ![s] = "ended"]
  /\ UNCHANGED <<redis, todo, unwinding, cut, events>>

\* A rollback on cancellation is given five seconds.
TimesOut(s) ==
  /\ s \in unwinding /\ at[s] \in {"midway", "running", "closing"} /\ Goes(s, "done")
  /\ cut' = cut \cup {s} /\ unwinding' = unwinding \ {s}
  /\ UNCHANGED <<redis, todo, state, events>>

-----------------------------------------------------------------------------
(* Resets, shutdowns and crashes *)

\* Which of the signals an instance handles is left open, and with it how many there are.

\* POST /admin/reset: clear. When it raises nothing is cancelled, though the store may
\* have been cleared.
Clear ==
  /\ Fault
  /\ cancelling' \in {cancelling, cancelling + 1}
  /\ morphs' = <<>> /\ order' = <<>>
  /\ UNCHANGED <<at, todo, task>>

\* The service shuts down: its tasks are cancelled, the store is left as it is.
Stop ==
  /\ Fault
  /\ cancelling' = cancelling + 1
  /\ UNCHANGED <<redis, at, todo, task>>

\* Mutant: no task rolls back.
Unwinds_Never(s) == FALSE

\* A task that has not started ends at once when it is cancelled, and so does one that
\* was rolling back after an earlier cancellation; the others begin to.
Unwinds(s) == at[s] \in Driven /\ s \notin unwinding

\* Then the tasks of this instance are cancelled.
Cancel(mine) ==
  /\ cancelling > 0 /\ cancelling' = cancelling - 1
  /\ \A s \in mine : at[s] \in Driven \cup {"created"}
  /\ LET back == {s \in mine : Unwinds(s)}
     IN  /\ at' = [s \in Signals |-> IF s \in back THEN "midway"
                                     ELSE IF s \in mine THEN "done" ELSE at[s]]
         /\ state' = [s \in Signals |-> IF s \in back THEN "live" ELSE state[s]]
         /\ unwinding' = (unwinding \ mine) \cup back
         /\ cut' = cut \cup (unwinding \cap mine)
  /\ UNCHANGED <<redis, todo, faults>>

\* The last save is done, but its answer comes after the cancellation.
Overtaken(s) ==
  /\ at[s] = "closing" /\ Unwinds(s) /\ cancelling > 0
  /\ Saves(s)
  /\ Goes(s, "midway")
  /\ state' = [state EXCEPT ![s] = "live"]
  /\ unwinding' = unwinding \cup {s}
  /\ UNCHANGED <<order, todo, cut, events>>

Crash(mine) ==
  /\ Fault
  /\ \A s \in mine : at[s] \notin {"new", "done", "lost"}
  /\ at' = [s \in Signals |-> IF s \notin mine THEN at[s]
                             ELSE IF at[s] \in Driven THEN "lost" ELSE "done"]
  /\ todo' = [s \in Signals |-> IF s \in mine THEN <<>> ELSE todo[s]]
  /\ cut' = cut \cup {s \in mine : at[s] \in Saving}
  /\ unwinding' = unwinding \ mine
  /\ UNCHANGED <<redis, state, cancelling>>

Step ==
  \/ \E s \in Signals :
       \/ HExists(s) \/ AddHSet(s) \/ AddRPush(s) \/ Count(s)
       \/ Trim(s) \/ LRange(s) \/ EvictNext(s) \/ HGet(s) \/ EvictHDel(s) \/ EvictLRem(s)
       \/ Refuse(s)
       \/ Start(s) \/ Save(s) \/ SaveFails(s) \/ Transition(s) \/ End(s) \/ TimesOut(s) \/ Overtaken(s)
  \/ Clear \/ Stop
  \/ \E mine \in SUBSET Signals : Cancel(mine) \/ Crash(mine)

Next == Step /\ Excuses

Spec == Init /\ [][Next]_vars

-----------------------------------------------------------------------------
(* Properties *)

\* A request is accepted a second time while its first engagement is under way only
\* if both signals overlapped until the first was registered, or its context was
\* removed since: by a reset, or by an eviction before its task started.
AcceptedOnce ==
  [][\A s, t \in Signals :
       s # t /\ IdOf[s] = IdOf[t] /\ at[s] = "new" /\ at'[s] = "hset" /\ UnderWay(t)
         => IdOf[s] \in excused]_vars

\* A context that is held can be evicted when it has ended: its id is on the list, or
\* about to be, unless it was lost in one of the ways Excuses names.
HeldIsListed ==
  \A i \in DOMAIN morphs :
    \/ \E k \in DOMAIN order : order[k] = i
    \/ \E s \in Signals : IdOf[s] = i /\ at[s] = "rpush"
    \/ i \in excused

\* A context is shown as it is. Between two saves, when its task has ended and when its
\* instance has crashed it is held in the state the engagement was in, unless its last
\* save was not answered or its rollback was cut short. And one that is held as live,
\* which no eviction removes, has a task that will save it again, but for the same two
\* exceptions and for a crash, after which it is shown as live for ever.
ShownAsIs ==
  \A i \in DOMAIN morphs :
    LET s == morphs[i].by
    IN  /\ at[s] \in {"running", "done", "lost"} /\ s \notin cut
             => morphs[i].state = state[s]
        /\ morphs[i].state = "live" /\ at[s] \notin Driven
             => at[s] = "lost" \/ s \in cut
=============================================================================
