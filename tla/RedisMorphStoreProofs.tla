------------------------- MODULE RedisMorphStoreProofs -------------------------
(***************************************************************************)
(* Proofs about the morph store in Redis, for any number of signals, ids,  *)
(* resets, shutdowns, crashes and commands that raise. The invariant adds to the      *)
(* properties that a context registered is held until its task ends, or    *)
(* its loss is excused; that what is held under an id was put there by a   *)
(* signal of that id, and is idle until its task has started; and that a   *)
(* task that is done has ended, unless it was cut short.                   *)
(***************************************************************************)
EXTENDS RedisMorphStore, ListProofs

-----------------------------------------------------------------------------
(* Types *)

LEMMA HSetFacts ==
  ASSUME TypeOK, NEW s \in Signals, NEW st \in States, HSet(s, st)
  PROVE  /\ IdOf[s] \in Ids
         /\ DOMAIN morphs' = DOMAIN morphs \cup {IdOf[s]}
         /\ morphs'[IdOf[s]] = [by |-> s, state |-> st]
         /\ \A i \in DOMAIN morphs : i # IdOf[s] => morphs'[i] = morphs[i]
         /\ DOMAIN morphs' \subseteq Ids
         /\ \A i \in DOMAIN morphs' : morphs'[i] \in [by: Signals, state: States]
  BY StoreAssumption DEF HSet, TypeOK

\* The list of an eviction, without its head.
LEMMA TailFacts ==
  ASSUME TypeOK, NEW s \in Signals, todo[s] # <<>>
  PROVE  Head(todo[s]) \in Ids /\ Tail(todo[s]) \in Seq(Ids)
  BY HeadTailProperties DEF TypeOK

\* TypeOK, but for what is excused.
Types ==
  /\ DOMAIN morphs \subseteq Ids
  /\ \A i \in DOMAIN morphs : morphs[i] \in [by: Signals, state: States]
  /\ order \in Seq(Ids)
  /\ at \in [Signals -> Stages]
  /\ todo \in [Signals -> Seq(Ids)]
  /\ \A s \in Signals : at[s] \in {"hget", "hdel", "lrem"} => todo[s] # <<>>
  /\ state \in [Signals -> States]
  /\ unwinding \subseteq Signals /\ cut \subseteq Signals
  /\ cancelling \in Nat /\ faults \in Nat

\* The steps in which a task saves its context, or may.
SaveStep(s) == Save(s) \/ SaveFails(s) \/ Overtaken(s)

LEMMA StepTypes ==
  ASSUME TypeOK, Step
  PROVE  Types'
<1> USE DEF Stages, States, Saving, Driven, redis, task, events, Goes, Fault, Types, TypeOK
<1>1. ASSUME NEW s \in Signals, HExists(s) PROVE Types'
  BY <1>1 DEF HExists
<1>2. ASSUME NEW s \in Signals, AddHSet(s) PROVE Types'
  <2>1. HSet(s, "idle")
    BY <1>2 DEF AddHSet
  <2> QED BY <1>2, <2>1, HSetFacts DEF AddHSet, AddStage
<1>3. ASSUME NEW s \in Signals, AddRPush(s) PROVE Types'
  <2>1. Append(order, IdOf[s]) \in Seq(Ids)
    BY StoreAssumption, AppendProperties
  <2> QED BY <1>3, <2>1 DEF AddRPush
<1>4. ASSUME NEW s \in Signals, Count(s) PROVE Types'
  BY <1>4 DEF Count
<1>5. ASSUME NEW s \in Signals, Trim(s) PROVE Types'
  BY <1>5 DEF Trim
<1>6. ASSUME NEW s \in Signals, LRange(s) PROVE Types'
  BY <1>6 DEF LRange
<1>7. ASSUME NEW s \in Signals, EvictNext(s) PROVE Types'
  <2>1. <<>> \in Seq(Ids)
    BY EmptySeq
  <2>2. CASE todo[s] = <<>> \/ ~Full
    <3>1. /\ at' = [at EXCEPT ![s] = "created"] /\ todo' = [todo EXCEPT ![s] = <<>>]
          /\ UNCHANGED <<redis, task, events>>
      BY <1>7, <2>2 DEF EvictNext
    <3>2. todo' \in [Signals -> Seq(Ids)] /\ \A x \in Signals : x # s => todo'[x] = todo[x]
      BY <2>1, <3>1
    <3> QED BY <3>1, <3>2
  <2>3. CASE ~(todo[s] = <<>> \/ ~Full)
    BY <1>7, <2>3 DEF EvictNext
  <2> QED BY <2>2, <2>3
<1>8. ASSUME NEW s \in Signals, HGet(s) PROVE Types'
  <2>1. Head(todo[s]) \in Ids /\ Tail(todo[s]) \in Seq(Ids) /\ todo[s] # <<>>
    BY <1>8, TailFacts DEF HGet
  <2>2. PICK stage \in {"lrem", "hdel", "next"} :
          /\ at' = [at EXCEPT ![s] = stage] /\ todo' = [todo EXCEPT ![s] = Drops(s, stage)]
    BY <1>8 DEF HGet, AfterRead
  <2>3. /\ Drops(s, stage) \in Seq(Ids)
        /\ stage # "next" => Drops(s, stage) # <<>>
    BY <2>1 DEF Drops
  <2> QED BY <1>8, <2>2, <2>3 DEF HGet
<1>9. ASSUME NEW s \in Signals, EvictHDel(s) PROVE Types'
  BY <1>9 DEF EvictHDel, HDel
<1>10. ASSUME NEW s \in Signals, EvictLRem(s) PROVE Types'
  <2>1. Tail(todo[s]) \in Seq(Ids) /\ Less(order, {Head(todo[s])}) \in Seq(Ids)
    BY <1>10, TailFacts, LessFacts DEF EvictLRem
  <2> QED BY <1>10, <2>1 DEF EvictLRem, LRem
<1>11. ASSUME NEW s \in Signals, Start(s) PROVE Types'
  BY <1>11 DEF Start
<1>12. ASSUME NEW s \in Signals, SaveStep(s) PROVE Types'
  <2>1. HSet(s, state[s]) \/ UNCHANGED morphs
    BY <1>12 DEF SaveStep, Save, SaveFails, Overtaken, Saves
  <2>2. DOMAIN morphs' \subseteq Ids /\ \A i \in DOMAIN morphs' : morphs'[i] \in [by: Signals, state: States]
    BY <2>1, HSetFacts
  <2>3. at' \in [Signals -> Stages] /\ \A x \in Signals : at'[x] \in {"hget", "hdel", "lrem"} => at'[x] = at[x]
    BY <1>12 DEF SaveStep, Save, SaveFails, Overtaken
  <2>4. state' \in [Signals -> States] /\ UNCHANGED <<order, todo>>
    BY <1>12 DEF SaveStep, Save, SaveFails, Overtaken
  <2>5. /\ unwinding' \subseteq Signals /\ cut' \subseteq Signals
        /\ cancelling' \in Nat /\ faults' \in Nat
    BY <1>12 DEF SaveStep, Save, SaveFails, Overtaken
  <2> QED BY <2>2, <2>3, <2>4, <2>5
<1>13. ASSUME NEW s \in Signals, End(s) \/ Transition(s) \/ TimesOut(s) PROVE Types'
  BY <1>13 DEF End, Transition, TimesOut
<1>14. ASSUME Clear PROVE Types'
  <2>1. DOMAIN morphs' = {} /\ order' \in Seq(Ids)
    BY <1>14 DEF Clear
  <2> QED BY <1>14, <2>1 DEF Clear
<1>15. ASSUME NEW mine \in SUBSET Signals, Cancel(mine) PROVE Types'
  <2>1. /\ at' \in [Signals -> Stages] /\ state' \in [Signals -> States]
        /\ \A s \in Signals : at'[s] \in {"hget", "hdel", "lrem"} => at'[s] = at[s]
    BY <1>15 DEF Cancel
  <2>2. unwinding' \subseteq Signals /\ cut' \subseteq Signals /\ cancelling' \in Nat
    BY <1>15 DEF Cancel
  <2> QED BY <1>15, <2>1, <2>2 DEF Cancel
<1>16. ASSUME NEW mine \in SUBSET Signals, Crash(mine) PROVE Types'
  <2>1. /\ at' \in [Signals -> Stages]
        /\ \A s \in Signals : at'[s] \in {"hget", "hdel", "lrem"} => s \notin mine /\ at'[s] = at[s]
    BY <1>16 DEF Crash
  <2>2. /\ todo' \in [Signals -> Seq(Ids)]
        /\ \A s \in Signals : s \notin mine => todo'[s] = todo[s]
    BY <1>16, EmptySeq DEF Crash
  <2> QED BY <1>16, <2>1, <2>2 DEF Crash
<1>17. ASSUME NEW s \in Signals, Refuse(s) PROVE Types'
  <2>1. /\ todo' \in [Signals -> Seq(Ids)]
        /\ \A x \in Signals : x # s => todo'[x] = todo[x]
    BY <1>17, EmptySeq DEF Refuse
  <2> QED BY <1>17, <2>1 DEF Refuse
<1>18. ASSUME Stop PROVE Types'
  BY <1>18 DEF Stop
<1> QED
  BY <1>1, <1>2, <1>3, <1>4, <1>5, <1>6, <1>7, <1>8, <1>9, <1>10, <1>11, <1>12, <1>13,
     <1>14, <1>15, <1>16, <1>17, <1>18 DEF Step, SaveStep

LEMMA NextTypes ==
  ASSUME TypeOK, Next
  PROVE  TypeOK'
<1>1. Types'
  BY StepTypes DEF Next
<1>2. excused' \subseteq Ids
  BY <1>1, StoreAssumption DEF Next, Excuses, TypeOK, Types
<1> QED BY <1>1, <1>2 DEF TypeOK, Types

-----------------------------------------------------------------------------
(* The invariant *)

Early == {"new", "hset", "rpush", "hlen", "trim", "lrange", "next", "hget", "hdel", "lrem", "created"}

\* A context registered is held until its task has ended, or its loss is excused.
StaysHeld == \A s \in Signals : UnderWay(s) => Holds(IdOf[s]) \/ IdOf[s] \in excused

\* What is held under an id was put there by a signal of that id.
HeldByOwn ==
  \A i \in DOMAIN morphs :
    IdOf[morphs[i].by] = i /\ at[morphs[i].by] \notin {"new", "hset"}

\* Until its task starts an engagement is idle, and held as such.
IdleAtFirst ==
  \A s \in Signals :
    at[s] \in Early =>
      /\ state[s] = "idle"
      /\ Holds(IdOf[s]) /\ morphs[IdOf[s]].by = s => morphs[IdOf[s]].state = "idle"

\* Between two saves, and when nothing is left of its task, a context is held in the state
\* its task had, unless its last save was not answered or its rollback was cut short.
SettledShown ==
  \A i \in DOMAIN morphs :
    /\ at[morphs[i].by] \in {"running", "done", "lost"} /\ morphs[i].by \notin cut
    => morphs[i].state = state[morphs[i].by]

\* A task saves its end when it has ended, and is not done before, unless it is cut short.
EndsLast ==
  \A s \in Signals :
    /\ at[s] = "closing" => state[s] = "ended"
    /\ at[s] = "done" /\ s \notin cut => state[s] # "live"

Inv ==
  TypeOK /\ StaysHeld /\ HeldIsListed /\ HeldByOwn /\ IdleAtFirst /\ SettledShown /\ EndsLast

\* A context leaves the hash only with an excuse, if its engagement is under way.
LEMMA ExcusedFacts ==
  ASSUME Excuses
  PROVE  /\ excused \subseteq excused'
         /\ \A s \in Signals :
              UnderWay(s) /\ Holds(IdOf[s]) => Holds(IdOf[s])' \/ IdOf[s] \in excused'
         /\ \A i \in DOMAIN morphs' : Striking(i) => i \in excused'
         /\ \A s \in Signals : at[s] = "rpush" /\ at'[s] = "done" => IdOf[s] \in excused'
  BY DEF Excuses, Holds

\* An engagement gets under way in the step that registers its context, and in no other.
LEMMA UnderWayStep ==
  ASSUME TypeOK, Step, NEW s \in Signals, ~UnderWay(s), UnderWay(s)'
  PROVE  AddHSet(s)
<1> USE DEF UnderWay, TypeOK, Goes, Saving, Driven
<1>1. ASSUME NEW t \in Signals, HExists(t) \/ AddRPush(t) \/ Count(t) PROVE FALSE
  BY <1>1 DEF HExists, AddRPush, Count
<1>2. ASSUME NEW t \in Signals, AddHSet(t) PROVE t = s
  BY <1>2 DEF AddHSet
<1>3. ASSUME NEW t \in Signals, Trim(t) \/ LRange(t) \/ EvictNext(t) PROVE FALSE
  BY <1>3 DEF Trim, LRange, EvictNext
<1>4. ASSUME NEW t \in Signals, HGet(t) \/ EvictHDel(t) \/ EvictLRem(t) \/ Refuse(t) PROVE FALSE
  BY <1>4 DEF HGet, EvictHDel, EvictLRem, Refuse
<1>5. ASSUME NEW t \in Signals, Start(t) \/ End(t) \/ Transition(t) \/ TimesOut(t) PROVE FALSE
  BY <1>5 DEF Start, End, Transition, TimesOut
<1>6. ASSUME NEW t \in Signals, SaveStep(t) PROVE FALSE
  BY <1>6 DEF SaveStep, Save, SaveFails, Overtaken
<1>7. ASSUME Clear \/ Stop PROVE FALSE
  BY <1>7 DEF Clear, Stop
<1>8. ASSUME NEW mine \in SUBSET Signals, Cancel(mine) \/ Crash(mine) PROVE FALSE
  BY <1>8 DEF Cancel, Crash, Unwinds
<1> QED BY <1>1, <1>2, <1>3, <1>4, <1>5, <1>6, <1>7, <1>8 DEF Step, SaveStep

LEMMA StaysHeldStep ==
  ASSUME TypeOK, StaysHeld, Next
  PROVE  StaysHeld'
<1> SUFFICES ASSUME NEW s \in Signals, UnderWay(s)'
             PROVE  Holds(IdOf[s])' \/ IdOf[s] \in excused'
  BY DEF StaysHeld
<1>1. CASE UnderWay(s)
  BY <1>1, ExcusedFacts DEF StaysHeld, Next
<1>2. CASE ~UnderWay(s)
  <2>1. HSet(s, "idle")
    BY <1>2, UnderWayStep DEF Next, AddHSet
  <2> QED BY <2>1, HSetFacts DEF Holds, States
<1> QED BY <1>1, <1>2

\* What changes the hash: a registration, a save, the eviction of one and a reset.
LEMMA MorphsStep ==
  ASSUME TypeOK, Step
  PROVE  \/ UNCHANGED morphs
         \/ \E s \in Signals : AddHSet(s) \/ SaveStep(s) \/ EvictHDel(s)
         \/ Clear
  BY DEF Step, HExists, AddRPush, Count, Trim, LRange, EvictNext, HGet, EvictLRem, Refuse, Start,
         End, Transition, TimesOut, SaveStep, Stop, Cancel, Crash, redis

\* What changes the list: an addition, an eviction and a reset.
LEMMA OrderStep ==
  ASSUME TypeOK, Step
  PROVE  \/ UNCHANGED order
         \/ \E s \in Signals : AddRPush(s) \/ EvictLRem(s)
         \/ Clear
  BY DEF Step, HExists, AddHSet, Count, Trim, LRange, EvictNext, HGet, EvictHDel, Refuse, Save,
         SaveFails, Overtaken, Start, End, Transition, TimesOut, Stop, Cancel, Crash, redis

Listed(i) == \E k \in DOMAIN order : order[k] = i

\* An id leaves the list only when it is struck off it, or in a reset that leaves no context.
LEMMA ListedStays ==
  ASSUME TypeOK, Step, NEW i \in Ids, Listed(i)
  PROVE  Listed(i)' \/ Striking(i) \/ DOMAIN morphs' = {}
<1> USE DEF Listed
<1>1. CASE UNCHANGED order
  BY <1>1
<1>2. ASSUME NEW s \in Signals, AddRPush(s) PROVE Listed(i)'
  <2>1. order' = Append(order, IdOf[s]) /\ order \in Seq(Ids) /\ IdOf[s] \in Ids
    BY <1>2, StoreAssumption DEF AddRPush, TypeOK
  <2>2. DOMAIN order = 1..Len(order) /\ Len(order) \in Nat
    BY <2>1, LenProperties
  <2>3. DOMAIN order' = 1..Len(order) + 1 /\ \A k \in 1..Len(order) : order'[k] = order[k]
    BY <2>1, AppendProperties, LenProperties
  <2> QED BY <2>2, <2>3
<1>3. ASSUME NEW s \in Signals, EvictLRem(s) PROVE Listed(i)' \/ Striking(i)
  <2>1. order' = Less(order, {Head(todo[s])}) /\ order \in Seq(Ids) /\ at[s] = "lrem"
    BY <1>3 DEF EvictLRem, LRem, TypeOK
  <2>2. CASE Head(todo[s]) = i
    BY <2>1, <2>2 DEF Striking
  <2>3. CASE Head(todo[s]) # i
    <3>1. LeftOf(order', order, {Head(todo[s])}, Len(order))
      BY <2>1, LessFacts
    <3>2. ASSUME NEW k \in DOMAIN order, order[k] = i PROVE \E m \in DOMAIN order' : order'[m] = i
      BY <2>1, <2>3, <3>1, <3>2, LenProperties DEF LeftOf
    <3> QED BY <3>2
  <2> QED BY <2>2, <2>3
<1>4. ASSUME Clear PROVE DOMAIN morphs' = {}
  BY <1>4 DEF Clear
<1> QED BY <1>1, <1>2, <1>3, <1>4, OrderStep

LEMMA HeldIsListedStep ==
  ASSUME TypeOK, StaysHeld, HeldIsListed, Next
  PROVE  HeldIsListed'
<1> USE DEF Next
<1> SUFFICES ASSUME NEW i \in DOMAIN morphs'
             PROVE  \/ Listed(i)'
                    \/ \E s \in Signals : IdOf[s] = i /\ at'[s] = "rpush"
                    \/ i \in excused'
  BY DEF HeldIsListed, Listed
<1>1. i \in Ids /\ excused \subseteq excused'
  BY NextTypes, ExcusedFacts DEF TypeOK
<1>2. CASE Listed(i)
  BY <1>1, <1>2, ListedStays, ExcusedFacts
<1>3. CASE i \in excused
  BY <1>1, <1>3
<1>4. CASE i \notin DOMAIN morphs
  <2>1. PICK s \in Signals : (AddHSet(s) \/ SaveStep(s)) /\ IdOf[s] = i
    <3>1. DOMAIN morphs' # {} /\ ~UNCHANGED morphs
      BY <1>4
    <3>2. ASSUME Clear PROVE FALSE
      BY <3>1, <3>2 DEF Clear
    <3>3. ASSUME NEW s \in Signals, EvictHDel(s) PROVE FALSE
      BY <1>4, <3>3 DEF EvictHDel, HDel
    <3>4. PICK s \in Signals : AddHSet(s) \/ SaveStep(s)
      BY <3>1, <3>2, <3>3, MorphsStep
    <3>5. PICK st \in States : HSet(s, st)
      BY <3>1, <3>4 DEF AddHSet, SaveStep, Save, SaveFails, Overtaken, Saves, TypeOK, States
    <3>6. DOMAIN morphs' = DOMAIN morphs \cup {IdOf[s]}
      BY <3>5, HSetFacts
    <3> QED BY <1>4, <3>4, <3>6
  <2>2. CASE AddHSet(s)
    <3>1. at'[s] = "rpush"
      BY <2>2 DEF AddHSet, AddStage, Goes, TypeOK
    <3> QED BY <2>1, <3>1
  <2>3. CASE SaveStep(s)
    <3>1. UnderWay(s)
      BY <2>3 DEF SaveStep, Save, SaveFails, Overtaken, Saving, UnderWay
    <3> QED BY <2>1, <3>1, <1>1, <1>4 DEF StaysHeld, Holds
  <2> QED BY <2>1, <2>2, <2>3
<1>5. ASSUME NEW s \in Signals, IdOf[s] = i, at[s] = "rpush"
      PROVE  Listed(i)' \/ at'[s] = "rpush" \/ i \in excused'
  <2>1. CASE at'[s] \in {"rpush", "done"}
    BY <2>1, <1>5, ExcusedFacts
  <2>2. CASE at'[s] \notin {"rpush", "done"}
    <3>1. AddRPush(s)
      <4> USE <1>5, <2>2 DEF TypeOK, Goes
      <4>1. ASSUME NEW t \in Signals,
                   HExists(t) \/ AddHSet(t) \/ Count(t) \/ Trim(t) \/ LRange(t) \/ EvictNext(t)
            PROVE  FALSE
        BY <4>1 DEF HExists, AddHSet, Count, Trim, LRange, EvictNext
      <4>2. ASSUME NEW t \in Signals,
                   HGet(t) \/ EvictHDel(t) \/ EvictLRem(t) \/ Refuse(t)
            PROVE  FALSE
        BY <4>2 DEF HGet, EvictHDel, EvictLRem, Refuse
      <4>3. ASSUME NEW t \in Signals,
                   Start(t) \/ End(t) \/ Transition(t) \/ TimesOut(t) \/ SaveStep(t)
            PROVE  FALSE
        BY <4>3 DEF Start, End, Transition, TimesOut, SaveStep, Save, SaveFails, Overtaken, Saving
      <4>5. ASSUME Clear \/ Stop PROVE FALSE
        BY <4>5 DEF Clear, Stop
      <4>6. ASSUME NEW mine \in SUBSET Signals, Cancel(mine) \/ Crash(mine) PROVE FALSE
        BY <4>6 DEF Cancel, Crash, Unwinds, Saving, Driven
      <4>4. ASSUME NEW t \in Signals, AddRPush(t) PROVE t = s
        BY <4>4 DEF AddRPush
      <4> QED BY <4>1, <4>2, <4>3, <4>4, <4>5, <4>6 DEF Step, SaveStep
    <3>2. order' = Append(order, i) /\ order \in Seq(Ids)
      BY <1>5, <3>1 DEF AddRPush, TypeOK
    <3>3. order'[Len(order) + 1] = i /\ Len(order) + 1 \in DOMAIN order'
      BY <3>2, <1>1, AppendProperties, LenProperties
    <3> QED BY <3>3 DEF Listed
  <2> QED BY <2>1, <2>2
<1> QED BY <1>2, <1>3, <1>4, <1>5 DEF HeldIsListed, Listed

\* A context held after a step was held before it, under the same id and as it was, or
\* is the one a signal registers or saves in the step.
LEMMA HeldStep ==
  ASSUME TypeOK, Step, NEW i \in DOMAIN morphs'
  PROVE  \/ i \in DOMAIN morphs /\ morphs'[i] = morphs[i]
         \/ \E s \in Signals :
              /\ IdOf[s] = i
              /\ \/ AddHSet(s) /\ morphs'[i] = [by |-> s, state |-> "idle"]
                 \/ SaveStep(s) /\ morphs'[i] = [by |-> s, state |-> state[s]]
<1>1. CASE UNCHANGED morphs
  BY <1>1
<1>2. ASSUME NEW s \in Signals, AddHSet(s)
      PROVE  \/ i \in DOMAIN morphs /\ morphs'[i] = morphs[i]
             \/ IdOf[s] = i /\ morphs'[i] = [by |-> s, state |-> "idle"]
  <2>1. HSet(s, "idle") /\ "idle" \in States
    BY <1>2 DEF AddHSet, States
  <2>2. /\ DOMAIN morphs' = DOMAIN morphs \cup {IdOf[s]}
        /\ morphs'[IdOf[s]] = [by |-> s, state |-> "idle"]
        /\ \A j \in DOMAIN morphs : j # IdOf[s] => morphs'[j] = morphs[j]
    BY <2>1, HSetFacts
  <2> QED BY <2>2
<1>3. ASSUME NEW s \in Signals, SaveStep(s)
      PROVE  \/ i \in DOMAIN morphs /\ morphs'[i] = morphs[i]
             \/ IdOf[s] = i /\ morphs'[i] = [by |-> s, state |-> state[s]]
  <2>1. (HSet(s, state[s]) \/ UNCHANGED morphs) /\ state[s] \in States
    BY <1>3 DEF SaveStep, Save, SaveFails, Overtaken, Saves, TypeOK
  <2>2. CASE UNCHANGED morphs
    BY <2>2
  <2>3. CASE HSet(s, state[s])
    <3>1. /\ DOMAIN morphs' = DOMAIN morphs \cup {IdOf[s]}
          /\ morphs'[IdOf[s]] = [by |-> s, state |-> state[s]]
          /\ \A j \in DOMAIN morphs : j # IdOf[s] => morphs'[j] = morphs[j]
      BY <2>1, <2>3, HSetFacts
    <3> QED BY <3>1
  <2> QED BY <2>1, <2>2, <2>3
<1>4. ASSUME NEW s \in Signals, EvictHDel(s)
      PROVE  i \in DOMAIN morphs /\ morphs'[i] = morphs[i]
  BY <1>4 DEF EvictHDel, HDel
<1>5. ASSUME Clear PROVE FALSE
  BY <1>5 DEF Clear
<1> QED BY <1>1, <1>2, <1>3, <1>4, <1>5, MorphsStep

\* A signal does not come back to before its registration.
LEMMA NotBack ==
  ASSUME TypeOK, Step, NEW s \in Signals, at[s] \notin {"new", "hset"}
  PROVE  at'[s] \notin {"new", "hset"}
<1> USE DEF TypeOK, Goes, AddStage, AfterRead
<1>1. ASSUME NEW t \in Signals, HExists(t) \/ AddHSet(t) \/ AddRPush(t) \/ Count(t)
      PROVE  at'[s] \notin {"new", "hset"}
  BY <1>1 DEF HExists, AddHSet, AddRPush, Count
<1>2. ASSUME NEW t \in Signals, Trim(t) \/ LRange(t) \/ EvictNext(t)
      PROVE  at'[s] \notin {"new", "hset"}
  BY <1>2 DEF Trim, LRange, EvictNext
<1>3. ASSUME NEW t \in Signals, HGet(t) \/ EvictHDel(t) \/ EvictLRem(t) \/ Refuse(t)
      PROVE  at'[s] \notin {"new", "hset"}
  BY <1>3 DEF HGet, EvictHDel, EvictLRem, Refuse
<1>4. ASSUME NEW t \in Signals, Start(t) \/ End(t) \/ Transition(t) \/ TimesOut(t) \/ SaveStep(t)
      PROVE  at'[s] \notin {"new", "hset"}
  BY <1>4 DEF Start, End, Transition, TimesOut, SaveStep, Save, SaveFails, Overtaken
<1>5. ASSUME NEW mine \in SUBSET Signals, Clear \/ Stop \/ Cancel(mine) \/ Crash(mine)
      PROVE  at'[s] \notin {"new", "hset"}
  BY <1>5 DEF Clear, Stop, Cancel, Crash
<1> QED BY <1>1, <1>2, <1>3, <1>4, <1>5 DEF Step, SaveStep

\* A signal is early from its arrival to the start of its task, which alone changes its state.
LEMMA EarlyStep ==
  ASSUME TypeOK, Step, NEW s \in Signals, at'[s] \in Early
  PROVE  at[s] \in Early /\ state'[s] = state[s]
<1> USE DEF TypeOK, Goes, AddStage, Early, task
<1>1. ASSUME NEW t \in Signals, HExists(t) \/ AddHSet(t) \/ AddRPush(t) \/ Count(t)
      PROVE  at[s] \in Early /\ state'[s] = state[s]
  BY <1>1 DEF HExists, AddHSet, AddRPush, Count
<1>2. ASSUME NEW t \in Signals, Trim(t) \/ LRange(t) \/ EvictNext(t)
      PROVE  at[s] \in Early /\ state'[s] = state[s]
  BY <1>2 DEF Trim, LRange, EvictNext
<1>3. ASSUME NEW t \in Signals, HGet(t) \/ EvictHDel(t) \/ EvictLRem(t) \/ Refuse(t)
      PROVE  at[s] \in Early /\ state'[s] = state[s]
  BY <1>3 DEF HGet, EvictHDel, EvictLRem, Refuse
<1>4. ASSUME NEW t \in Signals, Start(t) \/ End(t) \/ Transition(t) \/ TimesOut(t) \/ SaveStep(t)
      PROVE  at[s] \in Early /\ state'[s] = state[s]
  BY <1>4 DEF Start, End, Transition, TimesOut, SaveStep, Save, SaveFails, Overtaken, Saving
<1>5. ASSUME NEW mine \in SUBSET Signals, Clear \/ Stop \/ Cancel(mine) \/ Crash(mine)
      PROVE  at[s] \in Early /\ state'[s] = state[s]
  BY <1>5 DEF Clear, Stop, Cancel, Crash
<1> QED BY <1>1, <1>2, <1>3, <1>4, <1>5 DEF Step, SaveStep

Settled(s) == at[s] \in {"running", "done", "lost"}

\* How a signal comes to be settled: by a save of its task, or before the task has started,
\* or because an instance crashes; what is cut short apart.
LEMMA SettledStep ==
  ASSUME TypeOK, Step, NEW s \in Signals, Settled(s)', s \notin cut', ~Save(s)
  PROVE  state'[s] = state[s] /\ s \notin cut /\ (Settled(s) \/ at[s] \in Early)
<1> DEFINE Goal == state'[s] = state[s] /\ s \notin cut /\ (Settled(s) \/ at[s] \in Early)
<1> USE DEF TypeOK, Goes, AddStage, AfterRead, Settled, Early, Saving, Driven, task
<1>1. ASSUME NEW t \in Signals, HExists(t) \/ AddHSet(t) \/ AddRPush(t) \/ Count(t) PROVE Goal
  BY <1>1 DEF HExists, AddHSet, AddRPush, Count
<1>2. ASSUME NEW t \in Signals, Trim(t) \/ LRange(t) \/ EvictNext(t) PROVE Goal
  BY <1>2 DEF Trim, LRange, EvictNext
<1>3. ASSUME NEW t \in Signals, HGet(t) \/ EvictHDel(t) \/ EvictLRem(t) \/ Refuse(t) PROVE Goal
  BY <1>3 DEF HGet, EvictHDel, EvictLRem, Refuse
<1>4. ASSUME NEW t \in Signals, Start(t) \/ End(t) \/ Transition(t) \/ TimesOut(t) PROVE Goal
  BY <1>4 DEF Start, End, Transition, TimesOut
<1>5. ASSUME NEW t \in Signals, SaveStep(t) PROVE Goal
  <2>1. CASE t = s
    BY <1>5, <2>1 DEF SaveStep, SaveFails, Overtaken
  <2>2. CASE t # s
    BY <1>5, <2>2 DEF SaveStep, Save, SaveFails, Overtaken
  <2> QED BY <2>1, <2>2
<1>6. ASSUME Clear \/ Stop PROVE Goal
  BY <1>6 DEF Clear, Stop
<1>7. ASSUME NEW mine \in SUBSET Signals, Cancel(mine) PROVE Goal
  <2>1. CASE s \in mine
    <3>1. ~Unwinds(s)
      BY <1>7, <2>1 DEF Cancel
    <3>2. s \notin unwinding /\ s \notin cut /\ state'[s] = state[s]
      BY <1>7, <2>1, <3>1 DEF Cancel
    <3>3. at[s] = "created"
      BY <1>7, <2>1, <3>1, <3>2 DEF Cancel, Unwinds
    <3> QED BY <3>2, <3>3
  <2>2. CASE s \notin mine
    BY <1>7, <2>2 DEF Cancel
  <2> QED BY <2>1, <2>2
<1>8. ASSUME NEW mine \in SUBSET Signals, Crash(mine) PROVE Goal
  <2>1. state'[s] = state[s] /\ s \notin cut
    BY <1>8 DEF Crash
  <2>2. CASE s \in mine
    <3>1. at[s] \notin Saving
      BY <1>8, <2>2 DEF Crash
    <3> QED BY <2>1, <3>1 DEF Stages
  <2>3. CASE s \notin mine
    BY <1>8, <2>1, <2>3 DEF Crash
  <2> QED BY <2>2, <2>3
<1> QED BY <1>1, <1>2, <1>3, <1>4, <1>5, <1>6, <1>7, <1>8 DEF Step, SaveStep

LEMMA EndsLastStep ==
  ASSUME TypeOK, IdleAtFirst, EndsLast, Step
  PROVE  EndsLast'
<1> SUFFICES ASSUME NEW s \in Signals
             PROVE  /\ at'[s] = "closing" => state'[s] = "ended"
                    /\ at'[s] = "done" /\ s \notin cut' => state'[s] # "live"
  BY DEF EndsLast
<1>1. at'[s] = "closing" => state'[s] = "ended"
  <2> SUFFICES ASSUME at'[s] = "closing" PROVE (at[s] = "closing" /\ state'[s] = state[s]) \/ End(s)
    BY DEF EndsLast, End, TypeOK
  <2> USE DEF TypeOK, Goes, AddStage, AfterRead, task, Saving
  <2>1. ASSUME NEW t \in Signals, HExists(t) \/ AddHSet(t) \/ AddRPush(t) \/ Count(t) \/ Trim(t)
        PROVE  at[s] = "closing" /\ state'[s] = state[s]
    BY <2>1 DEF HExists, AddHSet, AddRPush, Count, Trim
  <2>2. ASSUME NEW t \in Signals,
               LRange(t) \/ EvictNext(t) \/ HGet(t) \/ EvictHDel(t) \/ EvictLRem(t) \/ Refuse(t)
        PROVE  at[s] = "closing" /\ state'[s] = state[s]
    BY <2>2 DEF LRange, EvictNext, HGet, EvictHDel, EvictLRem, Refuse
  <2>3. ASSUME NEW t \in Signals, Start(t) \/ Transition(t) \/ TimesOut(t)
        PROVE  at[s] = "closing" /\ state'[s] = state[s]
    BY <2>3 DEF Start, Transition, TimesOut
  <2>4. ASSUME NEW t \in Signals, SaveStep(t)
        PROVE  at[s] = "closing" /\ state'[s] = state[s]
    BY <2>4 DEF SaveStep, Save, SaveFails, Overtaken
  <2>5. ASSUME NEW t \in Signals, End(t)
        PROVE  (at[s] = "closing" /\ state'[s] = state[s]) \/ End(s)
    BY <2>5 DEF End
  <2>6. ASSUME NEW mine \in SUBSET Signals, Clear \/ Stop \/ Cancel(mine) \/ Crash(mine)
        PROVE  at[s] = "closing" /\ state'[s] = state[s]
    BY <2>6 DEF Clear, Stop, Cancel, Crash
  <2> QED BY <2>1, <2>2, <2>3, <2>4, <2>5, <2>6 DEF Step, SaveStep
<1>2. ASSUME at'[s] = "done", s \notin cut' PROVE state'[s] # "live"
  <2>1. CASE Save(s)
    BY <1>2, <2>1 DEF Save, Goes, TypeOK, EndsLast
  <2>2. CASE ~Save(s)
    <3>1. state'[s] = state[s] /\ s \notin cut /\ (Settled(s) \/ at[s] \in Early)
      BY <1>2, <2>2, SettledStep DEF Settled
    <3>2. CASE at[s] \in Early
      BY <3>1, <3>2 DEF IdleAtFirst
    <3>3. CASE Settled(s) /\ at[s] # "done"
      <4> USE <1>2, <3>3 DEF Settled, TypeOK, Goes, AddStage, AfterRead, Saving, Driven
      <4>1. ASSUME NEW t \in Signals, HExists(t) \/ AddHSet(t) \/ AddRPush(t) \/ Count(t) \/ Trim(t)
            PROVE  FALSE
        BY <4>1 DEF HExists, AddHSet, AddRPush, Count, Trim
      <4>2. ASSUME NEW t \in Signals,
                   LRange(t) \/ EvictNext(t) \/ HGet(t) \/ EvictHDel(t) \/ EvictLRem(t) \/ Refuse(t)
            PROVE  FALSE
        BY <4>2 DEF LRange, EvictNext, HGet, EvictHDel, EvictLRem, Refuse
      <4>3. ASSUME NEW t \in Signals, Start(t) \/ End(t) \/ Transition(t) \/ TimesOut(t) \/ SaveStep(t)
            PROVE  FALSE
        BY <4>3 DEF Start, End, Transition, TimesOut, SaveStep, Save, SaveFails, Overtaken
      <4>4. ASSUME NEW mine \in SUBSET Signals, Clear \/ Stop \/ Cancel(mine) \/ Crash(mine)
            PROVE  FALSE
        BY <4>4 DEF Clear, Stop, Cancel, Unwinds, Crash
      <4> QED BY <4>1, <4>2, <4>3, <4>4 DEF Step, SaveStep
    <3>4. CASE at[s] = "done"
      BY <3>1, <3>4 DEF EndsLast
    <3> QED BY <3>1, <3>2, <3>3, <3>4
  <2> QED BY <2>1, <2>2
<1> QED BY <1>1, <1>2

LEMMA HeldByOwnStep ==
  ASSUME TypeOK, HeldByOwn, Step
  PROVE  HeldByOwn'
<1> SUFFICES ASSUME NEW i \in DOMAIN morphs'
             PROVE  IdOf[morphs'[i].by] = i /\ at'[morphs'[i].by] \notin {"new", "hset"}
  BY DEF HeldByOwn
<1>1. CASE i \in DOMAIN morphs /\ morphs'[i] = morphs[i]
  <2>1. morphs[i].by \in Signals
    BY <1>1 DEF TypeOK
  <2> QED BY <1>1, <2>1, NotBack DEF HeldByOwn
<1>2. ASSUME NEW s \in Signals, IdOf[s] = i, AddHSet(s), morphs'[i] = [by |-> s, state |-> "idle"]
      PROVE  IdOf[morphs'[i].by] = i /\ at'[morphs'[i].by] \notin {"new", "hset"}
  BY <1>2 DEF AddHSet, AddStage, Goes, TypeOK
<1>3. ASSUME NEW s \in Signals, IdOf[s] = i, SaveStep(s), morphs'[i] = [by |-> s, state |-> state[s]]
      PROVE  IdOf[morphs'[i].by] = i /\ at'[morphs'[i].by] \notin {"new", "hset"}
  BY <1>3 DEF SaveStep, Save, SaveFails, Overtaken, Goes, TypeOK
<1> QED BY <1>1, <1>2, <1>3, HeldStep

LEMMA IdleAtFirstStep ==
  ASSUME TypeOK, IdleAtFirst, Step
  PROVE  IdleAtFirst'
<1> SUFFICES ASSUME NEW s \in Signals, at'[s] \in Early
             PROVE  /\ state'[s] = "idle"
                    /\ Holds(IdOf[s])' /\ morphs'[IdOf[s]].by = s => morphs'[IdOf[s]].state = "idle"
  BY DEF IdleAtFirst
<1>1. at[s] \in Early /\ state'[s] = "idle"
  BY EarlyStep DEF IdleAtFirst
<1>2. ASSUME Holds(IdOf[s])', morphs'[IdOf[s]].by = s PROVE morphs'[IdOf[s]].state = "idle"
  <2>1. CASE IdOf[s] \in DOMAIN morphs /\ morphs'[IdOf[s]] = morphs[IdOf[s]]
    BY <1>1, <1>2, <2>1 DEF IdleAtFirst, Holds
  <2>2. ASSUME NEW t \in Signals, morphs'[IdOf[s]] = [by |-> t, state |-> "idle"]
        PROVE  morphs'[IdOf[s]].state = "idle"
    BY <2>2
  <2>3. ASSUME NEW t \in Signals, SaveStep(t), morphs'[IdOf[s]] = [by |-> t, state |-> state[t]]
        PROVE  FALSE
    <3>1. t = s
      BY <1>2, <2>3
    <3> QED BY <3>1, <2>3, <1>1 DEF SaveStep, Save, SaveFails, Overtaken, Saving, Early
  <2> QED BY <1>2, <2>1, <2>2, <2>3, HeldStep DEF Holds
<1> QED BY <1>1, <1>2

LEMMA SettledShownStep ==
  ASSUME TypeOK, HeldByOwn, IdleAtFirst, SettledShown, Step
  PROVE  SettledShown'
<1> SUFFICES ASSUME NEW i \in DOMAIN morphs', NEW s, s = morphs'[i].by, Settled(s)', s \notin cut'
             PROVE  morphs'[i].state = state'[s]
  BY DEF SettledShown, Settled
<1>1. s \in Signals /\ IdOf[s] = i
  <2>1. Types' /\ HeldByOwn'
    BY StepTypes, HeldByOwnStep
  <2> QED BY <2>1 DEF HeldByOwn, Types
<1>2. CASE Save(s)
  <2>1. HSet(s, state[s]) /\ state[s] \in States /\ state'[s] = state[s]
    BY <1>1, <1>2 DEF Save, Saves, TypeOK
  <2>2. morphs'[IdOf[s]] = [by |-> s, state |-> state[s]]
    <3> HIDE DEF TypeOK
    <3> QED BY <1>1, <2>1, HSetFacts
  <2> QED BY <1>1, <2>1, <2>2
<1>3. CASE ~Save(s) /\ i \in DOMAIN morphs /\ morphs'[i] = morphs[i]
  <2>1. state'[s] = state[s] /\ s \notin cut /\ (Settled(s) \/ at[s] \in Early)
    BY <1>1, <1>3, SettledStep
  <2>2. CASE Settled(s)
    BY <1>3, <2>1, <2>2 DEF SettledShown, Settled
  <2>3. CASE at[s] \in Early
    BY <1>1, <1>3, <2>1, <2>3 DEF IdleAtFirst, Holds
  <2> QED BY <2>1, <2>2, <2>3
<1>4. ASSUME NEW t \in Signals, AddHSet(t), morphs'[i] = [by |-> t, state |-> "idle"] PROVE FALSE
  BY <1>4 DEF AddHSet, AddStage, Goes, TypeOK, Settled
<1>5. ASSUME NEW t \in Signals, SaveStep(t), morphs'[i] = [by |-> t, state |-> state[t]] PROVE Save(s)
  BY <1>5 DEF SaveStep, SaveFails, Overtaken, Goes, TypeOK, Settled
<1> QED BY <1>2, <1>3, <1>4, <1>5, HeldStep

\* A context that is held as live has a task under way, or one that was cut short or lost.
LEMMA ShownFacts ==
  ASSUME TypeOK, HeldByOwn, IdleAtFirst, SettledShown, EndsLast
  PROVE  ShownAsIs
<1> SUFFICES ASSUME NEW i \in DOMAIN morphs, morphs[i].state = "live",
                    at[morphs[i].by] \notin Driven, morphs[i].by \notin cut
             PROVE  at[morphs[i].by] = "lost"
  BY DEF ShownAsIs, SettledShown
<1>1. morphs[i].by \in Signals /\ IdOf[morphs[i].by] = i /\ at[morphs[i].by] \in Stages
  BY DEF TypeOK, HeldByOwn
<1>2. at[morphs[i].by] \notin Early
  BY <1>1 DEF IdleAtFirst, Holds
<1>3. at[morphs[i].by] # "done"
  BY <1>1 DEF SettledShown, EndsLast
<1> QED BY <1>1, <1>2, <1>3 DEF Stages, Early, Driven, Saving

LEMMA InitInv ==
  ASSUME Init
  PROVE  Inv
<1>1. DOMAIN morphs = {} /\ order = <<>> /\ \A s \in Signals : at[s] = "new" /\ state[s] = "idle"
  BY DEF Init
<1>2. TypeOK
  BY <1>1, EmptySeq DEF Init, TypeOK, Stages, States
<1>3. StaysHeld /\ HeldIsListed /\ HeldByOwn /\ IdleAtFirst /\ SettledShown /\ EndsLast
  BY <1>1 DEF StaysHeld, UnderWay, HeldIsListed, HeldByOwn, IdleAtFirst, SettledShown, EndsLast, Holds
<1> QED BY <1>2, <1>3 DEF Inv

LEMMA NextInv ==
  ASSUME Inv, [Next]_vars
  PROVE  Inv'
<1>1. CASE Next
  BY <1>1, NextTypes, StaysHeldStep, HeldIsListedStep, HeldByOwnStep, IdleAtFirstStep,
     SettledShownStep, EndsLastStep DEF Inv, Next
<1>2. CASE UNCHANGED vars
  BY <1>2 DEF Inv, vars, redis, task, events, TypeOK, StaysHeld, UnderWay, HeldIsListed, HeldByOwn,
              IdleAtFirst, SettledShown, EndsLast, Holds
<1> QED BY <1>1, <1>2

THEOREM Invariance == Spec => []Inv
<1>1. Init => Inv
  BY InitInv
<1>2. Inv /\ [Next]_vars => Inv'
  BY NextInv
<1> QED BY <1>1, <1>2, PTL DEF Spec

-----------------------------------------------------------------------------
(* What the store guarantees *)

\* Every state the store reaches has the type its variables are declared with; an eviction
\* that reads, deletes or strikes off has an id to do it to.
THEOREM TypeCorrect == Spec => []TypeOK
<1>1. Inv => TypeOK
  BY DEF Inv
<1> QED BY <1>1, Invariance, PTL

\* However the commands of contains, add, save, evict_terminal and clear interleave, raise
\* or are cut short by a crash, a context in the hash stays on the list, where an eviction
\* finds it, but for the excuses, an rpush that raises among them.
THEOREM HeldStaysListed == Spec => []HeldIsListed
<1>1. Inv => HeldIsListed
  BY DEF Inv
<1> QED BY <1>1, Invariance, PTL

\* Between two saves, when its task is done and after a crash a context is held in the state
\* the engagement was in, and one held as live has a task that will save it again, whatever
\* commands raise and tasks are cancelled: but for the tasks whose last save was not
\* answered or whose rollback was cut short, and for the lost ones, which are live for ever.
THEOREM ContextsShownAsTheyAre == Spec => []ShownAsIs
<1>1. Inv => ShownAsIs
  BY ShownFacts DEF Inv
<1> QED BY <1>1, Invariance, PTL

\* contains lets a request in while an engagement of it is under way only when the loss
\* of its context is excused.
THEOREM RequestsAcceptedOnce == Spec => AcceptedOnce
<1> DEFINE A == \A s, t \in Signals :
                  s # t /\ IdOf[s] = IdOf[t] /\ at[s] = "new" /\ at'[s] = "hset" /\ UnderWay(t)
                    => IdOf[s] \in excused
<1>1. ASSUME Inv, [Next]_vars PROVE [A]_vars
  <2> SUFFICES ASSUME Next, NEW s \in Signals, NEW t \in Signals, IdOf[s] = IdOf[t],
                      at[s] = "new", at'[s] = "hset", UnderWay(t)
               PROVE  IdOf[s] \in excused
    BY <1>1
  <2>1. ~Holds(IdOf[s])
    <3> USE <1>1 DEF Inv, TypeOK, Goes
    <3>1. ASSUME NEW x \in Signals, AddHSet(x) \/ AddRPush(x) \/ Count(x) \/ Trim(x) \/ LRange(x)
          PROVE  FALSE
      BY <3>1 DEF AddHSet, AddStage, AddRPush, Count, Trim, LRange
    <3>2. ASSUME NEW x \in Signals, EvictNext(x) \/ HGet(x) \/ EvictHDel(x) \/ EvictLRem(x) \/ Refuse(x)
          PROVE  FALSE
      BY <3>2 DEF EvictNext, HGet, AfterRead, EvictHDel, EvictLRem, Refuse
    <3>3. ASSUME NEW x \in Signals, Start(x) \/ End(x) \/ Transition(x) \/ TimesOut(x) \/ SaveStep(x)
          PROVE  FALSE
      BY <3>3 DEF Start, End, Transition, TimesOut, SaveStep, Save, SaveFails, Overtaken
    <3>4. ASSUME NEW mine \in SUBSET Signals, Clear \/ Stop \/ Cancel(mine) \/ Crash(mine) PROVE FALSE
      BY <3>4 DEF Clear, Stop, Cancel, Crash
    <3>5. ASSUME NEW x \in Signals, HExists(x) PROVE x = s /\ ~Known(IdOf[s])
      BY <3>5 DEF HExists
    <3> QED BY <3>1, <3>2, <3>3, <3>4, <3>5 DEF Next, Step, SaveStep, Known
  <2>2. Holds(IdOf[t]) \/ IdOf[t] \in excused
    BY <1>1 DEF Inv, StaysHeld
  <2> QED BY <2>1, <2>2
<1> QED BY <1>1, Invariance, PTL DEF Spec, AcceptedOnce
=============================================================================
