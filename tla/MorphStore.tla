----------------------------- MODULE MorphStore -----------------------------
(***************************************************************************)
(* The in-memory morph store of the orchestrator                           *)
(* (services/orchestrator/store.py, class InMemoryMorphStore): a Python    *)
(* dict from request ids to the MorphContext object saved last under each. *)
(*                                                                         *)
(* A dict is its entries and the order they were inserted in, so a store   *)
(* value is a record of                                                    *)
(*   ctx    the context held for each request id, None where there is none *)
(*   since  the insertion number of each entry (0 where there is none)     *)
(*   clock  the number of insertions so far                                *)
(* Assigning to a key that is present keeps its place in the order; a key  *)
(* that was popped and is assigned again goes to the end.                  *)
(***************************************************************************)
EXTENDS Naturals, FiniteSets, Sequences

CONSTANTS
  Ids,      \* request ids of attack signals
  Morph,    \* MorphContext objects, one per accepted signal
  None      \* the absent context

ASSUME NoneAssumption == None \notin Morph \cup Ids

Stores ==
  [ctx: [Ids -> Morph \cup {None}], since: [Ids -> Nat], clock: Nat]

EmptyStore ==
  [ctx |-> [i \in Ids |-> None], since |-> [i \in Ids |-> 0], clock |-> 0]

\* The request ids `contains` answers True for, in any order.
Keys(s) == {i \in Ids : s.ctx[i] # None}

\* items[request_id] = ctx, the body of both `add` and `save`.
Put(s, i, m) ==
  LET new == i \notin Keys(s)
  IN  [ctx   |-> [s.ctx EXCEPT ![i] = m],
       since |-> IF new THEN [s.since EXCEPT ![i] = s.clock + 1] ELSE s.since,
       clock |-> IF new THEN s.clock + 1 ELSE s.clock]

\* Mutant: the oldest entries go, whatever their state.
Evicted_AnyState(s, max, terminal) ==
  LET older(i) == {j \in Keys(s) : s.since[j] < s.since[i]}
  IN  {i \in Keys(s) : max + Cardinality(older(i)) < Cardinality(Keys(s))}

\* The keys `evict_terminal` pops: walking the keys in insertion order it pops
\* the terminal ones until at most `max` are left, that is the oldest
\* Cardinality(Keys(s)) - max of them. `terminal` is the set of contexts whose
\* state is in _TERMINAL.
Evicted(s, max, terminal) ==
  LET candidates == {i \in Keys(s) : s.ctx[i] \in terminal}
      older(i)   == {j \in candidates : s.since[j] < s.since[i]}
  IN  {i \in candidates : max + Cardinality(older(i)) < Cardinality(Keys(s))}

\* The same as the loop takes them one by one, from the list of keys it makes first.
Popped(s, max, terminal, keys) ==
  LET popped[n \in 0..Len(keys)] ==
        IF n = 0 THEN {}
        ELSE IF /\ max < Cardinality(Keys(s) \ popped[n - 1])
                /\ s.ctx[keys[n]] \in terminal
          THEN popped[n - 1] \cup {keys[n]} ELSE popped[n - 1]
  IN  popped[Len(keys)]

evict_terminal(s, max, terminal) ==
  LET gone == Evicted(s, max, terminal)
  IN  [ctx   |-> [i \in Ids |-> IF i \in gone THEN None ELSE s.ctx[i]],
       since |-> [i \in Ids |-> IF i \in gone THEN 0 ELSE s.since[i]],
       clock |-> s.clock]
=============================================================================
