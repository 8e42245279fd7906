--------------------------- MODULE MorphLifecycle ---------------------------
(***************************************************************************)
(* What the orchestrator promises of one engagement, without saying how:   *)
(* the documented life cycle (docs/guide/architecture.md, "Decision")      *)
(*                                                                         *)
(*   IDLE -> DETECTING -> ASSIGNING -> REROUTING -> MONITORING             *)
(*        -> TERMINATING -> IDLE,      on error  ROLLBACK -> ERROR         *)
(*                                                                         *)
(* with the ends of an engagement told apart from its beginning. Once the  *)
(* attacker may have been rerouted an engagement ends only by way of       *)
(* `terminating` or `rollback`, the two phases that give the route back.   *)
(***************************************************************************)
CONSTANT Morph
VARIABLE phase

Ends == {"closed", "failed", "abandoned"}

Phases ==
  {"none", "waiting", "assigning", "rerouting", "monitoring", "terminating",
   "rollback"} \cup Ends

Arrows ==
  {<<"none", "waiting">>,
   <<"waiting", "assigning">>, <<"waiting", "closed">>,
   <<"assigning", "rerouting">>, <<"assigning", "failed">>,
   <<"rerouting", "monitoring">>,
   <<"monitoring", "terminating">>,
   <<"terminating", "closed">>,
   <<"rollback", "failed">>, <<"rollback", "abandoned">>}
  \cup ({"assigning", "rerouting", "monitoring", "terminating"} \X {"rollback"})

Init == phase = [m \in Morph |-> "none"]

Move(m) ==
  \E p \in Phases :
    /\ <<phase[m], p>> \in Arrows
    /\ phase' = [phase EXCEPT ![m] = p]

Next == \E m \in Morph : Move(m)

Spec == Init /\ [][Next]_phase
=============================================================================
