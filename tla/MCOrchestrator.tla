--------------------------- MODULE MCOrchestrator ---------------------------
(* Instances of Orchestrator for TLC. *)
EXTENDS Orchestrator, TLC

\* With Addresses = Policies = Ids: every request has its own address and cookie.
Own == [i \in Ids |-> i]

\* All requests come from one address.
OneAddress == [i \in Ids |-> CHOOSE a \in Addresses : TRUE]

\* Only the requests of Policies carry a session cookie.
CookieOnly == [i \in Ids |-> IF i \in Policies THEN i ELSE None]

\* Contexts are interchangeable. Used with safety properties only.
MorphSymmetry == Permutations(Morph)
=============================================================================
