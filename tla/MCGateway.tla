------------------------------- MODULE MCGateway -------------------------------
(***************************************************************************)
(* The gateway with two users and the lists an operator may start with.    *)
(***************************************************************************)
EXTENDS Gateway

CONSTANT Bob

\* Nobody; an admin alone; two admins; an admin and somebody else; no admin.
MCFiles ==
  {<<>>, Admin :> "admin", Bob :> "operator"}
    \cup {Admin :> "admin" @@ Bob :> role : role \in ROLES}
=============================================================================
