---------------------------- MODULE MCGhostSessions ----------------------------
(***************************************************************************)
(* Both stores. A key of Redis runs out in the third tick; in the dict one *)
(* session is in the way of another from the second tick on, with the      *)
(* session that the MCP server opened and one of each request.             *)
(***************************************************************************)
EXTENDS GhostSessions

MCMaxTime == [redis \in BOOLEAN |-> IF redis THEN 3 ELSE 2]
=============================================================================
