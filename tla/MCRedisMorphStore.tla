--------------------------- MODULE MCRedisMorphStore ---------------------------
(***************************************************************************)
(* The Redis store with three signals, two of them of one request.         *)
(***************************************************************************)
EXTENDS RedisMorphStore

CONSTANTS First, Again, Other, Shared, Own

MCIdOf == First :> Shared @@ Again :> Shared @@ Other :> Own

\* The two deliveries of one request are alike.
MCSymmetry == Permutations({First, Again})
=============================================================================
