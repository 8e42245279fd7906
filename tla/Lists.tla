--------------------------------- MODULE Lists ---------------------------------
(***************************************************************************)
(* Lists as sequences: what is left of one when values are struck off it.  *)
(***************************************************************************)
EXTENDS Integers, Sequences

\* The list without the members of gone, the others in their order.
Less(list, gone) ==
  LET upto[n \in 0..Len(list)] ==
        IF n = 0 THEN <<>>
        ELSE IF list[n] \in gone THEN upto[n - 1] ELSE Append(upto[n - 1], list[n])
  IN  upto[Len(list)]
=============================================================================
