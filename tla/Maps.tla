---------------------------------- MODULE Maps ----------------------------------
(***************************************************************************)
(* Dictionaries as functions: what `d[a] = b` and `del d[a]` leave.        *)
(***************************************************************************)

With(f, a, b) == [x \in DOMAIN f \cup {a} |-> IF x = a THEN b ELSE f[x]]

Without(f, S) == [x \in DOMAIN f \ S |-> f[x]]
=============================================================================
