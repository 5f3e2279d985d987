--------------------------------- MODULE Lists ---------------------------------
(***************************************************************************)
(* Python's `[x for x in s if x in keep]': the elements of a sequence that *)
(* are in a set, in their order.                                           *)
(***************************************************************************)
EXTENDS Naturals, Sequences

Filtered(s, keep) ==
  LET first[i \in 0 .. Len(s)] ==
        IF i = 0 THEN <<>>
        ELSE IF s[i] \in keep THEN Append(first[i - 1], s[i]) ELSE first[i - 1]
  IN  first[Len(s)]
=============================================================================
