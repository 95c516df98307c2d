-------------------------------- MODULE Lists --------------------------------
(***************************************************************************)
(* A list comprehension with a condition: what passes stays in its order.  *)
(***************************************************************************)
EXTENDS Naturals, Sequences

\* The elements of l that are in S.
Selected(l, S) ==
    LET kept[n \in 0..Len(l)] ==
          IF n = 0 THEN <<>>
          ELSE IF l[n] \in S THEN Append(kept[n - 1], l[n]) ELSE kept[n - 1]
    IN kept[Len(l)]
=============================================================================
