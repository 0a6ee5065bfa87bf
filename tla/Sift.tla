-------------------------------- MODULE Sift --------------------------------
(* The elements of a list that are kept, in the order they are in: `retain`   *)
(* and `filter` in the source.  A recursive function, as the other modules    *)
(* prove about what it leaves.                                                *)
EXTENDS Naturals, Sequences

\* s without what is not in S.
Sifted(s, S) ==
    LET kept[n \in 0 .. Len(s)] ==
            IF n = 0 THEN <<>>
            ELSE IF s[n] \in S THEN Append(kept[n - 1], s[n]) ELSE kept[n - 1]
    IN  kept[Len(s)]
=============================================================================
