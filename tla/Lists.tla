-------------------------------- MODULE Lists --------------------------------
(* The part of a list at some places, which is what a filter leaves of it. *)
EXTENDS Naturals, Sequences, SequencesExt

(* The items of a list at the places I, in their order.                    *)
Sublist(s, I) ==
  LET taken[k \in 0 .. Len(s)] ==
        IF k = 0 THEN <<>>
        ELSE IF k \in I THEN Append(taken[k - 1], s[k]) ELSE taken[k - 1]
  IN taken[Len(s)]
=============================================================================
