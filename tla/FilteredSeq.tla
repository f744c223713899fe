---------------------------- MODULE FilteredSeq ----------------------------
(***************************************************************************)
(* A sequence with some of its elements left out, as a recursive function. *)
(***************************************************************************)
EXTENDS Naturals, Sequences

\* The elements of s at the places of keep, in their order.
Filtered(s, keep) ==
    LET upTo[n \in 0..Len(s)] ==
            IF n = 0 THEN <<>>
            ELSE IF n \in keep THEN Append(upTo[n - 1], s[n]) ELSE upTo[n - 1]
    IN upTo[Len(s)]
=============================================================================
