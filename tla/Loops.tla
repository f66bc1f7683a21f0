------------------------------- MODULE Loops --------------------------------
(* Loops over a slice that build another one by append. *)
EXTENDS Naturals, Sequences

(* What a loop over s keeps that appends the elements which are in wanted. *)
Keep(s, wanted) ==
    LET kept[n \in 0..Len(s)] ==
            IF n = 0 THEN <<>>
            ELSE IF s[n] \in wanted THEN Append(kept[n - 1], s[n]) ELSE kept[n - 1]
    IN  kept[Len(s)]
=============================================================================
