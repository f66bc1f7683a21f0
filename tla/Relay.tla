------------------------------- MODULE Relay --------------------------------
(***************************************************************************)
(* What a streaming answer promises its client, without a reader, channel, *)
(* timer or buffer: lines of content are passed on one by one, in order    *)
(* and none twice, as soon as they have been sent; unless something broke  *)
(* the answer, its final chunk comes only when upstream has come to its    *)
(* end and all it had to say has been passed on; and the final chunk       *)
(* carries upstream's reason if and only if the client was given the line  *)
(* with it.                                                                *)
(***************************************************************************)
EXTENDS Naturals, Sequences

CONSTANTS
    Scripts,  \* what upstream may have to say: sequences of kinds of line
    Content,  \* the kinds that make a chunk for the client
    Reason,   \* the one of them that carries a reason why the answer ends
    EndMark   \* the kind after which nothing counts

VARIABLES
    script,    \* the lines of this answer
    sent,      \* how many of them upstream has sent
    source,    \* "open" until upstream is heard no more
    passed,    \* the lines passed on to the client, in order
    broken,    \* something broke the answer
    final      \* the final chunk: "none" yet, a "default" reason or upstream's

vars == <<script, sent, source, passed, broken, final>>

Init == /\ script \in Scripts
        /\ sent = 0 /\ source = "open"
        /\ passed = <<>> /\ broken = FALSE /\ final = "none"

(* What has been sent of the answer, and what of it the client has not got. *)
Counted(i) == \A d \in 1..i : script[d] # EndMark
Due == {i \in 1..sent : script[i] \in Content /\ Counted(i)}
Pending == {i \in Due : \A n \in DOMAIN passed : passed[n] < i}

Send == /\ source = "open" /\ sent < Len(script)
        /\ sent' = sent + 1
        /\ UNCHANGED <<script, source, passed, broken, final>>

Close == /\ source' = "closed"
         /\ UNCHANGED <<script, sent, passed, broken, final>>

Break == /\ broken' = TRUE /\ source' \in {source, "closed"}
         /\ UNCHANGED <<script, sent, passed, final>>

Pass == /\ final = "none"
        /\ \E i \in Pending : /\ \A j \in Pending : i <= j
                              /\ passed' = Append(passed, i)
        /\ UNCHANGED <<script, sent, source, broken, final>>

(* Upstream has ended the answer, one way or the other. *)
Over == source = "closed" \/ \E d \in 1..sent : script[d] = EndMark

Finish == /\ final = "none"
          /\ broken \/ (Over /\ Pending = {})
          /\ final' = IF \E n \in DOMAIN passed : script[passed[n]] = Reason
                      THEN "given" ELSE "default"
          /\ source' = "closed"
          /\ UNCHANGED <<script, sent, passed, broken>>

Next == Send \/ Close \/ Break \/ Pass \/ Finish

Spec == Init /\ [][Next]_vars
=============================================================================
