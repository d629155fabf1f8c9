--------------------------- MODULE ResponseStream ---------------------------
(***************************************************************************)
(* What a client of a streaming response may rely on, in every protocol:   *)
(* the response starts once, its items are numbered without gaps, text is  *)
(* added to an item only between its start and its end, an item ends once, *)
(* and nothing follows the end of the response.  Only a search of the      *)
(* upstream may still be open then, when the turn goes on in a later       *)
(* response.                                                               *)
(***************************************************************************)
EXTENDS Naturals, Sequences

VARIABLES phase,   \* "idle", "streaming", "ended" or "broken"
          items    \* the items so far: kind, text and whether it is open

vars == <<phase, items>>

Init == phase = "idle" /\ items = <<>>

Start == /\ phase = "idle" /\ phase' = "streaming"
         /\ UNCHANGED items

Open(kind, text) ==
    /\ phase = "streaming"
    /\ items' = Append(items, [kind |-> kind, text |-> text, open |-> TRUE])
    /\ UNCHANGED phase

Extend(i, text) ==
    /\ phase = "streaming" /\ items[i].open
    /\ items' = [items EXCEPT ![i].text = @ \o text]
    /\ UNCHANGED phase

Close(i) ==
    /\ phase = "streaming" /\ items[i].open
    /\ items' = [items EXCEPT ![i].open = FALSE]
    /\ UNCHANGED phase

End == /\ phase = "streaming" /\ phase' = "ended"
       /\ \A i \in DOMAIN items : items[i].open => items[i].kind = "search"
       /\ UNCHANGED items

\* An error ends the response anywhere.
Break == /\ phase \in {"idle", "streaming"} /\ phase' = "broken"
         /\ UNCHANGED items

Next ==
    \/ Start \/ End \/ Break
    \/ /\ Len(items') > Len(items)
       /\ LET x == items'[Len(items')] IN Open(x.kind, x.text)
    \/ \E i \in DOMAIN items :
          \/ Close(i)
          \/ /\ Len(items') = Len(items)
             /\ Len(items'[i].text) > Len(items[i].text)
             /\ Extend(i, SubSeq(items'[i].text, Len(items[i].text) + 1, Len(items'[i].text)))

Spec == Init /\ [][Next]_vars
=============================================================================
