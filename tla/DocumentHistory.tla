-------------------------- MODULE DocumentHistory --------------------------
(***************************************************************************)
(* What captures promise about a document (README.md, "POST /add: adds a   *)
(* document, or a new version of one"): each (document, generation) has a  *)
(* history of contents to which a capture appends its own, in one step,    *)
(* unless it is the current one already.                                   *)
(***************************************************************************)
EXTENDS Sequences, Naturals

CONSTANTS Refs, Hashes, Generations

VARIABLE history

Init == history = [k \in Refs \X Generations |-> <<>>]

Current(k) == history[k][Len(history[k])]

Append1(k, h) ==
    /\ history[k] # <<>> => Current(k) # h
    /\ history' = [history EXCEPT ![k] = Append(@, h)]

Next == \E k \in Refs \X Generations, h \in Hashes : Append1(k, h)

Spec == Init /\ [][Next]_history
=============================================================================
