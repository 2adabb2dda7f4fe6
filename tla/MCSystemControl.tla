------------------------- MODULE MCSystemControl -------------------------
(* A small instance of SystemControl. *)
EXTENDS SystemControl, TLC

CONSTANTS r1, r2, r3, p1, p2, eod, none

Asked(via, ops) == {[via |-> via, op |-> op] : op \in ops}

MCAsks == Asked("web", {"halt", "clear", "resume", "pause", "flatten", "block"}) \cup
          Asked("queue", {"flatten", "resume", "halt"}) \cup
          Asked("confirm", {"flatten", "resume", "halt"}) \cup Asked("drop", {"none"})

Begun(vias, ops) ==
  Cardinality({r \in Requests : pc[r] # "new" /\ ask[r].via \in vias /\ ask[r].op \in ops})

\* At most two requests are open at once, and at most one flatten runs; it may be confirmed twice
\* where the broker holds one position.
FewAtOnce ==
  /\ Cardinality(Open) <= 2
  /\ Begun({"web", "confirm"}, {"flatten"}) <= 
       IF Begun({"queue"}, {"flatten"}) = 1 /\ pos[p2] = "closed" THEN 2 ELSE 1
  /\ Begun({"queue"}, Ops) > 0 => Begun({"web"}, {"flatten"}) = 0
  /\ Begun({"confirm"}, Ops) > 0 => Begun({"queue"}, Ops) > 0

Symmetric == Permutations({r1, r2, r3}) 
=============================================================================
