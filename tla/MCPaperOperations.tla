------------------------ MODULE MCPaperOperations ------------------------
(* A small instance of PaperOperations. *)
EXTENDS PaperOperations, TLC

CONSTANTS r1, r2, r3, none

Command(side, quantity, profile) == [side |-> side, quantity |-> quantity, profile |-> profile]

MCBodies == {Command("buy", 4, "partial_fill"), Command("buy", 5, "standard"),
             Command("sell", 5, "partial_fill"), Command("sell", 1, "standard"),
             Command("buy", 1, "no_liquidity")}

Open == {r \in Requests : pc[r] \notin {"new", "ended"}}

\* Two of the three requests overlap in any way, the other runs before, between or after them;
\* a command that finds no liquidity is one of the first two, and a halt lasts only while a
\* request is open.
FewAtOnce ==
  /\ Cardinality(Open) <= 2
  /\ \A r \in Requests : orders[r].status = "rejected" =>
       Cardinality({q \in Requests : pc[q] # "new"}) <= 2
  /\ halted => Open # {}

SymmetricRequests == Permutations({r1, r2, r3})
=============================================================================
