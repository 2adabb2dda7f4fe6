------------------------- MODULE MCOrderSubmission -------------------------
(* Names for the small instances of OrderSubmission, and their symmetries. *)
EXTENDS OrderSubmission, TLC

CONSTANTS o1, o2, o3, o4, s1, s2, s3, c1, c2, b1, b2, b3, outsider, none

SymmetricWorkers == Permutations({s1, s2, s3}) \cup Permutations({c1, c2})
                      \cup Permutations({b1, b2})

\* An order nothing has happened to.
Untouched(o) ==
  /\ status[o] = "pending_intent"
  /\ attempt[o] = "none"
  /\ rowLock[o] = None
  /\ \A s \in Sessions : holds[s] # o

\* Bounds of the run: either the plain order o1 and the dry-run order o2 move, with all
\* workers, or o3 and o4 do, which look alike at the broker, with two workers at once, of
\* which at most one a clerk; and when an order of somebody else's is like them too, one
\* session, and o4 not before o3 is linked.
FewAtOnce ==
  LET outside == \E b \in BrokerIds : book[b].owner = Outside
      sessions == Cardinality({s \in Sessions : pc[s] # "idle"})
      clerks == Cardinality({c \in Clerks : phase[c] # "idle"}) IN
  \/ Untouched(o3) /\ Untouched(o4) /\ ~outside
  \/ /\ Untouched(o1) /\ Untouched(o2)
     /\ sessions + clerks <= 2
     /\ clerks <= 1
     /\ outside => sessions <= 1 /\ (Untouched(o4) \/ brokerId[o3] # None)
     /\ \A b \in BrokerIds : book[b].fill = 0
===========================================================================
