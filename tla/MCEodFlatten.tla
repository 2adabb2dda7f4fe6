---------------------------- MODULE MCEodFlatten ----------------------------
(* A small instance of EodFlatten. *)
EXTENDS EodFlatten, TLC

CONSTANTS s1, s2, w1, w2, none

\* The second strategy takes part with one share, on the first day, beside one share of the
\* first strategy and while no workers overlap; the exits are then its own.
SecondIsBrief ==
  IF bought[s2] > 0
    THEN today = 1 /\ bought[s1] <= 1 /\ bought[s2] <= 1 /\ disturbed # Strategies
           /\ exiting[s1] = 0 /\ exited[s1] = 0
    ELSE \A w \in Workers : s2 \notin todo[w] /\ cur[w] # s2

\* Exits matter to what is said of figures that nobody could change, so there are none once
\* workers have overlapped, and there is one sell of up to two shares before.
ExitsAreFew ==
  \A s \in Strategies :
    exiting[s] + exited[s] <= IF disturbed = Strategies THEN 0 ELSE 2

FewBehaviours == SecondIsBrief /\ ExitsAreFew

SymmetricWorkers == Permutations({w1, w2})
=============================================================================
