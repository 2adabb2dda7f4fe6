--------------------------- MODULE MCLiveDispatch ---------------------------
(***************************************************************************)
(* Two administrators with a live account each, one credential test and    *)
(* one order in flight, one review beside the broker test and the unlock.  *)
(***************************************************************************)
EXTENDS LiveDispatch

(* The second administrator only gets in the way: while he has an account,  *)
(* no two of a credential test, an order and his own evidence are under way *)
(* at once.                                                                 *)
CONSTANT Second

FewAtOnce ==
    conn[Second].revision # None =>
        /\ \A c \in Requests, o \in Orders : requests[c] = NoRequest \/ orders[o] = NoOrder
        /\ \A c \in Requests : requests[c] = NoRequest \/ head.binding # conn[Second].revision
        /\ \A o \in Orders : orders[o] = NoOrder \/ orders[o].owner # Second

(* Numbers that name revisions, tests and snapshots are only ever compared, *)
(* so states that agree on every comparison are the same state.             *)
Compared ==
    <<settings, withdrawn, head.ages, UnlockStands,
      [w \in Owners |-> [conn[w] EXCEPT
          !.revision = head.binding = @,
          !.test.id = {f \in DOMAIN head.tests : head.tests[f] = conn[w].test.id},
          !.test.binding = @ = conn[w].revision,
          !.test.used = @ = conn[w].revision]],
      [c \in Requests |-> IF requests[c] = NoRequest THEN NoRequest
          ELSE [requests[c] EXCEPT !.expected = Unchanged(c)]],
      [o \in Orders |-> IF orders[o].pc = "none" THEN NoOrder
          ELSE [orders[o] EXCEPT
              !.bound = <<@ = conn[orders[o].owner].revision, @ = head.binding>>,
              !.authorization.head = @ = head.id,
              !.authorization.test = <<@ = conn[orders[o].owner].test.id, @ = orders[o].seen.id>>,
              !.seen = [ok |-> @.ok, age |-> @.age, same |-> @.binding = orders[o].bound]]]>>
=============================================================================
