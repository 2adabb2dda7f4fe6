------------------------------ MODULE PaperOnce ------------------------------
(***************************************************************************)
(* What the identified paper commands promise their callers: a command     *)
(* with an operation identity takes effect at most once, with the one      *)
(* outcome its receipt states; the receipt never changes; and whoever is   *)
(* told an outcome is told the receipt's.  The account's cash and holding  *)
(* also change through orders without an identity, and never go below      *)
(* nothing.                                                                *)
(***************************************************************************)
EXTENDS Integers

CONSTANTS
  Requests, Operations,
  StartingCash,
  None

VARIABLES
  receipt,    \* what is recorded of each operation, None before
  cash, held, \* the paper account
  told        \* what each request has been answered

vars == <<receipt, cash, held, told>>

Silent == [says |-> "nothing", op |-> None, body |-> None]

Init ==
  /\ receipt = [op \in Operations |-> None]
  /\ cash = StartingCash
  /\ held = 0
  /\ told = [r \in Requests |-> Silent]

MovesLedger == cash' >= 0 /\ held' >= 0

Tell(r, says, op, body) ==
  /\ told[r] = Silent
  /\ told' = [told EXCEPT ![r] = [says |-> says, op |-> op, body |-> body]]

TellNobody == UNCHANGED told

\* The operation takes effect, with a receipt of what it did to the account, and the
\* request that brought it may be answered at once.
Record(op) ==
  /\ receipt[op] = None
  /\ MovesLedger
  /\ \E r \in Requests :
       LET new == receipt'[op] IN
       /\ new # None
       /\ receipt' = [receipt EXCEPT ![op] = new]
       /\ new.cash = cash' - cash /\ new.held = held' - held
       /\ new.outcome = "blocked" => new.cash = 0 /\ new.held = 0
       /\ TellNobody \/ Tell(r, new.outcome, op, new.body)

\* A later answer about an operation is its receipt's, and only to the same command or to
\* one who asks for the receipt.
Answer(op) ==
  /\ receipt[op] # None
  /\ \E r \in Requests : Tell(r, receipt[op].outcome, op, receipt[op].body)
  /\ UNCHANGED <<receipt, cash, held>>

\* The same identity with other inputs is a conflict.
Conflict(op) ==
  /\ receipt[op] # None
  /\ \E r \in Requests :
       /\ told'[r].body # receipt[op].body
       /\ Tell(r, "conflict", op, told'[r].body)
  /\ UNCHANGED <<receipt, cash, held>>

\* "Unconfirmed" commits to nothing.
Doubt == 
  /\ \E r \in Requests : Tell(r, "unconfirmed", None, None)
  /\ UNCHANGED <<receipt, cash, held>>

Unidentified ==
  /\ MovesLedger
  /\ UNCHANGED <<receipt, told>>

Next ==
  \/ \E op \in Operations : Record(op) \/ Answer(op) \/ Conflict(op)
  \/ Doubt
  \/ Unidentified

Spec == Init /\ [][Next]_vars
=============================================================================
