-------------------------- MODULE PaperOperations --------------------------
(***************************************************************************)
(* Paper trading: the local ledger (app/execution/paper_engine.py), its    *)
(* fill policy (paper_policy.py), and the commands with an operation       *)
(* identity a client may repeat (paper_operations.py).                     *)
(*                                                                         *)
(* Each request is one database transaction of one user on one ticker.     *)
(* Requests meet at three row locks: the user's, the paper account's, and  *)
(* a shared lock on the settings row, which a halt must wait for.  A       *)
(* request may fail or die anywhere, and its commit may succeed without    *)
(* anyone being told.                                                      *)
(***************************************************************************)
EXTENDS Integers, FiniteSets, Functions, FiniteSetsExt

CONSTANTS
  Requests, Operations,
  Bodies,         \* the commands: [side, quantity, profile]
  StartingCash,
  Quote, Spread,  \* the price, and what a fill adds to or takes from it
  MinFee, FeePart,\* the fee: at least MinFee, else one part in FeePart of the value
  MaxQuantity,
  Limits,         \* whether the other risk limits may refuse: a subset of BOOLEAN
  None

ASSUME CommandsAreTyped ==
  Bodies \subseteq [side : {"buy", "sell"}, quantity : Int,
                    profile : {"standard", "partial_fill", "no_liquidity"}]

ASSUME NoneIsNothing ==
  /\ None \notin Requests
  /\ None \notin [body : Bodies, outcome : {"order_recorded", "blocked"},
                  cash : Int, held : Int]

ASSUME RequestsAreFinite == IsFiniteSet(Requests)

ASSUME Prices == /\ Quote \in Nat /\ Spread \in Nat /\ Spread <= Quote
                 /\ MinFee \in Nat /\ FeePart \in Nat \ {0} /\ StartingCash \in Nat

VARIABLES
  cash, held,   \* the latest account and position snapshots
  orders,       \* the paper order each request has recorded
  stranded,     \* what each order recorded when its fill was staged and its effects refused
  receipt,      \* paper_operation_receipts
  conns,        \* the paper connections created, by the request that did
  evidence,     \* the requests whose refusal is in the durable audit
  halted,       \* the saved kill switch
  userLock, accountLock, sharing,   \* who holds each row lock
  ask, pc, staged,                  \* each request: what it asks, where it is, what it has
                                    \* written and not committed
  told                              \* what it has been answered

saved == <<cash, held, orders, stranded, receipt, conns, evidence>>
locks == <<userLock, accountLock, sharing>>
vars == <<saved, halted, locks, ask, pc, staged, told>>

-----------------------------------------------------------------------------
(* The fill policy. *)

\* Half of a quantity, to the nearest unit and to the even one of two.
Half(q) == IF q % 2 = 0 THEN q \div 2
           ELSE IF (q \div 2) % 2 = 0 THEN q \div 2 ELSE q \div 2 + 1

FillPrice(side) == IF side = "buy" THEN Quote + Spread ELSE Quote - Spread

Fee(gross) == Max({MinFee, gross \div FeePart})

Rejected == [outcome |-> "rejected", filled |-> 0, gross |-> 0, fee |-> 0]

EvaluatePaperFill(side, quantity, profile) ==
  LET filled == IF profile = "partial_fill" THEN Half(quantity) ELSE quantity
      gross == FillPrice(side) * filled
  IN IF profile = "no_liquidity" \/ quantity <= 0 \/ Quote = 0 \/ filled <= 0
       THEN Rejected
       ELSE [outcome |-> IF profile = "partial_fill" THEN "partially_filled" ELSE "filled",
             filled |-> filled, gross |-> gross, fee |-> Fee(gross)]

CashDelta(side, d) == IF side = "buy" THEN -(d.gross + d.fee) ELSE d.gross - d.fee
HeldDelta(side, d) == IF side = "buy" THEN d.filled ELSE -d.filled

\* The effects boundary refuses a sell of more than is held, and negative cash.
EffectsAllowed(side, d) ==
  /\ side = "sell" => d.filled <= held
  /\ cash + CashDelta(side, d) >= 0

-----------------------------------------------------------------------------
NoOrder == [status |-> "absent", side |-> "buy", quantity |-> 0, filled |-> 0, cash |-> 0]

NoFill == [filled |-> 0, cash |-> 0]

Nothing == [what |-> "nothing", order |-> NoOrder, at |-> None, cash |-> 0, held |-> 0,
            connection |-> FALSE]

NoAsk == [kind |-> "none", op |-> None, body |-> None, order |-> None, quantity |-> 0]

Silent == [says |-> "nothing", op |-> None, body |-> None]

TypeOK ==
  /\ cash \in Int /\ held \in Int
  /\ \A r \in Requests :
       /\ orders[r].status \in {"absent", "filled", "partially_filled", "rejected"}
       /\ orders[r].filled \in 0..orders[r].quantity
  /\ \A op \in Operations :
       receipt[op] # None => receipt[op].outcome \in {"order_recorded", "blocked"}
  /\ stranded \in [Requests -> [filled : Nat, cash : Int]]
  /\ conns \subseteq Requests
  /\ evidence \subseteq Requests
  /\ halted \in BOOLEAN
  /\ userLock \in Requests \cup {None}
  /\ accountLock \in Requests \cup {None}
  /\ sharing \subseteq Requests
  /\ pc \in [Requests -> {"new", "user", "receipt", "account", "mutex", "execute",
                          "staged", "asking", "lookup", "ended"}]

Init ==
  /\ cash = StartingCash
  /\ held = 0
  /\ orders = [r \in Requests |-> NoOrder]
  /\ receipt = [op \in Operations |-> None]
  /\ stranded = [r \in Requests |-> NoFill]
  /\ conns = {}
  /\ evidence = {}
  /\ halted = FALSE
  /\ userLock = None
  /\ accountLock = None
  /\ sharing = {}
  /\ ask = [r \in Requests |-> NoAsk]
  /\ pc = [r \in Requests |-> "new"]
  /\ staged = [r \in Requests |-> Nothing]
  /\ told = [r \in Requests |-> Silent]

Go(r, step) == pc' = [pc EXCEPT ![r] = step]

Stage(r, s) ==
  staged' = [staged EXCEPT ![r] = [s EXCEPT !.connection = staged[r].connection]]

\* The transaction ends: its locks are released and what it had staged is gone.
EndTransaction(r) ==
  /\ userLock' = IF userLock = r THEN None ELSE userLock
  /\ accountLock' = IF accountLock = r THEN None ELSE accountLock
  /\ sharing' = sharing \ {r}
  /\ staged' = [staged EXCEPT ![r] = Nothing]

Say(r, says, op, body) ==
  told' = [told EXCEPT ![r] = [says |-> says, op |-> op, body |-> body]]

SayReceipt(r, op) == Say(r, receipt[op].outcome, op, receipt[op].body)

SayUnconfirmed(r) == Say(r, "unconfirmed", None, None)

-----------------------------------------------------------------------------
(* A request arrives. *)

Begin(r) ==
  /\ pc[r] = "new"
  /\ \/ \E op \in Operations, b \in Bodies :
          /\ ask' = [ask EXCEPT ![r] =
               [NoAsk EXCEPT !.kind = "identified", !.op = op, !.body = b]]
          /\ Go(r, "user")
     \/ \E b \in Bodies :
          /\ ask' = [ask EXCEPT ![r] = [NoAsk EXCEPT !.kind = "plain", !.body = b]]
          /\ Go(r, "account")
     \/ \E o \in Requests : \E n \in 1..orders[o].quantity - orders[o].filled :
          /\ orders[o].status = "partially_filled"
          /\ ask' = [ask EXCEPT ![r] =
               [NoAsk EXCEPT !.kind = "followup", !.order = o, !.quantity = n]]
          /\ Go(r, "account")
     \/ \E op \in Operations :
          /\ ask' = [ask EXCEPT ![r] = [NoAsk EXCEPT !.kind = "lookup", !.op = op]]
          /\ Go(r, "lookup")
  /\ UNCHANGED <<saved, halted, locks, staged, told>>

\* The user's row, for an identified command and for the first use of the account.
TakeUser(r) ==
  /\ pc[r] \in {"user", "mutex"}
  /\ userLock = None
  /\ userLock' = r
  /\ Go(r, IF pc[r] = "user" THEN "receipt" ELSE "account")
  /\ UNCHANGED <<saved, halted, accountLock, sharing, ask, staged, told>>

AnswerFromReceipt(r, op) ==
  IF receipt[op].body = ask[r].body
    THEN SayReceipt(r, op)
    ELSE Say(r, "conflict", op, ask[r].body)

ReadReceipt(r) ==
  /\ pc[r] = "receipt"
  /\ \/ /\ receipt[ask[r].op] = None
        /\ Go(r, "account")
        /\ UNCHANGED <<locks, staged, told>>
     \/ /\ receipt[ask[r].op] # None
        /\ AnswerFromReceipt(r, ask[r].op)
        /\ EndTransaction(r)
        /\ Go(r, "ended")
  /\ UNCHANGED <<saved, halted, ask>>

\* Mutant: the connection is created without the user's row being held.
CreateUnguarded(r) ==
  /\ pc[r] = "account"
  /\ conns = {}
  /\ staged' = [staged EXCEPT ![r].connection = TRUE]
  /\ accountLock' = r
  /\ Go(r, "execute")
  /\ UNCHANGED <<saved, halted, userLock, sharing, ask, told>>

\* No connection yet: it is created by whoever holds the user's row, looking twice.
CreateConnection(r) ==
  /\ pc[r] = "account"
  /\ conns = {}
  /\ IF userLock = r
       THEN /\ staged' = [staged EXCEPT ![r].connection = TRUE]
            /\ accountLock' = r
            /\ Go(r, "execute")
       ELSE /\ Go(r, "mutex")
            /\ UNCHANGED <<staged, accountLock>>
  /\ UNCHANGED <<saved, halted, userLock, sharing, ask, told>>

\* Mutant: the ledger is read and written under no lock.
ReadAccount(r) ==
  /\ pc[r] = "account"
  /\ conns # {}
  /\ Go(r, "execute")
  /\ UNCHANGED <<saved, halted, locks, ask, staged, told>>

LockPaperConnection(r) ==
  /\ pc[r] = "account"
  /\ conns # {}
  /\ accountLock = None
  /\ accountLock' = r
  /\ Go(r, "execute")
  /\ UNCHANGED <<saved, halted, userLock, sharing, ask, staged, told>>

-----------------------------------------------------------------------------
(* A command is executed on what the account's lock protects. *)

\* Mutant: the settings row is read and not locked.
ShareNothing(r) == UNCHANGED sharing

\* Identified commands and follow-up fills hold the settings row until they commit.
ShareSettings(r) ==
  sharing' = IF ask[r].kind = "plain" THEN sharing ELSE sharing \cup {r}

\* quantity * risk_price > available cash, with the risk price spread over what fills.
CashGuardBlocks(b, d) ==
  b.side = "buy" /\ IF d.filled = 0 THEN b.quantity * Quote > cash
                    ELSE b.quantity * (d.gross + d.fee) > cash * d.filled

DuplicateOrder(side) ==
  \E o \in Requests : orders[o].status = "partially_filled" /\ orders[o].side = side

RiskRefuses(b, d) == halted \/ CashGuardBlocks(b, d) \/ DuplicateOrder(b.side)

BusinessRefusal(b, d, limit) ==
  \/ b.quantity <= 0 \/ b.quantity > MaxQuantity
  \/ b.side = "sell" /\ b.quantity > held
  \/ RiskRefuses(b, d)
  \/ limit

NewOrder(b, d) ==
  [status |-> d.outcome, side |-> b.side, quantity |-> b.quantity, filled |-> d.filled,
   cash |-> CashDelta(b.side, d)]

WithEffects(r, b, d) ==
  [Nothing EXCEPT !.what = "order", !.order = NewOrder(b, d), !.at = r,
     !.cash = cash + CashDelta(b.side, d), !.held = held + HeldDelta(b.side, d)]

Refusal(r) == [Nothing EXCEPT !.what = "refusal", !.at = r, !.cash = cash, !.held = held]

\* The order row is staged before its effects are refused.
WithoutEffects(r, b, d) ==
  [Nothing EXCEPT !.what = "stranded", !.order = NewOrder(b, d), !.at = r,
     !.cash = cash, !.held = held]

Execute(r) ==
  /\ pc[r] = "execute"
  /\ ask[r].kind \in {"identified", "plain"}
  /\ LET b == ask[r].body
         d == EvaluatePaperFill(b.side, b.quantity, b.profile)
     IN \E limit \in Limits :
          \/ /\ BusinessRefusal(b, d, limit)
             /\ Stage(r, Refusal(r))
             /\ Go(r, "staged")
             /\ ShareSettings(r)
             /\ UNCHANGED <<userLock, accountLock>>
          \/ /\ ~BusinessRefusal(b, d, limit)
             /\ d.outcome = "rejected" \/ EffectsAllowed(b.side, d)
             /\ Stage(r, WithEffects(r, b, d))
             /\ Go(r, "staged")
             /\ ShareSettings(r)
             /\ UNCHANGED <<userLock, accountLock>>
          \/ /\ ~BusinessRefusal(b, d, limit)
             /\ d.outcome # "rejected" /\ ~EffectsAllowed(b.side, d)
             /\ IF ask[r].kind = "plain"
                  THEN /\ Stage(r, WithoutEffects(r, b, d))
                       /\ Go(r, "staged")
                       /\ UNCHANGED locks
                  ELSE /\ EndTransaction(r)
                       /\ Go(r, "asking")
  /\ UNCHANGED <<saved, halted, ask, told>>

\* Mutant: the refusal is answered whether or not its evidence was acknowledged.
PersistIfPossible(r) ==
  /\ evidence' \in {evidence, evidence \cup {r}}
  /\ Say(r, "refused", None, None)

\* The refusal is written on a connection of its own; whether it arrived may stay open.
PersistRejection(r) ==
  \/ /\ evidence' = evidence \cup {r}
     /\ Say(r, "refused", None, None)
  \/ /\ evidence' \in {evidence, evidence \cup {r}}
     /\ Say(r, "audit unavailable", None, None)

\* Mutant: the remainder is taken as it was when the fill was asked for.
FitsAnyway(r) == orders[ask[r].order].status = "partially_filled"

FitsRemainder(r) ==
  LET o == orders[ask[r].order] IN
  o.status = "partially_filled" /\ ask[r].quantity <= o.quantity - o.filled

\* A follow-up fill of the remainder of a partial order.
FillPartialOrder(r) ==
  LET o == orders[ask[r].order]
      d == EvaluatePaperFill(o.side, ask[r].quantity, "standard")
      fits == FitsRemainder(r)
      tooDear == o.side = "buy" /\ d.gross + d.fee > cash
      tooMuch == o.side = "sell" /\ d.filled > held
      durable == tooDear \/ halted \/ tooMuch
      filled == o.filled + d.filled
      after == [o EXCEPT !.filled = filled, !.cash = @ + CashDelta(o.side, d),
                         !.status = IF filled = o.quantity THEN "filled" ELSE @]
  IN
  /\ pc[r] = "execute"
  /\ ask[r].kind = "followup"
  /\ \/ /\ fits /\ ~durable /\ EffectsAllowed(o.side, d)
        /\ Stage(r, [Nothing EXCEPT !.what = "order", !.order = after, !.at = ask[r].order,
                       !.cash = cash + CashDelta(o.side, d),
                       !.held = held + HeldDelta(o.side, d)])
        /\ Go(r, "staged")
        /\ ShareSettings(r)
        /\ UNCHANGED <<userLock, accountLock, evidence, told>>
     \/ /\ fits /\ durable
        /\ PersistRejection(r)
        /\ EndTransaction(r)
        /\ Go(r, "ended")
     \/ /\ ~fits \/ (~durable /\ ~EffectsAllowed(o.side, d))
        /\ Say(r, "failed", None, None)
        /\ EndTransaction(r)
        /\ Go(r, "ended")
        /\ UNCHANGED evidence
  /\ UNCHANGED <<cash, held, orders, stranded, receipt, conns, halted, ask>>

ReceiptOf(r) ==
  [body |-> ask[r].body,
   outcome |-> IF staged[r].what = "refusal" THEN "blocked" ELSE "order_recorded",
   cash |-> staged[r].cash - cash, held |-> staged[r].held - held]

RecordReceipt(r) ==
  IF ask[r].kind = "identified"
    THEN receipt' = [receipt EXCEPT ![ask[r].op] = ReceiptOf(r)]
    ELSE UNCHANGED receipt

\* One commit for the order, its effects and the receipt; the identity is unique.
Commit(r) ==
  /\ pc[r] = "staged"
  /\ ask[r].kind = "identified" => receipt[ask[r].op] = None
  /\ cash' = staged[r].cash
  /\ held' = staged[r].held
  /\ orders' = IF staged[r].order = NoOrder THEN orders
               ELSE [orders EXCEPT ![staged[r].at] = staged[r].order]
  /\ stranded' = IF staged[r].what # "stranded" THEN stranded
                 ELSE [stranded EXCEPT ![r] = [filled |-> staged[r].order.filled,
                                               cash |-> staged[r].order.cash]]
  /\ RecordReceipt(r)
  /\ conns' = IF staged[r].connection THEN conns \cup {r} ELSE conns
  /\ EndTransaction(r)
  /\ \/ /\ ask[r].kind = "identified"
        /\ Say(r, ReceiptOf(r).outcome, ask[r].op, ask[r].body)
        /\ Go(r, "ended")
     \/ /\ ask[r].kind # "identified"
        /\ Say(r, IF staged[r].what = "order" THEN "done" ELSE "refused", None, None)
        /\ Go(r, "ended")
     \* The acknowledgement is lost.
     \/ /\ UNCHANGED told
        /\ Go(r, IF ask[r].kind = "identified" THEN "asking" ELSE "ended")
  /\ UNCHANGED <<evidence, halted, ask>>

-----------------------------------------------------------------------------
(* Failures. *)

Working == {"user", "receipt", "account", "mutex", "execute", "staged"}

\* A lock, a statement or the commit fails or times out: the work is discarded, and an
\* identified command looks for a receipt and never executes again.
Fail(r) ==
  /\ pc[r] \in Working
  /\ EndTransaction(r)
  /\ Go(r, IF ask[r].kind = "identified" THEN "asking" ELSE "ended")
  /\ UNCHANGED <<saved, halted, ask, told>>

\* Mutant: a command without a receipt is said to have been blocked.
AskAndAssume(r) ==
  /\ pc[r] = "asking"
  /\ IF receipt[ask[r].op] = None THEN Say(r, "blocked", ask[r].op, ask[r].body)
     ELSE AnswerFromReceipt(r, ask[r].op)
  /\ Go(r, "ended")
  /\ UNCHANGED <<saved, halted, locks, ask, staged>>

\* A fresh connection reads the receipt, or fails to.
Reconcile(r) ==
  /\ pc[r] = "asking"
  /\ \/ SayUnconfirmed(r)
     \/ /\ receipt[ask[r].op] # None
        /\ AnswerFromReceipt(r, ask[r].op)
  /\ Go(r, "ended")
  /\ UNCHANGED <<saved, halted, locks, ask, staged>>

Lookup(r) ==
  /\ pc[r] = "lookup"
  /\ IF receipt[ask[r].op] = None THEN SayUnconfirmed(r) ELSE SayReceipt(r, ask[r].op)
  /\ Go(r, "ended")
  /\ UNCHANGED <<saved, halted, locks, ask, staged>>

\* The request is cancelled or its process dies; nobody is told.
Die(r) ==
  /\ pc[r] \in Working \cup {"asking"}
  /\ EndTransaction(r)
  /\ Go(r, "ended")
  /\ UNCHANGED <<saved, halted, ask, told>>

\* The kill switch is saved: the update of the settings row waits for those who share it.
Switch ==
  /\ sharing = {}
  /\ halted' = ~halted
  /\ UNCHANGED <<saved, locks, ask, pc, staged, told>>

Next ==
  \/ Switch
  \/ \E r \in Requests :
       \/ Begin(r) \/ TakeUser(r) \/ ReadReceipt(r)
       \/ CreateConnection(r) \/ LockPaperConnection(r)
       \/ Execute(r) \/ FillPartialOrder(r) \/ Commit(r)
       \/ Fail(r) \/ Reconcile(r) \/ Lookup(r) \/ Die(r)

Spec == Init /\ [][Next]_vars

-----------------------------------------------------------------------------
(* Properties. *)

\* What identified commands and those who ask for a receipt have been told.
Answered ==
  [r \in Requests |-> IF ask[r].kind \in {"identified", "lookup"} THEN told[r] ELSE Silent]

\* A user never has two paper accounts, however the first requests overlap: two would split
\* the ledger (_paper_connection).
OneAccount == Cardinality(conns) <= 1

\* The account's snapshots are the sum of the fills on the orders, less those whose effects
\* the account refused when they were staged: no request, however it overlaps with another
\* or fails, loses or repeats a fill of the ledger (_apply_fill_effects under the account's
\* row lock).
Cleared(r) == orders[r].cash - stranded[r].cash
Moved(r) == LET n == orders[r].filled - stranded[r].filled
            IN IF orders[r].side = "buy" THEN n ELSE -n

LedgerAddsUp ==
  /\ TypeOK
  /\ OneAccount
  /\ cash = StartingCash + SumFunction([r \in Requests |-> Cleared(r)])
  /\ held = SumFunction([r \in Requests |-> Moved(r)])

\* A follow-up fill that is answered "refused" has its evidence in the audit, although the
\* transaction that refused it is rolled back (persist_paper_rejection).
RefusalIsOnRecord ==
  \A r \in Requests : ask[r].kind = "followup" /\ told[r].says = "refused" => r \in evidence

\* Once a halt is saved, no identified command and no follow-up fill changes the account:
\* an accepted fill precedes the halt (the shared lock on the settings row).
HaltStopsFills ==
  [][\A r \in Requests :
       /\ pc[r] = "staged" /\ pc'[r] # "staged"
       /\ ask[r].kind # "plain"
       /\ <<cash, held>>' # <<cash, held>>
       => ~halted]_vars

\* Identified commands take effect once, with the outcome their receipt states, and
\* nobody is told another (PaperOperationService).
Once == INSTANCE PaperOnce WITH told <- Answered
TakesEffectOnce == Once!Spec
=============================================================================
