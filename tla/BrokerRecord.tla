---------------------------- MODULE BrokerRecord ----------------------------
(***************************************************************************)
(* What the broker says of one order, and what may be believed of it       *)
(* (app/execution/acknowledgement.py, app/execution/broker_record.py and   *)
(* the reads of ExecutionEngine._read_broker_record).                      *)
(*                                                                         *)
(* The broker is external.  It fills the order in parts, ends it, and      *)
(* moves it from its open orders to its history at a time of its own.      *)
(* What it writes may leave facts out, be one record for the order or one  *)
(* per fill, and be on a later page; where it uses ids again, a record of  *)
(* another order carries this one's.  The reader asks for the open order,  *)
(* then for the newest records of the account, then for those of the       *)
(* instrument.  A number is a whole number; zero also stands for a price   *)
(* that cannot be used.                                                    *)
(***************************************************************************)
EXTENDS Integers, FiniteSets, FiniteSetsExt, Sequences

CONSTANTS
  Qty,          \* the ordered quantity, at least one
  Prices,       \* at which the broker fills, none of them zero
  NotStated     \* what a record says nothing of; no number

VARIABLES
  order,        \* at the broker: its status, its fills, and whether its id is used again
  reading,      \* the read that comes next, and what the open-orders answer left out
  verdict,      \* what the last complete reading came to
  ack           \* what the immediate answer to the request came to

vars == <<order, reading, verdict, ack>>

Ended == {"filled", "cancelled", "rejected"}

Filled(fills) == MapThenSumSet(LAMBDA i : fills[i].amount, DOMAIN fills)
Paid(fills) == MapThenSumSet(LAMBDA i : fills[i].amount * fills[i].price, DOMAIN fills)

Untrusted == [kind |-> "untrusted"]
Nothing == [kind |-> "nothing"]
Open == [kind |-> "open"]
Final(status, filled, price) ==
  [kind |-> "final", status |-> status, filled |-> filled, price |-> price]
LacksDetail(status, filled) == [kind |-> "lacks_detail", status |-> status, filled |-> filled]

Init ==
  /\ \E reused \in BOOLEAN : order = [status |-> "working", fills |-> <<>>, reused |-> reused]
  /\ reading = [next |-> "open_orders", incomplete |-> Nothing]
  /\ verdict = Nothing
  /\ ack = Nothing

-----------------------------------------------------------------------------
(* The broker. *)

Fill(amount, price) ==
  /\ order.status = "working"
  /\ Filled(order.fills) + amount <= Qty
  /\ order' = [order EXCEPT
       !.status = IF Filled(order.fills) + amount = Qty THEN "filled" ELSE "working",
       !.fills = Append(@, [amount |-> amount, price |-> price])]
  /\ UNCHANGED <<reading, verdict, ack>>

End(status) ==
  /\ order.status = "working"
  /\ status = "rejected" => order.fills = <<>>
  /\ order' = [order EXCEPT !.status = status]
  /\ UNCHANGED <<reading, verdict, ack>>

\* One record for the order: the average price, if any.  `no` tells records apart.
WholeRecords ==
  LET fills == order.fills
      average == IF fills = <<>> THEN {} ELSE {Paid(fills) \div Filled(fills)} IN
  [no : {0}, about : {"this order", "nothing"}, status : {order.status},
   filled : {Filled(fills), NotStated}, in_fill : {FALSE}, one_fill : {NotStated},
   price : average \cup {0, NotStated}]

\* One record for a fill: its own price, and perhaps its amount and the order's total.
FillRecord(i, says_total, says_amount) ==
  [no |-> i, about |-> "this order", status |-> order.status,
   filled |-> IF says_total THEN Filled(order.fills) ELSE NotStated, in_fill |-> TRUE,
   one_fill |-> IF says_amount THEN order.fills[i].amount ELSE NotStated,
   price |-> order.fills[i].price]

\* A record of another order that carries this one's id, and may not say whose it is.
ForeignRecords ==
  IF order.reused
    THEN [no : {-1}, about : {"nothing", "another order"}, status : Ended, filled : 0..Qty,
          in_fill : {FALSE}, one_fill : {NotStated}, price : Prices]
    ELSE {}

OwnRecords ==
  WholeRecords \cup {FillRecord(i, total, amount) :
                       i \in DOMAIN order.fills, total \in BOOLEAN, amount \in BOOLEAN}

\* The history shows nothing of the order, the order, or some of its fills.
HistoryPages ==
  LET own == {{record} : record \in WholeRecords} \cup
             {{FillRecord(i, total, amount) : i \in shown} :
                shown \in SUBSET DOMAIN order.fills, total \in BOOLEAN, amount \in BOOLEAN} IN
  own \cup {{}} \cup {page \cup {foreign} : page \in own, foreign \in ForeignRecords}

-----------------------------------------------------------------------------
(* What is believed of one record, and of several. *)

\* require_same_order, and a fill that gives a price but not its amount.
_read(record) ==
  /\ record.about # "another order"
  /\ ~ (record.in_fill /\ record.one_fill = NotStated)

AddsUp(parts, total) ==
  MapThenSumSet(LAMBDA part : part.one_fill, parts) = total

\* The price of several fills is their average; a price nobody can use is no price.
PriceOf(parts, total) ==
  CASE Cardinality(parts) = 1 -> (CHOOSE part \in parts : TRUE).price
    [] total = 0 -> NotStated
    [] OTHER -> MapThenSumSet(LAMBDA part : part.one_fill * part.price, parts) \div total

\* A mutant of _fill: a fill stands for all of the order.
_fillIsTotal(parts, total) ==
  Cardinality(parts) = 1 \/
    /\ total # NotStated
    /\ \A part \in parts : NotStated \notin {part.one_fill, part.price}
    /\ \A part \in parts : part.one_fill > 0 => part.price > 0
    /\ AddsUp(parts, total)

\* One fill is never taken for the total, and several records are taken for an order's
\* fills only when they add up to the total that the broker itself states.
_fill(parts, total) ==
  IF Cardinality(parts) = 1
    THEN \A part \in parts : NotStated \in {total, part.one_fill} \/ part.one_fill = total
    ELSE /\ total # NotStated
         /\ \A part \in parts : NotStated \notin {part.one_fill, part.price}
         /\ \A part \in parts : part.one_fill > 0 => part.price > 0
         /\ AddsUp(parts, total)

_judge(parts, from_history) ==
  LET statuses == {part.status : part \in parts}
      totals == {part.filled : part \in parts} \ {NotStated}
      status == CHOOSE s \in statuses : TRUE
      total == IF totals = {} THEN NotStated ELSE CHOOSE t \in totals : TRUE
      price == PriceOf(parts, total) IN
  CASE \E part \in parts : ~ _read(part) -> Untrusted
    [] Cardinality(statuses) # 1 -> Untrusted
    [] status \notin Ended -> Open
    [] Cardinality(totals) > 1 \/ ~ _fill(parts, total) -> Untrusted
    [] total = NotStated ->
         IF from_history THEN Untrusted ELSE LacksDetail(status, NotStated)
    [] total > Qty \/ (status = "filled" /\ total < Qty) -> Untrusted
    [] total = 0 -> Final(status, 0, NotStated)
    [] price = NotStated -> IF from_history THEN Untrusted ELSE LacksDetail(status, total)
    [] OTHER -> IF price = 0 THEN Untrusted ELSE Final(status, total, price)

require_reads_agree(incomplete, record) ==
  incomplete # Nothing =>
    /\ record.status = incomplete.status
    /\ incomplete.filled \in {NotStated, record.filled}

interpret_history(page, incomplete) ==
  LET record == _judge(page, TRUE) IN
  IF record.kind = "final" /\ require_reads_agree(incomplete, record) THEN record ELSE Untrusted

\* A final state in the answer to the request itself.
interpret_acknowledgement(answer) ==
  CASE answer.status = "working" -> Open
    [] answer.status = "filled" ->
         IF answer.filled # Qty \/ answer.price \in {0, NotStated}
           THEN Untrusted ELSE Final("filled", Qty, answer.price)
    [] OTHER ->
         IF answer.filled \in {0, NotStated} THEN Final(answer.status, 0, NotStated) ELSE Untrusted

-----------------------------------------------------------------------------
(* The program. *)

\* The broker answers at once, and leaves out no amount but zero.
Acknowledge(answer) ==
  /\ ack = Nothing
  /\ answer.status \in {"cancelled", "rejected"} /\ answer.filled = NotStated => order.fills = <<>>
  /\ ack' = interpret_acknowledgement(answer)
  /\ UNCHANGED <<order, reading, verdict>>

Conclude(result) ==
  /\ verdict' = result
  /\ reading' = [reading EXCEPT !.next = "open_orders"]
  /\ UNCHANGED <<order, ack>>

Continue(next, incomplete) ==
  /\ reading' = [next |-> next, incomplete |-> incomplete]
  /\ verdict' = Nothing
  /\ UNCHANGED <<order, ack>>

\* A settled order is not read again.
AskOpenOrders ==
  /\ reading.next = "open_orders" /\ verdict.kind # "final"
  /\ \/ Continue("account", Nothing)          \* there is no such order
     \/ \E answer \in OwnRecords :
          LET read == _judge({answer}, FALSE) IN
          IF read.kind = "lacks_detail"
            THEN Continue("account", read)
            ELSE /\ verdict' = read
                 /\ reading' = [next |-> "open_orders", incomplete |-> Nothing]
                 /\ UNCHANGED <<order, ack>>

\* The instrument's own history is asked for when the account's has older records.
AskHistory ==
  /\ reading.next \in {"account", "instrument"}
  /\ \E page \in HistoryPages :
       \/ page # {} /\ Conclude(interpret_history(page, reading.incomplete))
       \/ /\ page = {} /\ reading.next = "account"
          /\ Continue("instrument", reading.incomplete)
       \/ page = {} /\ Conclude(IF reading.incomplete = Nothing THEN Nothing ELSE Untrusted)

Next ==
  \/ \E amount \in 1..Qty, price \in Prices : Fill(amount, price)
  \/ \E status \in {"cancelled", "rejected"} : End(status)
  \/ \E answer \in WholeRecords : Acknowledge(answer)
  \/ AskOpenOrders
  \/ AskHistory

Spec == Init /\ [][Next]_vars

-----------------------------------------------------------------------------

True(record) ==
  record.kind = "final" =>
    /\ record.status = order.status
    /\ record.filled = Filled(order.fills)
    /\ record.filled > 0 => record.price * record.filled = Paid(order.fills)

(* A final state that is accepted, from the answer to the request or from  *)
(* any of the reads, is what became of the order: its status, all that was *)
(* filled, and what was paid for it.  Where the broker uses ids again it   *)
(* at least never contradicts what the open-orders answer did state.       *)
RecordsAreTrue ==
  /\ True(ack)
  /\ order.reused \/ True(verdict)
  /\ verdict.kind = "final" => require_reads_agree(reading.incomplete, verdict)
=============================================================================
