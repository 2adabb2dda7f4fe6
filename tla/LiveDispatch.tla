---------------------------- MODULE LiveDispatch ----------------------------
(***************************************************************************)
(* The permission to send a real order, from the evidence an administrator *)
(* records to the moment the request leaves                                *)
(* (services/live_account.py, live_evidence.py, live_readiness.py,         *)
(* live_dispatch.py, api/v1/routes/broker.py, broker/live_guard.py and the *)
(* live part of ExecutionEngine.submit_order).                             *)
(*                                                                         *)
(* Permission is spread over three rows that different requests change:    *)
(* the owner's connection (its credentials and its last test), the global  *)
(* settings (the kill switch, the unlock flag, the id of the current       *)
(* evidence) and that evidence, an immutable snapshot.  An order is        *)
(* authorized with all of them locked, in the transaction that commits its *)
(* dispatch, and checked again without locks before it is sent and once    *)
(* more after the wait for the broker's rate limit.                        *)
(*                                                                         *)
(* Uuids, and the hash that names a version of the stored credentials, are *)
(* numbers no record still holds.  Times are ages: Expire makes everything *)
(* older.  The server is in live mode, fully configured.                   *)
(***************************************************************************)
EXTENDS Naturals, FiniteSets

CONSTANTS
    Owners,     \* the administrators with a live account
    Orders,     \* the orders in flight at once
    Requests,   \* the credential tests in flight at once
    Keys,       \* API credentials an administrator may submit
    Reviews,    \* record_demo_validation, record_telegram_test and
                \* record_kill_switch_test: reviews that need nothing more
    MaxAge      \* the age up to which evidence is fresh

ASSUME MaxAgeIsANumber == MaxAge \in Nat
ASSUME RowsAreFinite == /\ IsFiniteSet(Owners) /\ IsFiniteSet(Orders)
                        /\ IsFiniteSet(Requests) /\ IsFiniteSet(Reviews)

VARIABLES
    conn,       \* each owner's row of broker_connections
    settings,   \* the row of app_settings: kill switch and unlock flag
    head,       \* the evidence app_settings points to
    requests,   \* the connects and tests waiting for the broker
    orders,     \* the orders on their way to the broker
    withdrawn   \* history: what was withdrawn after an order's dispatch and
                \* before its last check read the row concerned

vars == <<conn, settings, head, requests, orders, withdrawn>>

None == 0
BrokerTest == "record_broker_test"
Unlock == "unlock_live"
FIELDS == Reviews \union {BrokerTest, Unlock}
Tested == {BrokerTest, Unlock}

Unused(S) == CHOOSE i \in 1 .. Cardinality(S) + 1 : i \notin S

(***************************************************************************)
(* The rows.                                                               *)
(***************************************************************************)
Age == 0 .. MaxAge + 1
NoTest == [id |-> None, ok |-> FALSE, binding |-> None, used |-> None, age |-> 0]
NoKey == "no key"
NoConnection == [revision |-> None, key |-> NoKey, active |-> FALSE, test |-> NoTest]

(* The empty snapshot: before any evidence, and what lock_live leaves.      *)
NoFunction == [f \in {} |-> None]
Put(F, a, e) == [f \in DOMAIN F \union {a} |-> IF f = a THEN e ELSE F[f]]

Snapshot(id, binding) ==
    [id |-> id, binding |-> binding, ages |-> NoFunction, references |-> NoFunction,
     tests |-> NoFunction, unlocked_on |-> NoFunction]

NoRequest == [kind |-> "none"]
NoOrder == [pc |-> "none"]

(* Orders after the commit of their dispatch and before their last look at  *)
(* the connection, and at the settings.                                     *)
BeforeLastAccountRead == {"dispatched", "checking", "paced"}
BeforeLastControlRead == BeforeLastAccountRead \union {"checking_again"}

RevisionsInUse ==
    {conn[w].revision : w \in Owners}
      \union {conn[w].test.binding : w \in Owners} \union {conn[w].test.used : w \in Owners}
      \union {head.binding}
      \union {requests[c].expected.revision : c \in {d \in Requests : requests[d].kind # "none"}}
      \union {orders[o].bound : o \in {p \in Orders : orders[p].pc # "none"}}

TestsInUse ==
    {conn[w].test.id : w \in Owners} \union {head.tests[f] : f \in DOMAIN head.tests}
      \union {orders[o].authorization.test : o \in {p \in Orders : orders[p].pc # "none"}}

HeadsInUse ==
    {head.id} \union {head.references[f] : f \in DOMAIN head.references}
      \union {head.unlocked_on[f] : f \in DOMAIN head.unlocked_on}
      \union {orders[o].authorization.head : o \in {p \in Orders : orders[p].pc # "none"}}

Init ==
    /\ conn = [w \in Owners |-> NoConnection]
    /\ settings = [kill |-> FALSE, unlocked |-> FALSE]
    /\ head = Snapshot(None, None)
    /\ requests = [c \in Requests |-> NoRequest]
    /\ orders = [o \in Orders |-> NoOrder]
    /\ withdrawn = [o \in Orders |-> {}]

(***************************************************************************)
(* live_evidence.validated_evidence and current_test_valid, and            *)
(* LiveReadinessService.evaluate, for a connection as it was read.         *)
(***************************************************************************)
Fresh(age) == age <= MaxAge

CurrentTestValid(c) ==
    c.test.id # None /\ c.test.ok /\ c.test.binding = c.revision /\ Fresh(c.test.age)

UnlockStands == head.unlocked_on = head.references

validated_evidence(c) ==
    IF c.active /\ head.binding = c.revision
    THEN {f \in DOMAIN head.references :
            /\ f \in Tested => head.tests[f] = c.test.id
            /\ f = Unlock => UnlockStands}
    ELSE {}

FreshEvidence(c) == {f \in validated_evidence(c) : Fresh(head.ages[f])}

EligibleForUnlock(c) ==
    /\ c.active
    /\ CurrentTestValid(c)
    /\ FIELDS \ {Unlock} \subseteq FreshEvidence(c)
    /\ ~settings.kill

ReadyForLive(c) ==
    EligibleForUnlock(c) /\ settings.unlocked /\ Unlock \in FreshEvidence(c)

(***************************************************************************)
(* History: whom a change takes the permission from.                       *)
(***************************************************************************)
Withdraw(what, places, owners) ==
    withdrawn' = [o \in Orders |->
        IF orders[o].pc \in places /\ orders[o].owner \in owners
        THEN withdrawn[o] \union {what} ELSE withdrawn[o]]

WithdrawAccount(w) == Withdraw("account", BeforeLastAccountRead, {w})

(***************************************************************************)
(* POST /broker/connect, POST /broker/test, DELETE /broker/disconnect.     *)
(* Both tests read the connection, ask the broker with no transaction's    *)
(* protection, then lock the row and compare.                              *)
(***************************************************************************)
(* _connection_revision: what must not have changed while the broker was   *)
(* asked.                                                                  *)
_revision(c) == [revision |-> c.revision, active |-> c.active]

BeginConnect(c, w, k) ==
    /\ requests[c] = NoRequest
    /\ requests' = [requests EXCEPT ![c] =
           [kind |-> "connect", owner |-> w, key |-> k, expected |-> _revision(conn[w])]]
    /\ UNCHANGED <<conn, settings, head, orders, withdrawn>>

BeginTest(c, w) ==
    /\ requests[c] = NoRequest
    /\ conn[w].active
    /\ requests' = [requests EXCEPT ![c] =
           [kind |-> "test", owner |-> w, key |-> conn[w].key,
            expected |-> _revision(conn[w])]]
    /\ UNCHANGED <<conn, settings, head, orders, withdrawn>>

(* A mutant of Unchanged: the result is applied to whatever is saved now.   *)
NotCompared(c) == TRUE

Unchanged(c) == _revision(conn[requests[c].owner]) = requests[c].expected

(* The broker refuses, the connection changed meanwhile (409), or the      *)
(* process dies: nothing is recorded.                                      *)
RequestEnds(c) ==
    /\ requests[c] # NoRequest
    /\ requests' = [requests EXCEPT ![c] = NoRequest]
    /\ UNCHANGED <<conn, settings, head, orders, withdrawn>>

(* record_broker_test: an audit row the connection points to.              *)
TestRow(ok, binding, used) ==
    [id |-> Unused(TestsInUse), ok |-> ok, binding |-> binding, used |-> used, age |-> 0]

ConnectStores(c) ==
    LET w == requests[c].owner
        revision == Unused(RevisionsInUse)
    IN  /\ requests[c] # NoRequest
        /\ requests[c].kind = "connect"
        /\ Unchanged(c)
        /\ conn' = [conn EXCEPT ![w] =
               [revision |-> revision, key |-> requests[c].key, active |-> TRUE,
                test |-> TestRow(TRUE, revision, revision)]]
        /\ requests' = [requests EXCEPT ![c] = NoRequest]
        /\ WithdrawAccount(w)
        /\ UNCHANGED <<settings, head, orders>>

TestRecords(c, ok) ==
    LET w == requests[c].owner
    IN  /\ requests[c] # NoRequest
        /\ requests[c].kind = "test"
        /\ Unchanged(c)
        /\ conn' = [conn EXCEPT ![w].test =
               TestRow(ok, conn[w].revision, requests[c].expected.revision)]
        /\ requests' = [requests EXCEPT ![c] = NoRequest]
        /\ WithdrawAccount(w)
        /\ UNCHANGED <<settings, head, orders>>

Disconnect(w) ==
    /\ conn[w].active
    /\ conn' = [conn EXCEPT ![w].active = FALSE]
    /\ WithdrawAccount(w)
    /\ UNCHANGED <<settings, head, requests, orders>>

(* mark_broker_connection_reconnect_required: the credentials cannot be    *)
(* decrypted any more.                                                     *)
ReconnectRequired(w) ==
    /\ conn[w].active
    /\ conn' = [conn EXCEPT ![w].active = FALSE, ![w].test.ok = FALSE]
    /\ WithdrawAccount(w)
    /\ UNCHANGED <<settings, head, requests, orders>>

(***************************************************************************)
(* LiveReadinessService.apply_action with live_evidence.write_head.        *)
(***************************************************************************)
(* A mutant of write_head: evidence is kept for whoever records next.       *)
KeptForAll(w, a) ==
    LET id == Unused(HeadsInUse)
        references == Put(head.references, a, id)
        tested == Put(head.tests, a, conn[w].test.id)
    IN  head' = [id |-> id, binding |-> conn[w].revision,
                 ages |-> Put(head.ages, a, 0),
                 references |-> references,
                 tests |-> IF a \in Tested THEN tested ELSE head.tests,
                 unlocked_on |-> IF a = Unlock THEN references ELSE head.unlocked_on]

(* A mutant of write_head: every action refers to the last test.            *)
AllAreTests(w, a) ==
    LET id == Unused(HeadsInUse)
        kept(F) == IF head.binding = conn[w].revision THEN F ELSE NoFunction
        references == Put(kept(head.references), a, id)
    IN  head' = [id |-> id, binding |-> conn[w].revision,
                 ages |-> Put(kept(head.ages), a, 0),
                 references |-> references,
                 tests |-> Put(kept(head.tests), a, conn[w].test.id),
                 unlocked_on |-> IF a = Unlock THEN references ELSE kept(head.unlocked_on)]

write_head(w, a) ==
    LET id == Unused(HeadsInUse)
        kept(F) == IF head.binding = conn[w].revision THEN F ELSE NoFunction
        references == Put(kept(head.references), a, id)
        tested == Put(kept(head.tests), a, conn[w].test.id)
    IN  head' = [id |-> id, binding |-> conn[w].revision,
                 ages |-> Put(kept(head.ages), a, 0),
                 references |-> references,
                 tests |-> IF a \in Tested THEN tested ELSE kept(head.tests),
                 unlocked_on |-> IF a = Unlock THEN references ELSE kept(head.unlocked_on)]

(* An administrator records a review, or unlocks, for his own connection.   *)
Record(w, a) ==
    /\ conn[w].active
    /\ a = BrokerTest => CurrentTestValid(conn[w])
    /\ a = Unlock => EligibleForUnlock(conn[w])
    /\ settings' = [settings EXCEPT !.unlocked = @ \/ a = Unlock]
    /\ write_head(w, a)
    /\ Withdraw("evidence", BeforeLastControlRead, Owners)
    /\ UNCHANGED <<conn, requests, orders>>

lock_live ==
    /\ settings' = [settings EXCEPT !.unlocked = FALSE]
    /\ head' = Snapshot(Unused(HeadsInUse), None)
    /\ Withdraw("evidence", BeforeLastControlRead, Owners)
    /\ UNCHANGED <<conn, requests, orders>>

(* The kill switch, as activate_kill_switch and its release set it.         *)
Halt ==
    /\ ~settings.kill
    /\ settings' = [settings EXCEPT !.kill = TRUE]
    /\ Withdraw("halt", BeforeLastControlRead, Owners)
    /\ UNCHANGED <<conn, head, requests, orders>>

Release ==
    /\ settings.kill
    /\ settings' = [settings EXCEPT !.kill = FALSE]
    /\ withdrawn' = [o \in Orders |-> withdrawn[o] \ {"halt"}]
    /\ UNCHANGED <<conn, head, requests, orders>>

(* Time passes.                                                             *)
Older(age) == IF age > MaxAge THEN age ELSE age + 1

Expire ==
    /\ conn' = [w \in Owners |-> [conn[w] EXCEPT !.test.age = Older(@)]]
    /\ head' = [head EXCEPT !.ages = [f \in DOMAIN head.ages |-> Older(head.ages[f])]]
    /\ orders' = [o \in Orders |->
           IF orders[o].pc = "none" THEN NoOrder
           ELSE [orders[o] EXCEPT !.seen.age = Older(@)]]
    /\ UNCHANGED <<settings, requests, withdrawn>>

(***************************************************************************)
(* An order: get_broker builds the adapter, create_order_intent binds the  *)
(* order to the account, submit_order authorizes it with the commit of its *)
(* dispatch, and last_mile looks again.                                    *)
(***************************************************************************)
Goes(o, pc) == orders' = [orders EXCEPT ![o].pc = pc]

Done(o) ==
    /\ orders' = [orders EXCEPT ![o] = NoOrder]
    /\ withdrawn' = [withdrawn EXCEPT ![o] = {}]

NoAuthorization == [head |-> None, test |-> None]

get_broker(o, w) ==
    /\ orders[o].pc = "none"
    /\ conn[w].active
    /\ orders' = [orders EXCEPT ![o] =
           [pc |-> "selected", owner |-> w, adapter |-> conn[w].key, bound |-> None,
            authorization |-> NoAuthorization, seen |-> NoTest]]
    /\ UNCHANGED <<conn, settings, head, requests, withdrawn>>

(* binding_for_adapter: the owner's active connection still holds the      *)
(* credentials the adapter was built with.                                 *)
AdapterIsBound(o) ==
    LET c == conn[orders[o].owner] IN c.active /\ c.key = orders[o].adapter

(* capture_intent_context, saved as live_account_bound with the intent.    *)
CreateOrderIntent(o) ==
    /\ orders[o].pc = "selected"
    /\ AdapterIsBound(o)
    /\ orders' = [orders EXCEPT ![o].pc = "intent",
                                ![o].bound = conn[orders[o].owner].revision]
    /\ UNCHANGED <<conn, settings, head, requests, withdrawn>>

(* A mutant of AccountIsTheOrders: the saved event is not compared.         *)
CredentialsAreEnough(o) == AdapterIsBound(o)

(* authorize_dispatch up to the readiness: the account is the one the      *)
(* order is bound to.                                                      *)
AccountIsTheOrders(o) ==
    AdapterIsBound(o) /\ conn[orders[o].owner].revision = orders[o].bound

DispatchCommitted(o) ==
    /\ orders[o].pc = "intent"
    /\ AccountIsTheOrders(o)
    /\ ReadyForLive(conn[orders[o].owner])
    /\ orders' = [orders EXCEPT ![o].pc = "dispatched",
           ![o].authorization = [head |-> head.id, test |-> conn[orders[o].owner].test.id]]
    /\ UNCHANGED <<conn, settings, head, requests, withdrawn>>

(* last_mile, with no lock: first the account ...                          *)
CheckReadsAccount(o) ==
    /\ orders[o].pc \in {"dispatched", "paced"}
    /\ AccountIsTheOrders(o)
    /\ orders' = [orders EXCEPT
           ![o].pc = IF orders[o].pc = "paced" THEN "checking_again" ELSE "checking",
           ![o].seen = conn[orders[o].owner].test]
    /\ UNCHANGED <<conn, settings, head, requests, withdrawn>>

(* A mutant of StillAuthorized: ready is enough, on whatever evidence.      *)
ReadyIsEnough(o) ==
    ReadyForLive([revision |-> orders[o].bound, key |-> orders[o].adapter,
                  active |-> TRUE, test |-> orders[o].seen])

(* ... then the settings and the evidence: the order is ready as it was    *)
(* read, and everything is what was authorized.                            *)
StillAuthorized(o) ==
    /\ ReadyForLive([revision |-> orders[o].bound, key |-> orders[o].adapter,
                     active |-> TRUE, test |-> orders[o].seen])
    /\ orders[o].authorization = [head |-> head.id, test |-> orders[o].seen.id]

CheckReadsControls(o) ==
    /\ orders[o].pc \in {"checking", "checking_again"}
    /\ StillAuthorized(o)
    /\ Goes(o, IF orders[o].pc = "checking" THEN "paced" ELSE "cleared")
    /\ UNCHANGED <<conn, settings, head, requests, withdrawn>>

(* The permit is consumed and the request leaves.                          *)
Send(o) ==
    /\ orders[o].pc = "cleared"
    /\ Goes(o, "sent")
    /\ UNCHANGED <<conn, settings, head, requests, withdrawn>>

(* A check fails (nothing is sent), the broker answers, or the process     *)
(* dies: the order takes no more part here.                                *)
OrderEnds(o) ==
    /\ orders[o].pc # "none"
    /\ Done(o)
    /\ UNCHANGED <<conn, settings, head, requests>>

Next ==
    \/ \E c \in Requests :
          \/ RequestEnds(c)
          \/ ConnectStores(c)
          \/ \E ok \in BOOLEAN : TestRecords(c, ok)
          \/ \E w \in Owners : BeginTest(c, w)
          \/ \E w \in Owners, k \in Keys : BeginConnect(c, w, k)
    \/ \E w \in Owners :
          \/ Disconnect(w)
          \/ ReconnectRequired(w)
          \/ \E a \in FIELDS : Record(w, a)
    \/ lock_live
    \/ Halt
    \/ Release
    \/ Expire
    \/ \E o \in Orders :
          \/ \E w \in Owners : get_broker(o, w)
          \/ CreateOrderIntent(o)
          \/ DispatchCommitted(o)
          \/ CheckReadsAccount(o)
          \/ CheckReadsControls(o)
          \/ Send(o)
          \/ OrderEnds(o)

Spec == Init /\ [][Next]_vars

(***************************************************************************)
(* Properties.                                                             *)
(***************************************************************************)
TestRows == [id : Nat, ok : BOOLEAN, binding : Nat, used : Nat, age : Age]

OrderRecords ==
    [pc : {"selected", "intent", "cleared", "sent"} \union BeforeLastControlRead,
     owner : Owners, adapter : Keys, bound : Nat,
     authorization : [head : Nat, test : Nat], seen : TestRows]

(* The type invariant: every row has the shape of its table, the snapshot   *)
(* keeps its maps over the same fields.                                    *)
TypeOK ==
    /\ conn \in [Owners -> [revision : Nat, key : Keys \union {NoKey},
                             active : BOOLEAN, test : TestRows]]
    /\ settings \in [kill : BOOLEAN, unlocked : BOOLEAN]
    /\ head.id \in Nat /\ head.binding \in Nat
    /\ DOMAIN head.ages \subseteq FIELDS /\ DOMAIN head.references = DOMAIN head.ages
    /\ DOMAIN head.tests = DOMAIN head.ages \intersect Tested
    /\ \A f \in DOMAIN head.ages : head.ages[f] \in Age /\ head.references[f] \in Nat
    /\ \A o \in Orders : orders[o] = NoOrder \/ orders[o] \in OrderRecords
    /\ withdrawn \in [Orders -> SUBSET {"account", "evidence", "halt"}]

(* A request leaves only if nothing its permission rests on was withdrawn   *)
(* between the commit of its dispatch and the last read of the row          *)
(* concerned: no reconnection, disconnection or test of the account, no     *)
(* lock and no new evidence, and no halt still in force.                    *)
WithdrawnIsNotSent ==
    \A o \in Orders : orders[o].pc \in {"cleared", "sent"} => withdrawn[o] = {}

(* A successful test that counts for the saved credentials was made with    *)
(* them: a result that comes back after the connection was replaced by      *)
(* another request is thrown away.                                          *)
TestIsOfTheseCredentials ==
    \A w \in Owners : CurrentTestValid(conn[w]) => conn[w].test.used = conn[w].revision

(* A test or a reconnection, whatever its result, ends the unlock and the   *)
(* review of the test before it in the same step, and any review recorded   *)
(* after the unlock ends the unlock.                                        *)
ChangeEndsTheUnlock ==
    [][\A w \in Owners :
          /\ conn'[w].test.id # conn[w].test.id =>
                (FreshEvidence(conn[w]) \intersect Tested = {})'
          /\ head'.id # head.id /\ Unlock \in FreshEvidence(conn[w])' =>
                head'.references[Unlock] = head'.id]_vars

(* The evidence implements LivePermission: whatever is tested, replaced,    *)
(* locked, disconnected or recorded by another owner, and in whatever       *)
(* order, evidence is granted by its owner's action alone and is never had  *)
(* back any other way.                                                      *)
Permission == INSTANCE LivePermission WITH
    granted <- [w \in Owners |->
        {f \in FreshEvidence(conn[w]) : f = Unlock => settings.unlocked}]
ImplementsPermission == Permission!Spec /\ ChangeEndsTheUnlock

(* No two owners may trade at once, and an order on its way that has passed *)
(* its last look at the account is the order of the owner who holds the     *)
(* unlock it was authorized under, as long as that evidence is current.     *)
OrdersBelongToTheUnlocker ==
    \A o \in Orders :
        (orders[o].pc \in BeforeLastControlRead /\ orders[o].authorization.head = head.id)
            => head.binding = orders[o].bound /\ Unlock \in DOMAIN head.references

(* Every order that leaves has the permission of its own account.           *)
OnlyPermittedOrdersLeave ==
    /\ TypeOK
    /\ WithdrawnIsNotSent
    /\ TestIsOfTheseCredentials
    /\ OrdersBelongToTheUnlocker
=============================================================================
