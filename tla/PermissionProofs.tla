--------------------------- MODULE PermissionProofs ---------------------------
(***************************************************************************)
(* Proofs about what has to be permitted before it is done, for every      *)
(* value of the constants: that every real order that leaves has its       *)
(* permission, and that the evidence implements LivePermission             *)
(* (LiveDispatch); that a strategy makes the orders its promotion allows   *)
(* (StrategyPromotion); that the demo worker waits for as long as its      *)
(* broker asked it to (DemoSchedule); and that a back-test runs on the     *)
(* data it reports (ResearchData).  The four share nothing; each part      *)
(* leads from the inductive invariant it is about to its properties.       *)
(***************************************************************************)
EXTENDS LiveDispatch, StrategyPromotion, DemoSchedule, ResearchData,
        FiniteSetTheorems, SequenceTheorems, TLAPS

(***************************************************************************)
(* The permission of a real order.                                         *)
(***************************************************************************)
(* Uuids: a new one differs from all that are in use. *)

LEMMA ImageIsFinite ==
  ASSUME NEW S, IsFiniteSet(S), NEW f, f = [x \in S |-> f[x]]
  PROVE  IsFiniteSet({f[x] : x \in S})
<1> DEFINE T == {f[x] : x \in S}
<1>1. f \in Surjection(S, T)
  BY DEF Surjection
<1> QED
  BY <1>1, FS_Surjection

LEMMA UnusedIsNew ==
  ASSUME NEW S, IsFiniteSet(S)
  PROVE  Unused(S) \in Nat \ {0} /\ Unused(S) \notin S
<1> DEFINE n == Cardinality(S)
<1>1. n \in Nat
  BY FS_CardinalityType
<1>2. \E i \in 1 .. n + 1 : i \notin S
  <2> SUFFICES ASSUME 1 .. n + 1 \subseteq S PROVE FALSE
    OBVIOUS
  <2>1. Cardinality(1 .. n + 1) <= n
    BY FS_Subset
  <2>2. Cardinality(1 .. n + 1) = n + 1
    BY <1>1, FS_Interval
  <2> QED
    BY <1>1, <2>1, <2>2
<1>3. Unused(S) \in 1 .. n + 1 /\ Unused(S) \notin S
  BY <1>2 DEF Unused
<1> QED
  BY <1>1, <1>3

LEMMA FieldsAreFinite == IsFiniteSet(FIELDS)
<1>1. IsFiniteSet({BrokerTest}) /\ IsFiniteSet({Unlock})
  BY FS_Singleton
<1>2. IsFiniteSet({BrokerTest} \union {Unlock})
  BY <1>1, FS_Union
<1>3. FIELDS = Reviews \union ({BrokerTest} \union {Unlock})
  BY DEF FIELDS
<1> QED
  BY <1>2, <1>3, RowsAreFinite, FS_Union

LEMMA PutTakesOne ==
  ASSUME NEW F, NEW a, NEW e
  PROVE  /\ DOMAIN Put(F, a, e) = DOMAIN F \union {a}
         /\ Put(F, a, e)[a] = e
         /\ \A f \in DOMAIN F : f # a => Put(F, a, e)[f] = F[f]
  BY DEF Put

-----------------------------------------------------------------------------
(* The inductive invariant. *)

(* The shape of the rows that TypeOK leaves open: a connect or test in flight, and maps of *)
(* the snapshot that are functions over the fields.                                        *)
IsMap(F, V) == DOMAIN F \subseteq FIELDS /\ F \in [DOMAIN F -> V]

IsHead(h) ==
  /\ h = [id |-> h.id, binding |-> h.binding, ages |-> h.ages, references |-> h.references,
          tests |-> h.tests, unlocked_on |-> h.unlocked_on]
  /\ h.id \in Nat /\ h.binding \in Nat
  /\ IsMap(h.ages, Age)
  /\ IsMap(h.references, Nat) /\ IsMap(h.tests, Nat) /\ IsMap(h.unlocked_on, Nat)

RequestRecords ==
  [kind : {"connect", "test"}, owner : Owners, key : Keys,
   expected : [revision : Nat, active : BOOLEAN]]

Shape ==
  /\ TypeOK
  /\ IsHead(head)
  /\ requests \in [Requests -> {NoRequest} \union RequestRecords]
  /\ orders \in [Orders -> {NoOrder} \union OrderRecords]

(* An active connection has credentials and a revision, which no other owner's has. *)
AccountsAreOwn ==
  /\ \A w \in Owners : conn[w].active => conn[w].key \in Keys /\ conn[w].revision # None
  /\ \A w, v \in Owners :
       w # v /\ conn[w].revision = conn[v].revision => conn[w].revision = None

(* A test that names the saved revision was made with its credentials. *)
TestsAreHonest ==
  \A w \in Owners :
    conn[w].test.id # None /\ conn[w].test.binding = conn[w].revision =>
      conn[w].test.used = conn[w].revision

(* What a check of the account would find wrong, for as long as the order is there. *)
AccountIsOff(o) ==
  LET c == conn[orders[o].owner] IN
  \/ ~c.active
  \/ c.revision # orders[o].bound
  \/ c.test.id # orders[o].authorization.test

(* Whatever was withdrawn from an order on its way is still to be seen where the order is *)
(* going to look, or in what it has read.                                                 *)
WithdrawnIsSeen ==
  \A o \in Orders :
    /\ orders[o].pc \notin BeforeLastControlRead => withdrawn[o] = {}
    /\ orders[o].pc \in BeforeLastControlRead =>
         /\ "evidence" \in withdrawn[o] => head.id # orders[o].authorization.head
         /\ "halt" \in withdrawn[o] => settings.kill
    /\ orders[o].pc \in BeforeLastAccountRead /\ "account" \in withdrawn[o] =>
         AccountIsOff(o)
    /\ orders[o].pc = "checking_again" /\ "account" \in withdrawn[o] =>
         orders[o].seen.id # orders[o].authorization.test

IInv ==
  /\ Shape /\ AccountsAreOwn /\ TestsAreHonest /\ WithdrawnIsSeen
  /\ OrdersBelongToTheUnlocker

-----------------------------------------------------------------------------
(* What is in use is finite, so that there is a new number. *)

LEMMA RevisionIsNew ==
  ASSUME NEW r, r = Unused(RevisionsInUse)
  PROVE  /\ r \in Nat /\ r # None /\ head.binding # r
         /\ \A w \in Owners : conn[w].revision # r /\ conn[w].test.binding # r
         /\ \A o \in Orders : orders[o].pc # "none" => orders[o].bound # r
<1> DEFINE C == {d \in Requests : requests[d].kind # "none"}
           O == {p \in Orders : orders[p].pc # "none"}
<1>1. /\ IsFiniteSet({conn[w].revision : w \in Owners})
      /\ IsFiniteSet({conn[w].test.binding : w \in Owners})
      /\ IsFiniteSet({conn[w].test.used : w \in Owners})
  <2>1. IsFiniteSet({[v \in Owners |-> conn[v].revision][w] : w \in Owners})
    BY ImageIsFinite, RowsAreFinite
  <2>2. IsFiniteSet({[v \in Owners |-> conn[v].test.binding][w] : w \in Owners})
    BY ImageIsFinite, RowsAreFinite
  <2>3. IsFiniteSet({[v \in Owners |-> conn[v].test.used][w] : w \in Owners})
    BY ImageIsFinite, RowsAreFinite
  <2> QED
    BY <2>1, <2>2, <2>3
<1>2. IsFiniteSet({requests[c].expected.revision : c \in C})
  <2>1. IsFiniteSet(C)
    BY FS_Subset, RowsAreFinite
  <2>2. IsFiniteSet({[d \in C |-> requests[d].expected.revision][c] : c \in C})
    BY <2>1, ImageIsFinite
  <2> QED
    BY <2>2
<1>3. IsFiniteSet({orders[o].bound : o \in O})
  <2>1. IsFiniteSet(O)
    BY FS_Subset, RowsAreFinite
  <2>2. IsFiniteSet({[p \in O |-> orders[p].bound][o] : o \in O})
    BY <2>1, ImageIsFinite
  <2> QED
    BY <2>2
<1>4. IsFiniteSet({head.binding})
  BY FS_Singleton
<1>5. IsFiniteSet(RevisionsInUse)
  BY <1>1, <1>2, <1>3, <1>4, FS_Union DEF RevisionsInUse
<1>6. r \in Nat \ {0} /\ r \notin RevisionsInUse
  BY <1>5, UnusedIsNew
<1> QED
  BY <1>6 DEF RevisionsInUse, None

LEMMA TestIsNew ==
  ASSUME Shape, NEW t, t = Unused(TestsInUse)
  PROVE  /\ t \in Nat /\ t # None
         /\ \A w \in Owners : conn[w].test.id # t
         /\ \A f \in DOMAIN head.tests : head.tests[f] # t
         /\ \A o \in Orders : orders[o].pc # "none" => orders[o].authorization.test # t
<1> DEFINE O == {p \in Orders : orders[p].pc # "none"}
<1>1. IsFiniteSet({conn[w].test.id : w \in Owners})
  <2>1. IsFiniteSet({[v \in Owners |-> conn[v].test.id][w] : w \in Owners})
    BY ImageIsFinite, RowsAreFinite
  <2> QED
    BY <2>1
<1>2. IsFiniteSet({head.tests[f] : f \in DOMAIN head.tests})
  <2>1. DOMAIN head.tests \subseteq FIELDS /\ head.tests = [f \in DOMAIN head.tests |-> head.tests[f]]
    BY DEF Shape, IsHead, IsMap
  <2>2. IsFiniteSet(DOMAIN head.tests)
    BY <2>1, FieldsAreFinite, FS_Subset
  <2> QED
    BY <2>1, <2>2, ImageIsFinite
<1>3. IsFiniteSet({orders[o].authorization.test : o \in O})
  <2>1. IsFiniteSet(O)
    BY FS_Subset, RowsAreFinite
  <2>2. IsFiniteSet({[p \in O |-> orders[p].authorization.test][o] : o \in O})
    BY <2>1, ImageIsFinite
  <2> QED
    BY <2>2
<1>4. IsFiniteSet(TestsInUse)
  BY <1>1, <1>2, <1>3, FS_Union DEF TestsInUse
<1>5. t \in Nat \ {0} /\ t \notin TestsInUse
  BY <1>4, UnusedIsNew
<1> QED
  BY <1>5 DEF TestsInUse, None

LEMMA HeadIsNew ==
  ASSUME Shape, NEW h, h = Unused(HeadsInUse)
  PROVE  /\ h \in Nat /\ head.id # h
         /\ \A f \in DOMAIN head.references : head.references[f] # h
         /\ \A f \in DOMAIN head.unlocked_on : head.unlocked_on[f] # h
         /\ \A o \in Orders : orders[o].pc # "none" => orders[o].authorization.head # h
<1> DEFINE O == {p \in Orders : orders[p].pc # "none"}
<1>1. ASSUME NEW F, IsMap(F, Nat) PROVE IsFiniteSet({F[f] : f \in DOMAIN F})
  <2>1. F = [f \in DOMAIN F |-> F[f]]
    BY <1>1 DEF IsMap
  <2>2. IsFiniteSet(DOMAIN F)
    BY <1>1, FieldsAreFinite, FS_Subset DEF IsMap
  <2> QED
    BY <2>1, <2>2, ImageIsFinite
<1>2. /\ IsFiniteSet({head.references[f] : f \in DOMAIN head.references})
      /\ IsFiniteSet({head.unlocked_on[f] : f \in DOMAIN head.unlocked_on})
  BY <1>1 DEF Shape, IsHead
<1>3. IsFiniteSet({orders[o].authorization.head : o \in O})
  <2>1. IsFiniteSet(O)
    BY FS_Subset, RowsAreFinite
  <2>2. IsFiniteSet({[p \in O |-> orders[p].authorization.head][o] : o \in O})
    BY <2>1, ImageIsFinite
  <2> QED
    BY <2>2
<1>4. IsFiniteSet({head.id})
  BY FS_Singleton
<1>5. IsFiniteSet(HeadsInUse)
  BY <1>2, <1>3, <1>4, FS_Union DEF HeadsInUse
<1>6. h \in Nat \ {0} /\ h \notin HeadsInUse
  BY <1>5, UnusedIsNew
<1> QED
  BY <1>6 DEF HeadsInUse

-----------------------------------------------------------------------------
(* Every step keeps the shape of the rows. *)

LEMMA Rows ==
  /\ 0 \in Age /\ NoTest \in TestRows /\ NoTest.id = None
  /\ \A age \in Age : Older(age) \in Age
  /\ \A age \in Age : Fresh(Older(age)) => Fresh(age)
  BY MaxAgeIsANumber DEF Age, NoTest, TestRows, None, Older, Fresh

LEMMA NewTestRow ==
  ASSUME Shape, NEW ok \in BOOLEAN, NEW b \in Nat, NEW u \in Nat
  PROVE  TestRow(ok, b, u) \in TestRows
  BY TestIsNew, Rows DEF TestRow, TestRows

LEMMA AnOrder ==
  ASSUME Shape, NEW o \in Orders
  PROVE  \/ orders[o] = NoOrder /\ orders[o].pc = "none"
         \/ orders[o] \in OrderRecords /\ orders[o].pc # "none"
  BY DEF Shape, NoOrder, OrderRecords, BeforeLastControlRead, BeforeLastAccountRead

LEMMA ARequest ==
  ASSUME Shape, NEW c \in Requests
  PROVE  /\ requests[c] = NoRequest \/ requests[c] \in RequestRecords
         /\ requests[c].kind # "none" => requests[c] \in RequestRecords
  BY DEF Shape, NoRequest, RequestRecords

(* Withdraw keeps to what can be withdrawn. *)
LEMMA WithdrawShape ==
  ASSUME Shape, NEW what \in {"account", "evidence", "halt"}, NEW places, NEW owners,
         Withdraw(what, places, owners)
  PROVE  withdrawn' \in [Orders -> SUBSET {"account", "evidence", "halt"}]
  BY DEF Shape, TypeOK, Withdraw

(* A step that only changes the orders, or only one connection. *)
LEMMA OrdersShape ==
  ASSUME Shape, NEW o \in Orders, NEW r \in OrderRecords,
         orders' = [orders EXCEPT ![o] = r],
         UNCHANGED <<conn, settings, head, requests, withdrawn>>
  PROVE  Shape'
  BY DEF Shape, TypeOK

LEMMA ConnShape ==
  ASSUME Shape, NEW w \in Owners, NEW c,
         c \in [revision : Nat, key : Keys \union {NoKey}, active : BOOLEAN, test : TestRows],
         conn' = [conn EXCEPT ![w] = c],
         withdrawn' \in [Orders -> SUBSET {"account", "evidence", "halt"}],
         requests' \in [Requests -> {NoRequest} \union RequestRecords],
         UNCHANGED <<settings, head, orders>>
  PROVE  Shape'
  BY DEF Shape, TypeOK

LEMMA HeadShape ==
  ASSUME Shape, IsHead(head'),
         DOMAIN head'.references = DOMAIN head'.ages,
         DOMAIN head'.tests = DOMAIN head'.ages \intersect Tested,
         settings' \in [kill : BOOLEAN, unlocked : BOOLEAN],
         withdrawn' \in [Orders -> SUBSET {"account", "evidence", "halt"}],
         UNCHANGED <<conn, requests, orders>>
  PROVE  Shape'
  BY DEF Shape, TypeOK, IsHead, IsMap

LEMMA PutIsAMap ==
  ASSUME NEW V, NEW F, IsMap(F, V), NEW a \in FIELDS, NEW e \in V
  PROVE  IsMap(Put(F, a, e), V)
  BY DEF IsMap, Put

(* What write_head makes of the snapshot: the action at hand is new, and what is kept is *)
(* kept as it was, but no earlier unlock stands.                                         *)
LEMMA WrittenHead ==
  ASSUME Shape, NEW w \in Owners, NEW a \in FIELDS, write_head(w, a)
  PROVE  /\ IsHead(head')
         /\ DOMAIN head'.references = DOMAIN head'.ages
         /\ DOMAIN head'.tests = DOMAIN head'.ages \intersect Tested
         /\ head'.id = Unused(HeadsInUse) /\ head'.binding = conn[w].revision
         /\ a \in DOMAIN head'.references /\ head'.references[a] = head'.id
         /\ a \in Tested => head'.tests[a] = conn[w].test.id
         /\ \A f \in DOMAIN head'.references \ {a} :
              /\ head.binding = conn[w].revision
              /\ f \in DOMAIN head.references
              /\ head'.ages[f] = head.ages[f]
              /\ f \in Tested => head'.tests[f] = head.tests[f]
         /\ a # Unlock => head'.unlocked_on # head'.references
<1> DEFINE id == Unused(HeadsInUse)
           kept(F) == IF head.binding = conn[w].revision THEN F ELSE NoFunction
           references == Put(kept(head.references), a, id)
           tests == IF a \in Tested THEN Put(kept(head.tests), a, conn[w].test.id)
                    ELSE kept(head.tests)
           ages == Put(kept(head.ages), a, 0)
           unlocked_on == IF a = Unlock THEN references ELSE kept(head.unlocked_on)
<1>1. head' = [id |-> id, binding |-> conn[w].revision, ages |-> ages,
               references |-> references, tests |-> tests, unlocked_on |-> unlocked_on]
  BY DEF write_head
<1>2. ASSUME NEW V, NEW F, IsMap(F, V) PROVE IsMap(kept(F), V)
  BY <1>2 DEF IsMap, NoFunction
<1>3. /\ id \in Nat /\ conn[w].revision \in Nat /\ conn[w].test.id \in Nat /\ 0 \in Age
  BY HeadIsNew, Rows DEF Shape, TypeOK, TestRows
<1>4. /\ IsMap(kept(head.ages), Age) /\ IsMap(kept(head.references), Nat)
      /\ IsMap(kept(head.tests), Nat) /\ IsMap(kept(head.unlocked_on), Nat)
  BY <1>2 DEF Shape, IsHead
<1>5. /\ IsMap(ages, Age) /\ IsMap(references, Nat)
      /\ IsMap(tests, Nat) /\ IsMap(unlocked_on, Nat)
  BY <1>3, <1>4, PutIsAMap
<1>6. /\ DOMAIN kept(head.references) = DOMAIN kept(head.ages)
      /\ DOMAIN kept(head.tests) = DOMAIN kept(head.ages) \intersect Tested
  BY DEF Shape, TypeOK, NoFunction
<1>7. /\ DOMAIN references = DOMAIN kept(head.references) \union {a}
      /\ DOMAIN ages = DOMAIN kept(head.references) \union {a}
      /\ DOMAIN tests = DOMAIN ages \intersect Tested
  <2> HIDE DEF kept
  <2>1. /\ DOMAIN references = DOMAIN kept(head.references) \union {a}
        /\ DOMAIN ages = DOMAIN kept(head.ages) \union {a}
        /\ DOMAIN tests = IF a \in Tested THEN DOMAIN kept(head.tests) \union {a}
                          ELSE DOMAIN kept(head.tests)
    BY PutTakesOne
  <2> HIDE DEF references, ages, tests
  <2> QED
    BY <1>6, <2>1
<1>8. /\ references[a] = id
      /\ a \in Tested => tests[a] = conn[w].test.id
      /\ \A f \in DOMAIN references \ {a} :
           /\ head.binding = conn[w].revision
           /\ f \in DOMAIN head.references
           /\ ages[f] = head.ages[f]
           /\ f \in Tested => tests[f] = head.tests[f]
  <2>1. references[a] = id /\ (a \in Tested => tests[a] = conn[w].test.id)
    <3> HIDE DEF kept
    <3> QED
      BY DEF Put
  <2>2. ASSUME NEW f \in DOMAIN references \ {a}
        PROVE  /\ head.binding = conn[w].revision
               /\ f \in DOMAIN head.references /\ f \in DOMAIN head.ages
               /\ f \in Tested => f \in DOMAIN head.tests
    <3>1. f \in DOMAIN kept(head.references)
      BY <1>7, <2>2
    <3>2. head.binding = conn[w].revision /\ f \in DOMAIN head.references
      BY <3>1 DEF NoFunction
    <3> QED
      BY <3>2 DEF Shape, TypeOK
  <2>3. ASSUME NEW f \in DOMAIN references \ {a}
        PROVE  /\ ages[f] = head.ages[f]
               /\ f \in Tested => tests[f] = head.tests[f]
    <3>1. /\ ages = Put(head.ages, a, 0)
          /\ tests = IF a \in Tested THEN Put(head.tests, a, conn[w].test.id) ELSE head.tests
          /\ f \in DOMAIN head.ages /\ (f \in Tested => f \in DOMAIN head.tests) /\ f # a
      BY <2>2, <2>3
    <3> HIDE DEF ages, tests
    <3> QED
      BY <3>1 DEF Put
  <2> QED
    BY <2>1, <2>2, <2>3
<1>9. a # Unlock => unlocked_on # references
  <2> SUFFICES ASSUME a # Unlock, unlocked_on = references PROVE FALSE
    OBVIOUS
  <2>1. a \in DOMAIN unlocked_on /\ unlocked_on[a] = id
    BY <1>7, <1>8
  <2>2. a \in DOMAIN head.unlocked_on /\ head.unlocked_on[a] = id
    BY <2>1 DEF NoFunction
  <2> QED
    BY <2>2, HeadIsNew
<1> HIDE DEF id, references, tests, ages, unlocked_on
<1>10. IsHead(head')
  BY <1>1, <1>3, <1>5 DEF IsHead
<1> QED
  BY <1>1, <1>7, <1>8, <1>9, <1>10 DEF id

LEMMA ShapeStays ==
  ASSUME Shape, AccountsAreOwn, Next
  PROVE  Shape'
<1>1. ASSUME NEW c \in Requests, RequestEnds(c) PROVE Shape'
  BY <1>1 DEF RequestEnds, Shape, TypeOK
<1>2. ASSUME NEW c \in Requests, ConnectStores(c) PROVE Shape'
  <2> DEFINE w == requests[c].owner
             r == Unused(RevisionsInUse)
             new == [revision |-> r, key |-> requests[c].key, active |-> TRUE,
                     test |-> TestRow(TRUE, r, r)]
  <2>1. requests[c] \in RequestRecords
    BY <1>2, ARequest DEF ConnectStores
  <2>2. w \in Owners /\ requests[c].key \in Keys
    BY <2>1 DEF RequestRecords
  <2>3. new \in [revision : Nat, key : Keys \union {NoKey}, active : BOOLEAN, test : TestRows]
    BY <2>2, RevisionIsNew, NewTestRow
  <2>4. conn' = [conn EXCEPT ![w] = new] /\ UNCHANGED <<settings, head, orders>>
    BY <1>2 DEF ConnectStores
  <2>5. requests' \in [Requests -> {NoRequest} \union RequestRecords]
    BY <1>2 DEF ConnectStores, Shape
  <2>6. withdrawn' \in [Orders -> SUBSET {"account", "evidence", "halt"}]
    BY <1>2, WithdrawShape DEF ConnectStores, WithdrawAccount
  <2> QED
    BY <2>2, <2>3, <2>4, <2>5, <2>6, ConnShape
<1>3. ASSUME NEW c \in Requests, NEW ok \in BOOLEAN, TestRecords(c, ok) PROVE Shape'
  <2> DEFINE w == requests[c].owner
             t == TestRow(ok, conn[w].revision, requests[c].expected.revision)
  <2>1. requests[c] \in RequestRecords
    BY <1>3, ARequest DEF TestRecords
  <2>2. w \in Owners /\ requests[c].expected.revision \in Nat /\ conn[w].revision \in Nat
    BY <2>1 DEF RequestRecords, Shape, TypeOK
  <2>3. t \in TestRows
    BY <2>2, NewTestRow
  <2>4. conn' = [conn EXCEPT ![w] = [conn[w] EXCEPT !.test = t]]
        /\ UNCHANGED <<settings, head, orders>>
    BY <1>3 DEF TestRecords
  <2> HIDE DEF t
  <2>5. [conn[w] EXCEPT !.test = t]
          \in [revision : Nat, key : Keys \union {NoKey}, active : BOOLEAN, test : TestRows]
    BY <2>2, <2>3 DEF Shape, TypeOK
  <2>6. requests' \in [Requests -> {NoRequest} \union RequestRecords]
    BY <1>3 DEF TestRecords, Shape
  <2>7. withdrawn' \in [Orders -> SUBSET {"account", "evidence", "halt"}]
    BY <1>3, WithdrawShape DEF TestRecords, WithdrawAccount
  <2> QED
    BY <2>2, <2>4, <2>5, <2>6, <2>7, ConnShape
<1>4. ASSUME NEW c \in Requests, NEW w \in Owners, BeginTest(c, w) PROVE Shape'
  <2>1. [kind |-> "test", owner |-> w, key |-> conn[w].key, expected |-> _revision(conn[w])]
          \in RequestRecords
    BY <1>4 DEF BeginTest, Shape, TypeOK, AccountsAreOwn, RequestRecords, _revision
  <2> QED
    BY <1>4, <2>1 DEF BeginTest, Shape, TypeOK
<1>5. ASSUME NEW c \in Requests, NEW w \in Owners, NEW k \in Keys, BeginConnect(c, w, k)
      PROVE  Shape'
  <2>1. [kind |-> "connect", owner |-> w, key |-> k, expected |-> _revision(conn[w])]
          \in RequestRecords
    BY DEF Shape, TypeOK, RequestRecords, _revision
  <2> QED
    BY <1>5, <2>1 DEF BeginConnect, Shape, TypeOK
<1>6. ASSUME NEW w \in Owners, Disconnect(w) \/ ReconnectRequired(w) PROVE Shape'
  <2> DEFINE new == conn'[w]
  <2>1. /\ conn[w] \in [revision : Nat, key : Keys \union {NoKey}, active : BOOLEAN, test : TestRows]
        /\ \/ conn' = [conn EXCEPT ![w] = [conn[w] EXCEPT !.active = FALSE]]
           \/ conn' = [conn EXCEPT ![w] = [conn[w] EXCEPT !.active = FALSE,
                                                         !.test = [conn[w].test EXCEPT !.ok = FALSE]]]
        /\ UNCHANGED <<settings, head, requests, orders>>
        /\ WithdrawAccount(w)
    BY <1>6 DEF Disconnect, ReconnectRequired, Shape, TypeOK
  <2>2. [conn[w].test EXCEPT !.ok = FALSE] \in TestRows
    BY <2>1 DEF TestRows
  <2>3. \E c \in [revision : Nat, key : Keys \union {NoKey}, active : BOOLEAN, test : TestRows] :
          conn' = [conn EXCEPT ![w] = c]
    BY <2>1, <2>2
  <2>4. withdrawn' \in [Orders -> SUBSET {"account", "evidence", "halt"}]
    BY <2>1, WithdrawShape DEF WithdrawAccount
  <2>5. requests' \in [Requests -> {NoRequest} \union RequestRecords]
    BY <2>1 DEF Shape
  <2> QED
    BY <2>1, <2>3, <2>4, <2>5, ConnShape
<1>7. ASSUME NEW w \in Owners, NEW a \in FIELDS, Record(w, a) PROVE Shape'
  <2>1. write_head(w, a) /\ UNCHANGED <<conn, requests, orders>>
    BY <1>7 DEF Record
  <2>2. settings' \in [kill : BOOLEAN, unlocked : BOOLEAN]
    BY <1>7 DEF Record, Shape, TypeOK
  <2>3. withdrawn' \in [Orders -> SUBSET {"account", "evidence", "halt"}]
    BY <1>7, WithdrawShape DEF Record
  <2> QED
    BY <2>1, <2>2, <2>3, WrittenHead, HeadShape
<1>8. CASE lock_live
  <2>1. /\ IsHead(head')
        /\ DOMAIN head'.references = DOMAIN head'.ages
        /\ DOMAIN head'.tests = DOMAIN head'.ages \intersect Tested
    BY <1>8, HeadIsNew DEF lock_live, Snapshot, NoFunction, IsHead, IsMap, None
  <2>2. settings' \in [kill : BOOLEAN, unlocked : BOOLEAN]
    BY <1>8 DEF lock_live, Shape, TypeOK
  <2>3. withdrawn' \in [Orders -> SUBSET {"account", "evidence", "halt"}]
    BY <1>8, WithdrawShape DEF lock_live
  <2> QED
    BY <1>8, <2>1, <2>2, <2>3, HeadShape DEF lock_live
<1>9. CASE Halt \/ Release
  <2>1. withdrawn' \in [Orders -> SUBSET {"account", "evidence", "halt"}]
    BY <1>9, WithdrawShape DEF Halt, Release, Shape, TypeOK
  <2>2. settings' \in [kill : BOOLEAN, unlocked : BOOLEAN]
    BY <1>9 DEF Halt, Release, Shape, TypeOK
  <2> QED
    BY <1>9, <2>1, <2>2 DEF Halt, Release, Shape, TypeOK
<1>10. CASE Expire
  <2>1. ASSUME NEW w \in Owners
        PROVE  [conn[w] EXCEPT !.test = [conn[w].test EXCEPT !.age = Older(conn[w].test.age)]]
          \in [revision : Nat, key : Keys \union {NoKey}, active : BOOLEAN, test : TestRows]
    <3>1. conn[w].test \in TestRows /\ Older(conn[w].test.age) \in Age
      BY Rows DEF Shape, TypeOK, TestRows
    <3>2. [conn[w].test EXCEPT !.age = Older(conn[w].test.age)] \in TestRows
      BY <3>1 DEF TestRows
    <3> QED
      BY <3>2 DEF Shape, TypeOK
  <2>2. conn' \in [Owners -> [revision : Nat, key : Keys \union {NoKey}, active : BOOLEAN,
                              test : TestRows]]
    BY <1>10, <2>1 DEF Expire
  <2>3. ASSUME NEW o \in Orders PROVE orders'[o] \in {NoOrder} \union OrderRecords
    <3>1. CASE orders[o].pc = "none"
      BY <1>10, <3>1 DEF Expire
    <3>2. CASE orders[o].pc # "none"
      <4>1. orders[o] \in OrderRecords
        BY <3>2, AnOrder
      <4>2. orders[o].seen \in TestRows /\ Older(orders[o].seen.age) \in Age
        BY <4>1, Rows DEF OrderRecords, TestRows
      <4>3. [orders[o].seen EXCEPT !.age = Older(orders[o].seen.age)] \in TestRows
        BY <4>2 DEF TestRows
      <4>4. orders'[o] = [orders[o] EXCEPT !.seen =
                            [orders[o].seen EXCEPT !.age = Older(orders[o].seen.age)]]
        BY <1>10, <3>2 DEF Expire
      <4> QED
        BY <4>1, <4>3, <4>4 DEF OrderRecords
    <3> QED
      BY <3>1, <3>2
  <2>4. orders' = [o \in Orders |-> orders'[o]]
    BY <1>10 DEF Expire
  <2>5. /\ IsHead(head')
        /\ DOMAIN head'.references = DOMAIN head'.ages
        /\ DOMAIN head'.tests = DOMAIN head'.ages \intersect Tested
    <3> DEFINE ages == [f \in DOMAIN head.ages |-> Older(head.ages[f])]
    <3>1. head' = [head EXCEPT !.ages = ages]
      BY <1>10 DEF Expire
    <3>2. IsMap(ages, Age)
      BY Rows DEF Shape, IsHead, IsMap
    <3>3. DOMAIN ages = DOMAIN head.ages
      OBVIOUS
    <3> HIDE DEF ages
    <3> QED
      BY <3>1, <3>2, <3>3 DEF Shape, TypeOK, IsHead
  <2> QED
    BY <1>10, <2>2, <2>3, <2>4, <2>5 DEF Expire, Shape, TypeOK, IsHead, IsMap
<1>11. ASSUME NEW o \in Orders, NEW w \in Owners, get_broker(o, w) PROVE Shape'
  <2>1. [pc |-> "selected", owner |-> w, adapter |-> conn[w].key, bound |-> None,
         authorization |-> NoAuthorization, seen |-> NoTest] \in OrderRecords
    BY <1>11, Rows DEF get_broker, AccountsAreOwn, OrderRecords, NoAuthorization, None
  <2> QED
    BY <1>11, <2>1, OrdersShape DEF get_broker
<1>13. ASSUME NEW o \in Orders, CreateOrderIntent(o) PROVE Shape'
  <2>1. orders[o] \in OrderRecords /\ conn[orders[o].owner].revision \in Nat
    BY <1>13, AnOrder DEF CreateOrderIntent, OrderRecords, Shape, TypeOK
  <2> DEFINE r == [orders[o] EXCEPT !.pc = "intent", !.bound = conn[orders[o].owner].revision]
  <2>2. r \in OrderRecords
    BY <2>1 DEF OrderRecords
  <2>3. orders' = [orders EXCEPT ![o] = r]
    BY <1>13 DEF CreateOrderIntent
  <2> QED
    BY <1>13, <2>2, <2>3, OrdersShape DEF CreateOrderIntent
<1>14. ASSUME NEW o \in Orders, DispatchCommitted(o) PROVE Shape'
  <2>1. /\ orders[o] \in OrderRecords /\ head.id \in Nat
        /\ conn[orders[o].owner].test.id \in Nat
    BY <1>14, AnOrder DEF DispatchCommitted, OrderRecords, Shape, TypeOK, TestRows
  <2> DEFINE r == [orders[o] EXCEPT !.pc = "dispatched",
           !.authorization = [head |-> head.id, test |-> conn[orders[o].owner].test.id]]
  <2>2. r \in OrderRecords
    BY <2>1 DEF OrderRecords, BeforeLastControlRead, BeforeLastAccountRead
  <2>3. orders' = [orders EXCEPT ![o] = r]
    BY <1>14 DEF DispatchCommitted
  <2> QED
    BY <1>14, <2>2, <2>3, OrdersShape DEF DispatchCommitted
<1>15. ASSUME NEW o \in Orders, CheckReadsAccount(o) PROVE Shape'
  <2>1. orders[o] \in OrderRecords /\ conn[orders[o].owner].test \in TestRows
    BY <1>15, AnOrder DEF CheckReadsAccount, OrderRecords, Shape, TypeOK
  <2> DEFINE pc == IF orders[o].pc = "paced" THEN "checking_again" ELSE "checking"
             r == [orders[o] EXCEPT !.pc = pc, !.seen = conn[orders[o].owner].test]
  <2>2. pc \in BeforeLastControlRead
    BY DEF BeforeLastControlRead, BeforeLastAccountRead
  <2>3. orders' = [orders EXCEPT ![o] = r]
    BY <1>15 DEF CheckReadsAccount
  <2> HIDE DEF pc
  <2>4. r \in OrderRecords
    BY <2>1, <2>2 DEF OrderRecords
  <2> QED
    BY <1>15, <2>3, <2>4, OrdersShape DEF CheckReadsAccount
<1>16. ASSUME NEW o \in Orders, NEW pc \in {"paced", "cleared", "sent"}, Goes(o, pc),
              orders[o].pc # "none", UNCHANGED <<conn, settings, head, requests, withdrawn>>
       PROVE  Shape'
  <2>1. orders[o] \in OrderRecords
    BY <1>16, AnOrder
  <2>2. [orders[o] EXCEPT !.pc = pc] \in OrderRecords
    BY <2>1 DEF OrderRecords, BeforeLastControlRead, BeforeLastAccountRead
  <2>3. orders' = [orders EXCEPT ![o] = [orders[o] EXCEPT !.pc = pc]]
    BY <1>16 DEF Goes
  <2> QED
    BY <1>16, <2>2, <2>3, OrdersShape
<1>17. ASSUME NEW o \in Orders, CheckReadsControls(o) \/ Send(o) PROVE Shape'
  BY <1>16, <1>17 DEF CheckReadsControls, Send
<1>18. ASSUME NEW o \in Orders, OrderEnds(o) PROVE Shape'
  BY <1>18 DEF OrderEnds, Done, Shape, TypeOK
<1> QED
  BY <1>1, <1>2, <1>3, <1>4, <1>5, <1>6, <1>7, <1>8, <1>9, <1>10, <1>11, <1>13, <1>14, <1>15,
     <1>17, <1>18 DEF Next

-----------------------------------------------------------------------------
(* Steps of the accounts. *)

(* Connect, test and disconnection: one connection changes, and any order of its owner that *)
(* has still to look at it will find it off.                                                *)
AccountSteps(w) ==
  \/ \E c \in Requests : requests[c].owner = w /\ ConnectStores(c)
  \/ \E c \in Requests, ok \in BOOLEAN : requests[c].owner = w /\ TestRecords(c, ok)
  \/ Disconnect(w)
  \/ ReconnectRequired(w)

LEMMA AccountChanges ==
  ASSUME IInv, NEW w \in Owners, AccountSteps(w)
  PROVE  /\ UNCHANGED <<settings, head, orders>>
         /\ WithdrawAccount(w)
         /\ \A v \in Owners \ {w} : conn'[v] = conn[v]
         /\ AccountsAreOwn' /\ TestsAreHonest'
         /\ \A o \in Orders : orders[o].pc # "none" /\ orders[o].owner = w => AccountIsOff(o)'
<1> USE DEF IInv
<1>0. conn \in [Owners -> [revision : Nat, key : Keys \union {NoKey}, active : BOOLEAN,
                          test : TestRows]]
  BY DEF Shape, TypeOK
<1>1. ASSUME NEW c \in Requests, requests[c].owner = w, ConnectStores(c)
      PROVE  /\ UNCHANGED <<settings, head, orders>>
             /\ WithdrawAccount(w)
             /\ \A v \in Owners \ {w} : conn'[v] = conn[v]
             /\ AccountsAreOwn' /\ TestsAreHonest'
             /\ \A o \in Orders : orders[o].pc # "none" /\ orders[o].owner = w => AccountIsOff(o)'
  <2> DEFINE r == Unused(RevisionsInUse)
  <2>1. requests[c].key \in Keys
    BY <1>1, ARequest DEF ConnectStores, RequestRecords
  <2>2. conn' = [conn EXCEPT ![w] = [revision |-> r, key |-> requests[c].key, active |-> TRUE,
                                     test |-> TestRow(TRUE, r, r)]]
    BY <1>1 DEF ConnectStores
  <2>3. /\ r # None /\ \A v \in Owners : conn[v].revision # r
        /\ \A o \in Orders : orders[o].pc # "none" => orders[o].bound # r
    BY RevisionIsNew
  <2>4. TestRow(TRUE, r, r).used = TestRow(TRUE, r, r).binding
    BY DEF TestRow
  <2> HIDE DEF r
  <2>5. UNCHANGED <<settings, head, orders>> /\ WithdrawAccount(w)
    BY <1>1 DEF ConnectStores
  <2>6. AccountsAreOwn' /\ TestsAreHonest'
    BY <1>0, <2>1, <2>2, <2>3, <2>4 DEF AccountsAreOwn, TestsAreHonest
  <2>7. \A o \in Orders : orders[o].pc # "none" /\ orders[o].owner = w => AccountIsOff(o)'
    BY <1>0, <2>2, <2>3, <2>5 DEF AccountIsOff
  <2> QED
    BY <1>0, <2>2, <2>5, <2>6, <2>7
<1>2. ASSUME NEW c \in Requests, NEW ok \in BOOLEAN, requests[c].owner = w, TestRecords(c, ok)
      PROVE  /\ UNCHANGED <<settings, head, orders>>
             /\ WithdrawAccount(w)
             /\ \A v \in Owners \ {w} : conn'[v] = conn[v]
             /\ AccountsAreOwn' /\ TestsAreHonest'
             /\ \A o \in Orders : orders[o].pc # "none" /\ orders[o].owner = w => AccountIsOff(o)'
  <2> DEFINE t == TestRow(ok, conn[w].revision, requests[c].expected.revision)
  <2>1. requests[c].expected.revision = conn[w].revision
    BY <1>2 DEF TestRecords, Unchanged, _revision
  <2>2. t.used = conn[w].revision
        /\ \A o \in Orders : orders[o].pc # "none" => orders[o].authorization.test # t.id
    BY <2>1, TestIsNew DEF TestRow
  <2>3. conn' = [conn EXCEPT ![w] = [conn[w] EXCEPT !.test = t]]
    BY <1>2 DEF TestRecords
  <2> HIDE DEF t
  <2>4. UNCHANGED <<settings, head, orders>> /\ WithdrawAccount(w)
    BY <1>2 DEF TestRecords
  <2>5. AccountsAreOwn' /\ TestsAreHonest'
    BY <1>0, <2>2, <2>3 DEF AccountsAreOwn, TestsAreHonest
  <2>6. \A o \in Orders : orders[o].pc # "none" /\ orders[o].owner = w => AccountIsOff(o)'
    BY <1>0, <2>2, <2>3, <2>4 DEF AccountIsOff
  <2> QED
    BY <1>0, <2>3, <2>4, <2>5, <2>6
<1>3. CASE Disconnect(w) \/ ReconnectRequired(w)
  <2>1. UNCHANGED <<settings, head, orders>> /\ WithdrawAccount(w)
    BY <1>3 DEF Disconnect, ReconnectRequired
  <2>2. /\ \A v \in Owners \ {w} : conn'[v] = conn[v]
        /\ ~conn'[w].active /\ conn'[w].revision = conn[w].revision
        /\ conn'[w].test.id = conn[w].test.id /\ conn'[w].test.used = conn[w].test.used
        /\ conn'[w].test.binding = conn[w].test.binding
    <3>1. CASE conn' = [conn EXCEPT ![w] = [conn[w] EXCEPT !.active = FALSE]]
      BY <1>0, <3>1
    <3>2. CASE conn' = [conn EXCEPT ![w] = [conn[w] EXCEPT
                          !.active = FALSE, !.test = [conn[w].test EXCEPT !.ok = FALSE]]]
      <4>1. conn[w].test \in TestRows
        BY <1>0
      <4>2. LET t == [conn[w].test EXCEPT !.ok = FALSE] IN
              t.id = conn[w].test.id /\ t.used = conn[w].test.used
                /\ t.binding = conn[w].test.binding
        BY <4>1 DEF TestRows
      <4> QED
        BY <1>0, <3>2, <4>2
    <3> QED
      BY <1>3, <3>1, <3>2 DEF Disconnect, ReconnectRequired
  <2>3. AccountsAreOwn' /\ TestsAreHonest'
    BY <1>0, <2>2 DEF AccountsAreOwn, TestsAreHonest
  <2>4. \A o \in Orders : orders[o].pc # "none" /\ orders[o].owner = w => AccountIsOff(o)'
    BY <2>1, <2>2 DEF AccountIsOff
  <2> QED
    BY <2>1, <2>2, <2>3, <2>4
<1> QED
  BY <1>1, <1>2, <1>3 DEF AccountSteps

LEMMA AccountStepsPreserve ==
  ASSUME IInv, NEW w \in Owners, AccountSteps(w)
  PROVE  AccountsAreOwn' /\ TestsAreHonest' /\ WithdrawnIsSeen' /\ OrdersBelongToTheUnlocker'
<1>1. /\ UNCHANGED <<settings, head, orders>>
      /\ \A v \in Owners \ {w} : conn'[v] = conn[v]
      /\ AccountsAreOwn' /\ TestsAreHonest'
      /\ \A o \in Orders : orders[o].pc # "none" /\ orders[o].owner = w => AccountIsOff(o)'
  BY AccountChanges
<1>2. \A o \in Orders :
        withdrawn'[o] = IF orders[o].pc \in BeforeLastAccountRead /\ orders[o].owner = w
                          THEN withdrawn[o] \union {"account"} ELSE withdrawn[o]
  BY AccountChanges DEF WithdrawAccount, Withdraw
<1>3. ASSUME NEW o \in Orders, orders[o].pc \in BeforeLastAccountRead, "account" \in withdrawn'[o]
      PROVE  AccountIsOff(o)'
  <2>1. CASE orders[o].owner = w
    BY <1>1, <1>3, <2>1 DEF BeforeLastAccountRead
  <2>2. CASE orders[o].owner # w
    <3>1. "account" \in withdrawn[o] /\ orders[o].owner \in Owners
      BY <1>2, <1>3, <2>2, AnOrder DEF BeforeLastAccountRead, OrderRecords, IInv
    <3>2. AccountIsOff(o)
      BY <1>3, <3>1 DEF IInv, WithdrawnIsSeen
    <3> QED
      BY <1>1, <2>2, <3>1, <3>2 DEF AccountIsOff
  <2> QED
    BY <2>1, <2>2
<1>4. WithdrawnIsSeen'
  <2>1. ASSUME NEW o \in Orders
        PROVE  /\ orders[o].pc \notin BeforeLastAccountRead => withdrawn'[o] = withdrawn[o]
               /\ \A x \in withdrawn'[o] : x # "account" => x \in withdrawn[o]
    BY <1>2
  <2>2. BeforeLastAccountRead \subseteq BeforeLastControlRead
        /\ "checking_again" \notin BeforeLastAccountRead
    BY DEF BeforeLastControlRead, BeforeLastAccountRead
  <2>3. ASSUME NEW o \in Orders, orders[o].pc \notin BeforeLastControlRead
        PROVE  withdrawn'[o] = {}
    BY <2>1, <2>2, <2>3 DEF IInv, WithdrawnIsSeen
  <2>4. ASSUME NEW o \in Orders, orders[o].pc \in BeforeLastControlRead
        PROVE  /\ "evidence" \in withdrawn'[o] => head.id # orders[o].authorization.head
               /\ "halt" \in withdrawn'[o] => settings.kill
               /\ orders[o].pc = "checking_again" /\ "account" \in withdrawn'[o] =>
                    orders[o].seen.id # orders[o].authorization.test
    BY <2>1, <2>2, <2>4 DEF IInv, WithdrawnIsSeen
  <2>5. orders' = orders /\ head' = head /\ settings' = settings
    BY <1>1
  <2>6. ASSUME NEW o \in Orders, orders'[o].pc = "checking_again"
        PROVE  orders[o].pc \in BeforeLastControlRead
    BY <2>5, <2>6 DEF BeforeLastControlRead
  <2> QED
    BY <1>3, <2>3, <2>4, <2>5, <2>6 DEF WithdrawnIsSeen
<1>5. OrdersBelongToTheUnlocker'
  BY <1>1 DEF IInv, OrdersBelongToTheUnlocker
<1> QED
  BY <1>1, <1>4, <1>5

-----------------------------------------------------------------------------
(* Steps of the evidence and of the switch. *)

EvidenceSteps == (\E w \in Owners, a \in FIELDS : Record(w, a)) \/ lock_live

LEMMA EvidenceIsReplaced ==
  ASSUME IInv, EvidenceSteps
  PROVE  /\ UNCHANGED <<conn, requests, orders>>
         /\ settings'.kill = settings.kill
         /\ Withdraw("evidence", BeforeLastControlRead, Owners)
         /\ head'.id = Unused(HeadsInUse)
<1> USE DEF IInv
<1>1. ASSUME NEW w \in Owners, NEW a \in FIELDS, Record(w, a)
      PROVE  head'.id = Unused(HeadsInUse) /\ settings'.kill = settings.kill
  BY <1>1, WrittenHead DEF Record, Shape, TypeOK
<1>2. CASE lock_live
  BY <1>2 DEF lock_live, Snapshot, Shape, TypeOK
<1> QED
  BY <1>1, <1>2 DEF EvidenceSteps, Record, lock_live

LEMMA EvidenceStepsPreserve ==
  ASSUME IInv, EvidenceSteps
  PROVE  AccountsAreOwn' /\ TestsAreHonest' /\ WithdrawnIsSeen' /\ OrdersBelongToTheUnlocker'
<1>1. /\ conn' = conn /\ orders' = orders
      /\ settings'.kill = settings.kill
      /\ \A o \in Orders : orders[o].pc # "none" => orders[o].authorization.head # head'.id
  BY EvidenceIsReplaced, HeadIsNew DEF IInv
<1>2. ASSUME NEW o \in Orders
      PROVE  /\ orders[o].pc \notin BeforeLastControlRead => withdrawn'[o] = withdrawn[o]
             /\ withdrawn'[o] \subseteq withdrawn[o] \union {"evidence"}
  BY EvidenceIsReplaced DEF Withdraw
<1>3. AccountsAreOwn' /\ TestsAreHonest'
  BY <1>1 DEF IInv, AccountsAreOwn, TestsAreHonest
<1>4. OrdersBelongToTheUnlocker'
  BY <1>1 DEF OrdersBelongToTheUnlocker, BeforeLastControlRead, BeforeLastAccountRead
<1>5. WithdrawnIsSeen'
  <2>1. ASSUME NEW o \in Orders, orders[o].pc \notin BeforeLastControlRead
        PROVE  withdrawn'[o] = {}
    BY <1>2, <2>1 DEF IInv, WithdrawnIsSeen
  <2>2. ASSUME NEW o \in Orders, orders[o].pc \in BeforeLastControlRead
        PROVE  /\ "evidence" \in withdrawn'[o] => head'.id # orders[o].authorization.head
               /\ "halt" \in withdrawn'[o] => settings.kill
               /\ "account" \in withdrawn'[o] => "account" \in withdrawn[o]
    BY <1>1, <1>2, <2>2 DEF IInv, WithdrawnIsSeen, BeforeLastControlRead, BeforeLastAccountRead
  <2>3. ASSUME NEW o \in Orders, orders[o].pc \in BeforeLastControlRead, "account" \in withdrawn'[o]
        PROVE  /\ orders[o].pc \in BeforeLastAccountRead => AccountIsOff(o)'
               /\ orders[o].pc = "checking_again" =>
                    orders[o].seen.id # orders[o].authorization.test
    BY <1>1, <2>2, <2>3 DEF IInv, WithdrawnIsSeen, AccountIsOff
  <2> QED
    BY <1>1, <2>1, <2>2, <2>3 DEF WithdrawnIsSeen, BeforeLastControlRead
<1> QED
  BY <1>3, <1>4, <1>5

LEMMA SwitchPreserves ==
  ASSUME IInv, Halt \/ Release
  PROVE  AccountsAreOwn' /\ TestsAreHonest' /\ WithdrawnIsSeen' /\ OrdersBelongToTheUnlocker'
<1>1. conn' = conn /\ orders' = orders /\ head' = head
  BY DEF Halt, Release
<1>2. ASSUME NEW o \in Orders
      PROVE  /\ orders[o].pc \notin BeforeLastControlRead => withdrawn'[o] \subseteq withdrawn[o]
             /\ withdrawn'[o] \subseteq withdrawn[o] \union {"halt"}
             /\ "halt" \in withdrawn'[o] => settings'.kill
  <2>1. CASE Halt
    BY <2>1 DEF Halt, Withdraw, IInv, Shape, TypeOK
  <2>2. CASE Release
    BY <2>2 DEF Release
  <2> QED
    BY <2>1, <2>2
<1>3. WithdrawnIsSeen'
  <2>1. ASSUME NEW o \in Orders, orders[o].pc \notin BeforeLastControlRead
        PROVE  withdrawn'[o] = {}
    BY <1>2, <2>1 DEF IInv, WithdrawnIsSeen
  <2>2. ASSUME NEW o \in Orders
        PROVE  /\ "evidence" \in withdrawn'[o] => "evidence" \in withdrawn[o]
               /\ "account" \in withdrawn'[o] => "account" \in withdrawn[o]
               /\ AccountIsOff(o)' = AccountIsOff(o)
    BY <1>1, <1>2 DEF AccountIsOff
  <2> QED
    BY <1>1, <1>2, <2>1, <2>2 DEF IInv, WithdrawnIsSeen
<1> QED
  BY <1>1, <1>3 DEF IInv, AccountsAreOwn, TestsAreHonest, OrdersBelongToTheUnlocker

LEMMA TimePasses ==
  ASSUME IInv, Expire
  PROVE  /\ UNCHANGED <<settings, requests, withdrawn>>
         /\ \A w \in Owners :
              /\ conn'[w].revision = conn[w].revision /\ conn'[w].key = conn[w].key
              /\ conn'[w].active = conn[w].active
              /\ conn'[w].test.id = conn[w].test.id /\ conn'[w].test.used = conn[w].test.used
              /\ conn'[w].test.binding = conn[w].test.binding
         /\ head'.id = head.id /\ head'.binding = head.binding
         /\ head'.references = head.references /\ head'.tests = head.tests
         /\ head'.unlocked_on = head.unlocked_on
         /\ head'.ages = [f \in DOMAIN head.ages |-> Older(head.ages[f])]
         /\ \A o \in Orders :
              /\ orders'[o].pc = orders[o].pc
              /\ orders[o].pc # "none" =>
                   /\ orders'[o].owner = orders[o].owner /\ orders'[o].bound = orders[o].bound
                   /\ orders'[o].authorization = orders[o].authorization
                   /\ orders'[o].seen.id = orders[o].seen.id
<1> USE DEF IInv
<1>1. ASSUME NEW w \in Owners
      PROVE  /\ conn'[w].revision = conn[w].revision /\ conn'[w].key = conn[w].key
             /\ conn'[w].active = conn[w].active
             /\ conn'[w].test.id = conn[w].test.id /\ conn'[w].test.used = conn[w].test.used
             /\ conn'[w].test.binding = conn[w].test.binding
  <2> DEFINE t == [conn[w].test EXCEPT !.age = Older(conn[w].test.age)]
  <2>1. conn[w].test \in TestRows
    BY DEF Shape, TypeOK
  <2>2. t.id = conn[w].test.id /\ t.used = conn[w].test.used /\ t.binding = conn[w].test.binding
    BY <2>1 DEF TestRows
  <2>3. conn'[w] = [conn[w] EXCEPT !.test = t]
    BY DEF Expire
  <2> HIDE DEF t
  <2> QED
    BY <2>2, <2>3 DEF Shape, TypeOK
<1>2. ASSUME NEW o \in Orders
      PROVE  /\ orders'[o].pc = orders[o].pc
             /\ orders[o].pc # "none" =>
                  /\ orders'[o].owner = orders[o].owner /\ orders'[o].bound = orders[o].bound
                  /\ orders'[o].authorization = orders[o].authorization
                  /\ orders'[o].seen.id = orders[o].seen.id
  <2>1. CASE orders[o].pc = "none"
    BY <2>1 DEF Expire, NoOrder
  <2>2. CASE orders[o].pc # "none"
    <3> DEFINE t == [orders[o].seen EXCEPT !.age = Older(orders[o].seen.age)]
    <3>1. orders[o] \in OrderRecords
      BY <2>2, AnOrder
    <3>2. t.id = orders[o].seen.id
      BY <3>1 DEF OrderRecords, TestRows
    <3>3. orders'[o] = [orders[o] EXCEPT !.seen = t]
      BY <2>2 DEF Expire
    <3> HIDE DEF t
    <3> QED
      BY <3>1, <3>2, <3>3 DEF OrderRecords
  <2> QED
    BY <2>1, <2>2
<1>3. /\ head'.id = head.id /\ head'.binding = head.binding
      /\ head'.references = head.references /\ head'.tests = head.tests
      /\ head'.unlocked_on = head.unlocked_on
      /\ head'.ages = [f \in DOMAIN head.ages |-> Older(head.ages[f])]
  <2> DEFINE ages == [f \in DOMAIN head.ages |-> Older(head.ages[f])]
  <2>1. head' = [head EXCEPT !.ages = ages]
    BY DEF Expire
  <2> HIDE DEF ages
  <2>2. head'.ages = ages
    BY <2>1 DEF Shape, IsHead
  <2> QED
    BY <2>1, <2>2 DEF Shape, IsHead, ages
<1> QED
  BY <1>1, <1>2, <1>3 DEF Expire

LEMMA TimePreserves ==
  ASSUME IInv, Expire
  PROVE  AccountsAreOwn' /\ TestsAreHonest' /\ WithdrawnIsSeen' /\ OrdersBelongToTheUnlocker'
<1>1. AccountsAreOwn' /\ TestsAreHonest'
  BY TimePasses DEF IInv, AccountsAreOwn, TestsAreHonest
<1>2. OrdersBelongToTheUnlocker'
  BY TimePasses DEF IInv, OrdersBelongToTheUnlocker, BeforeLastControlRead, BeforeLastAccountRead
<1>3. ASSUME NEW o \in Orders, orders[o].pc # "none"
      PROVE  AccountIsOff(o)' = AccountIsOff(o)
  <2>1. orders[o].owner \in Owners
    BY <1>3, AnOrder DEF IInv, OrderRecords
  <2> QED
    BY <1>3, <2>1, TimePasses DEF AccountIsOff
<1>4. WithdrawnIsSeen'
  BY <1>3, TimePasses DEF IInv, WithdrawnIsSeen, BeforeLastControlRead, BeforeLastAccountRead
<1> QED
  BY <1>1, <1>2, <1>4

-----------------------------------------------------------------------------
(* Steps of an order. *)

OrderSteps(o) ==
  \/ \E w \in Owners : get_broker(o, w)
  \/ CreateOrderIntent(o)
  \/ DispatchCommitted(o)
  \/ CheckReadsAccount(o)
  \/ CheckReadsControls(o)
  \/ Send(o)
  \/ OrderEnds(o)

(* Readiness rests on an unlock of the connection it is asked for. *)
LEMMA ReadyIsUnlocked ==
  ASSUME NEW c, ReadyForLive(c)
  PROVE  head.binding = c.revision /\ Unlock \in DOMAIN head.references
<1>1. Unlock \in validated_evidence(c)
  BY DEF ReadyForLive, FreshEvidence
<1> QED
  BY <1>1 DEF validated_evidence

(* What is to be shown of the order at hand, after its step. *)
Passes(o) ==
  /\ orders[o].pc \notin BeforeLastControlRead => withdrawn[o] = {}
  /\ orders[o].pc \in BeforeLastControlRead =>
       /\ "evidence" \in withdrawn[o] => head.id # orders[o].authorization.head
       /\ "halt" \in withdrawn[o] => settings.kill
       /\ orders[o].authorization.head = head.id =>
            head.binding = orders[o].bound /\ Unlock \in DOMAIN head.references
  /\ orders[o].pc \in BeforeLastAccountRead /\ "account" \in withdrawn[o] => AccountIsOff(o)
  /\ orders[o].pc = "checking_again" /\ "account" \in withdrawn[o] =>
       orders[o].seen.id # orders[o].authorization.test

LEMMA AllPass ==
  (WithdrawnIsSeen /\ OrdersBelongToTheUnlocker) <=> \A o \in Orders : Passes(o)
  BY DEF WithdrawnIsSeen, OrdersBelongToTheUnlocker, Passes

LEMMA OrderPasses ==
  ASSUME IInv, NEW o \in Orders, OrderSteps(o)
  PROVE  Passes(o)'
<1> USE DEF BeforeLastControlRead, BeforeLastAccountRead
<1>1. Passes(o) /\ orders \in [Orders -> {NoOrder} \union OrderRecords]
  BY AllPass DEF IInv, Shape
<1>2. ASSUME NEW w \in Owners, get_broker(o, w) PROVE Passes(o)'
  BY <1>1, <1>2 DEF get_broker, Passes
<1>3. CASE CreateOrderIntent(o)
  <2>1. orders[o] \in OrderRecords
    BY <1>3, AnOrder DEF CreateOrderIntent, IInv
  <2>2. orders'[o].pc = "intent" /\ withdrawn' = withdrawn /\ orders[o].pc = "selected"
    BY <1>1, <1>3, <2>1 DEF CreateOrderIntent, OrderRecords
  <2> QED
    BY <1>1, <2>2 DEF Passes
<1>4. CASE DispatchCommitted(o)
  <2> DEFINE c == conn[orders[o].owner]
  <2>1. orders[o] \in OrderRecords
    BY <1>4, AnOrder DEF DispatchCommitted, IInv
  <2>2. /\ orders'[o].pc = "dispatched" /\ orders'[o].bound = orders[o].bound
        /\ UNCHANGED <<conn, settings, head, requests, withdrawn>>
    BY <1>1, <1>4, <2>1 DEF DispatchCommitted, OrderRecords
  <2>3. withdrawn[o] = {}
    BY <1>1, <1>4 DEF DispatchCommitted, Passes
  <2>4. head.binding = orders[o].bound /\ Unlock \in DOMAIN head.references
    BY <1>4, ReadyIsUnlocked DEF DispatchCommitted, AccountIsTheOrders
  <2> QED
    BY <2>2, <2>3, <2>4 DEF Passes
<1>5. CASE CheckReadsAccount(o)
  <2> DEFINE pc == IF orders[o].pc = "paced" THEN "checking_again" ELSE "checking"
             c == conn[orders[o].owner]
  <2>1. orders[o] \in OrderRecords
    BY <1>5, AnOrder DEF CheckReadsAccount, IInv
  <2>2. /\ orders'[o].pc = pc /\ orders'[o].seen = c.test /\ orders'[o].owner = orders[o].owner
        /\ orders'[o].bound = orders[o].bound
        /\ orders'[o].authorization = orders[o].authorization
        /\ UNCHANGED <<conn, settings, head, requests, withdrawn>>
    BY <1>1, <1>5, <2>1 DEF CheckReadsAccount, OrderRecords
  <2>3. c.active /\ c.revision = orders[o].bound
    BY <1>5 DEF CheckReadsAccount, AccountIsTheOrders, AdapterIsBound
  <2>4. "account" \in withdrawn[o] => AccountIsOff(o) /\ c.test.id # orders[o].authorization.test
    BY <1>1, <1>5, <2>3 DEF CheckReadsAccount, Passes, AccountIsOff
  <2>5. AccountIsOff(o)' = AccountIsOff(o)
    BY <2>2 DEF AccountIsOff
  <2> QED
    BY <1>1, <1>5, <2>2, <2>4, <2>5 DEF CheckReadsAccount, Passes
<1>6. CASE CheckReadsControls(o)
  <2>1. orders[o] \in OrderRecords
    BY <1>6, AnOrder DEF CheckReadsControls, IInv
  <2>2. /\ orders'[o] = [orders[o] EXCEPT
               !.pc = IF orders[o].pc = "checking" THEN "paced" ELSE "cleared"]
        /\ UNCHANGED <<conn, settings, head, requests, withdrawn>>
    BY <1>1, <1>6 DEF CheckReadsControls, Goes
  <2>3. CASE orders[o].pc = "checking"
    <3>1. /\ orders'[o].pc = "paced" /\ orders'[o].owner = orders[o].owner
          /\ orders'[o].bound = orders[o].bound
          /\ orders'[o].authorization = orders[o].authorization
      BY <2>1, <2>2, <2>3 DEF OrderRecords
    <3>2. AccountIsOff(o)' = AccountIsOff(o)
      BY <2>2, <3>1 DEF AccountIsOff
    <3> QED
      BY <1>1, <2>2, <2>3, <3>1, <3>2 DEF Passes
  <2>4. CASE orders[o].pc = "checking_again"
    <3>1. orders'[o].pc = "cleared"
      BY <2>1, <2>2, <2>4 DEF OrderRecords
    <3>2. /\ orders[o].authorization.head = head.id
          /\ orders[o].authorization.test = orders[o].seen.id
          /\ ~settings.kill
      BY <1>6 DEF CheckReadsControls, StillAuthorized, ReadyForLive, EligibleForUnlock
    <3>3. withdrawn[o] = {}
      BY <1>1, <2>4, <3>2 DEF Passes, IInv, Shape, TypeOK
    <3> QED
      BY <2>2, <3>1, <3>3 DEF Passes
  <2> QED
    BY <1>6, <2>3, <2>4 DEF CheckReadsControls
<1>7. CASE Send(o)
  <2>1. orders[o] \in OrderRecords
    BY <1>7, AnOrder DEF Send, IInv
  <2>2. orders'[o].pc = "sent" /\ withdrawn' = withdrawn /\ orders[o].pc = "cleared"
    BY <1>1, <1>7, <2>1 DEF Send, Goes, OrderRecords
  <2> QED
    BY <1>1, <2>2 DEF Passes
<1>8. CASE OrderEnds(o)
  <2>1. orders'[o].pc = "none" /\ withdrawn'[o] = {}
    BY <1>1, <1>8 DEF OrderEnds, Done, NoOrder, IInv, Shape, TypeOK
  <2> QED
    BY <2>1 DEF Passes
<1> QED
  BY <1>2, <1>3, <1>4, <1>5, <1>6, <1>7, <1>8 DEF OrderSteps

LEMMA OrderStepsPreserve ==
  ASSUME IInv, NEW o \in Orders, OrderSteps(o)
  PROVE  AccountsAreOwn' /\ TestsAreHonest' /\ WithdrawnIsSeen' /\ OrdersBelongToTheUnlocker'
<1>1. /\ UNCHANGED <<conn, settings, head, requests>>
      /\ \A p \in Orders \ {o} : orders'[p] = orders[p] /\ withdrawn'[p] = withdrawn[p]
  BY DEF OrderSteps, get_broker, CreateOrderIntent, DispatchCommitted, CheckReadsAccount,
     CheckReadsControls, Send, OrderEnds, Goes, Done, IInv, Shape, TypeOK
<1>2. ASSUME NEW p \in Orders \ {o} PROVE Passes(p)'
  <2>1. Passes(p)
    BY AllPass DEF IInv
  <2>2. AccountIsOff(p)' = AccountIsOff(p)
    BY <1>1 DEF AccountIsOff
  <2> QED
    BY <1>1, <2>1, <2>2 DEF Passes
<1>3. WithdrawnIsSeen' /\ OrdersBelongToTheUnlocker'
  <2>1. \A p \in Orders : Passes(p)'
    BY <1>2, OrderPasses
  <2>2. (WithdrawnIsSeen' /\ OrdersBelongToTheUnlocker') <=> \A p \in Orders : Passes(p)'
    BY DEF WithdrawnIsSeen, OrdersBelongToTheUnlocker, Passes
  <2> QED
    BY <2>1, <2>2
<1> QED
  BY <1>1, <1>3 DEF IInv, AccountsAreOwn, TestsAreHonest

-----------------------------------------------------------------------------
LEMMA InitIsSafe == Init => IInv
<1> SUFFICES ASSUME Init PROVE IInv
  OBVIOUS
<1>1. NoConnection \in [revision : Nat, key : Keys \union {NoKey}, active : BOOLEAN,
                        test : TestRows]
  BY Rows DEF NoConnection, None
<1>2. Shape
  BY <1>1 DEF Init, Shape, TypeOK, IsHead, IsMap, Snapshot, NoFunction, None
<1>3. AccountsAreOwn /\ TestsAreHonest
  BY DEF Init, AccountsAreOwn, TestsAreHonest, NoConnection, NoTest
<1>4. WithdrawnIsSeen /\ OrdersBelongToTheUnlocker
  BY DEF Init, WithdrawnIsSeen, OrdersBelongToTheUnlocker, NoOrder, BeforeLastControlRead,
     BeforeLastAccountRead
<1> QED
  BY <1>2, <1>3, <1>4 DEF IInv

LEMMA StepsOfNext ==
  ASSUME IInv, Next
  PROVE  \/ UNCHANGED <<conn, settings, head, orders, withdrawn>>
         \/ \E w \in Owners : AccountSteps(w)
         \/ EvidenceSteps
         \/ Halt \/ Release
         \/ Expire
         \/ \E o \in Orders : OrderSteps(o)
<1>1. ASSUME NEW c \in Requests, ConnectStores(c) PROVE \E w \in Owners : AccountSteps(w)
  <2>1. requests[c].owner \in Owners
    BY <1>1, ARequest DEF ConnectStores, IInv, RequestRecords
  <2> QED
    BY <1>1, <2>1 DEF AccountSteps
<1>2. ASSUME NEW c \in Requests, NEW ok \in BOOLEAN, TestRecords(c, ok)
      PROVE  \E w \in Owners : AccountSteps(w)
  <2>1. requests[c].owner \in Owners
    BY <1>2, ARequest DEF TestRecords, IInv, RequestRecords
  <2> QED
    BY <1>2, <2>1 DEF AccountSteps
<1>3. ASSUME NEW w \in Owners, Disconnect(w) \/ ReconnectRequired(w)
      PROVE  \E v \in Owners : AccountSteps(v)
  BY <1>3 DEF AccountSteps
<1>4. ASSUME NEW c \in Requests,
             \/ RequestEnds(c)
             \/ \E w \in Owners : BeginTest(c, w)
             \/ \E w \in Owners, k \in Keys : BeginConnect(c, w, k)
      PROVE  UNCHANGED <<conn, settings, head, orders, withdrawn>>
  BY <1>4 DEF RequestEnds, BeginTest, BeginConnect
<1> QED
  BY <1>1, <1>2, <1>3, <1>4 DEF Next, EvidenceSteps, OrderSteps

LEMMA StepsPreserve == IInv /\ [Next]_vars => IInv'
<1> SUFFICES ASSUME IInv, [Next]_vars PROVE IInv'
  OBVIOUS
<1>1. CASE UNCHANGED vars
  BY <1>1 DEF IInv, Shape, TypeOK, IsHead, IsMap, AccountsAreOwn, TestsAreHonest,
     WithdrawnIsSeen, AccountIsOff, OrdersBelongToTheUnlocker, vars
<1>2. CASE Next
  <2>1. Shape'
    BY <1>2, ShapeStays DEF IInv
  <2>2. ASSUME UNCHANGED <<conn, settings, head, orders, withdrawn>>
        PROVE  /\ AccountsAreOwn' /\ TestsAreHonest'
               /\ WithdrawnIsSeen' /\ OrdersBelongToTheUnlocker'
    BY <2>2 DEF IInv, AccountsAreOwn, TestsAreHonest, WithdrawnIsSeen, AccountIsOff,
       OrdersBelongToTheUnlocker
  <2> QED
    BY <1>2, <2>1, <2>2, StepsOfNext, AccountStepsPreserve, EvidenceStepsPreserve,
       SwitchPreserves, TimePreserves, OrderStepsPreserve DEF IInv
<1> QED
  BY <1>1, <1>2

\* The inductive invariant: whatever is withdrawn from an order on its way can be seen where
\* the order is going to look, and numbers on record are never given out again.
THEOREM WithdrawalIsAlwaysSeen == Spec => []IInv
  BY InitIsSafe, StepsPreserve, PTL DEF Spec

\* Every order that leaves has the permission of its own account: nothing it rests on was
\* withdrawn between the commit of its dispatch and the last look at it, for any owners,
\* orders, tests and credentials (live_dispatch.last_mile, live_evidence).
THEOREM OnlyPermittedEverLeave == Spec => []OnlyPermittedOrdersLeave
<1>1. IInv => OnlyPermittedOrdersLeave
  <2> SUFFICES ASSUME IInv PROVE OnlyPermittedOrdersLeave
    OBVIOUS
  <2>1. WithdrawnIsNotSent
    BY DEF IInv, WithdrawnIsSeen, WithdrawnIsNotSent, BeforeLastControlRead, BeforeLastAccountRead
  <2>2. TestIsOfTheseCredentials
    BY DEF IInv, TestsAreHonest, TestIsOfTheseCredentials, CurrentTestValid
  <2> QED
    BY <2>1, <2>2 DEF OnlyPermittedOrdersLeave, IInv, Shape
<1> QED
  BY <1>1, WithdrawalIsAlwaysSeen, PTL

-----------------------------------------------------------------------------
(* The evidence implements LivePermission, step by step. *)

Granted(w) == {f \in FreshEvidence(conn[w]) : f = Unlock => settings.unlocked}

GrantedIs(w, f) ==
  /\ conn[w].active /\ head.binding = conn[w].revision
  /\ f \in DOMAIN head.references
  /\ f \in Tested => head.tests[f] = conn[w].test.id
  /\ f = Unlock => UnlockStands /\ settings.unlocked
  /\ Fresh(head.ages[f])

LEMMA WhatIsGranted ==
  /\ \A w, f : f \in Granted(w) <=> GrantedIs(w, f)
  /\ \A w, f : f \in FreshEvidence(conn[w]) => head.binding = conn[w].revision
  BY DEF Granted, GrantedIs, FreshEvidence, validated_evidence

Grant(w, a) ==
  /\ a = Unlock => FIELDS \ {Unlock} \subseteq Granted(w)
  /\ Granted(w)' \subseteq (Granted(w) \ {Unlock}) \union {a}
  /\ \A v \in Owners \ {w} : Granted(v)' = {}

LEMMA RecordGrants ==
  ASSUME IInv, NEW w \in Owners, NEW a \in FIELDS, Record(w, a)
  PROVE  Grant(w, a)
<1>1. conn' = conn /\ write_head(w, a) /\ conn[w].active
  BY DEF Record
<1>2. /\ head'.binding = conn[w].revision
      /\ \A f \in DOMAIN head'.references \ {a} :
           /\ head.binding = conn[w].revision
           /\ f \in DOMAIN head.references
           /\ head'.ages[f] = head.ages[f]
           /\ f \in Tested => head'.tests[f] = head.tests[f]
      /\ a # Unlock => head'.unlocked_on # head'.references
  BY <1>1, WrittenHead DEF IInv
<1>3. ASSUME a = Unlock PROVE FIELDS \ {Unlock} \subseteq Granted(w)
  BY <1>3 DEF Record, EligibleForUnlock, Granted
<1>4. ASSUME NEW f, f \in Granted(w)', f # a PROVE f \in Granted(w) /\ f # Unlock
  <2>1. GrantedIs(w, f)'
    BY <1>4, WhatIsGranted DEF Granted, GrantedIs, FreshEvidence, validated_evidence
  <2>2. f # Unlock
    BY <1>2, <1>4, <2>1 DEF GrantedIs, UnlockStands
  <2>3. GrantedIs(w, f)
    BY <1>1, <1>2, <1>4, <2>1, <2>2 DEF GrantedIs
  <2> QED
    BY <2>2, <2>3, WhatIsGranted
<1>5. ASSUME NEW v \in Owners \ {w} PROVE Granted(v)' = {}
  <2>1. conn[v].active => conn[v].revision # conn[w].revision
    BY <1>1 DEF IInv, AccountsAreOwn
  <2> QED
    BY <1>1, <1>2, <2>1 DEF Granted, FreshEvidence, validated_evidence
<1> QED
  BY <1>3, <1>4, <1>5 DEF Grant

LEMMA OthersTakeAway ==
  ASSUME IInv, Next, NEW w \in Owners
  PROVE  Granted(w)' \subseteq Granted(w) \/ \E v \in Owners, a \in FIELDS : Grant(v, a)
<1>1. CASE UNCHANGED <<conn, settings, head>>
  BY <1>1 DEF Granted, FreshEvidence, validated_evidence, UnlockStands
<1>2. ASSUME NEW v \in Owners, AccountSteps(v) PROVE Granted(w)' \subseteq Granted(w)
  <2>1. settings' = settings /\ head' = head /\ \A u \in Owners \ {v} : conn'[u] = conn[u]
    BY <1>2, AccountChanges
  <2>2. CASE w # v
    BY <2>1, <2>2 DEF Granted, FreshEvidence, validated_evidence, UnlockStands
  <2>3. CASE w = v
    <3>1. ASSUME NEW f, f \in Granted(w)' PROVE f \in Granted(w)
      <4>1. GrantedIs(w, f)'
        BY <3>1 DEF Granted, GrantedIs, FreshEvidence, validated_evidence
      <4>2. GrantedIs(w, f)
        <5>1. ASSUME NEW c \in Requests, ConnectStores(c), requests[c].owner = w PROVE FALSE
          <6>1. conn'[w].revision = Unused(RevisionsInUse)
            BY <5>1 DEF ConnectStores, IInv, Shape, TypeOK
          <6> QED
            BY <2>1, <4>1, <6>1, RevisionIsNew DEF GrantedIs
        <5>2. ASSUME NEW c \in Requests, NEW ok \in BOOLEAN, TestRecords(c, ok),
                     requests[c].owner = w
              PROVE  GrantedIs(w, f)
          <6> DEFINE t == TestRow(ok, conn[w].revision, requests[c].expected.revision)
          <6>1. conn' = [conn EXCEPT ![w] = [conn[w] EXCEPT !.test = t]]
            BY <5>2 DEF TestRecords
          <6>2. t.id = Unused(TestsInUse)
            BY DEF TestRow
          <6> HIDE DEF t
          <6>3. /\ conn'[w].active = conn[w].active /\ conn'[w].revision = conn[w].revision
                /\ conn'[w].test.id = Unused(TestsInUse)
            BY <6>1, <6>2 DEF IInv, Shape, TypeOK
          <6>4. f \notin Tested
            <7>1. f \in Tested => f \in DOMAIN head.tests
              BY <2>1, <4>1 DEF GrantedIs, IInv, Shape, TypeOK
            <7> QED
              BY <2>1, <4>1, <6>3, <7>1, TestIsNew DEF GrantedIs, IInv
          <6> QED
            BY <2>1, <4>1, <6>3, <6>4 DEF GrantedIs, Tested, UnlockStands
        <5>3. CASE Disconnect(w) \/ ReconnectRequired(w)
          <6>1. ~conn'[w].active
            BY <5>3 DEF Disconnect, ReconnectRequired, IInv, Shape, TypeOK
          <6> QED
            BY <4>1, <6>1 DEF GrantedIs
        <5> QED
          BY <1>2, <2>3, <5>1, <5>2, <5>3 DEF AccountSteps
      <4> QED
        BY <4>2, WhatIsGranted
    <3> QED
      BY <3>1
  <2> QED
    BY <2>2, <2>3
<1>3. CASE EvidenceSteps
  <2>1. CASE lock_live
    BY <2>1 DEF lock_live, Snapshot, NoFunction, Granted, FreshEvidence, validated_evidence
  <2> QED
    BY <1>3, <2>1, RecordGrants DEF EvidenceSteps
<1>4. CASE Halt \/ Release
  <2>1. conn' = conn /\ head' = head /\ settings'.unlocked = settings.unlocked
    BY <1>4 DEF Halt, Release, IInv, Shape, TypeOK
  <2> QED
    BY <2>1 DEF Granted, FreshEvidence, validated_evidence, UnlockStands
<1>5. CASE Expire
  <2>1. ASSUME NEW f, f \in Granted(w)' PROVE f \in Granted(w)
    <3>1. GrantedIs(w, f)'
      BY <2>1 DEF Granted, GrantedIs, FreshEvidence, validated_evidence
    <3>2. /\ conn[w].active /\ head.binding = conn[w].revision
          /\ f \in DOMAIN head.references
          /\ f \in Tested => head.tests[f] = conn[w].test.id
          /\ f = Unlock => UnlockStands /\ settings.unlocked
          /\ Fresh(head'.ages[f])
      BY <1>5, <3>1, TimePasses DEF GrantedIs, UnlockStands
    <3>3. f \in DOMAIN head.ages /\ head.ages[f] \in Age
      BY <3>2 DEF IInv, Shape, TypeOK
    <3>4. Fresh(head.ages[f])
      BY <1>5, <3>2, <3>3, TimePasses, Rows
    <3> QED
      BY <3>2, <3>4, WhatIsGranted DEF GrantedIs
  <2> QED
    BY <2>1
<1>6. ASSUME NEW o \in Orders, OrderSteps(o) PROVE UNCHANGED <<conn, settings, head>>
  BY <1>6 DEF OrderSteps, get_broker, CreateOrderIntent, DispatchCommitted, CheckReadsAccount,
     CheckReadsControls, Send, OrderEnds
<1> QED
  BY <1>1, <1>2, <1>3, <1>4, <1>5, <1>6, StepsOfNext

LEMMA GrantedInitially == Init => Permission!Init
<1> SUFFICES ASSUME Init, NEW w \in Owners
             PROVE  {f \in FreshEvidence(conn[w]) : f = Unlock => settings.unlocked} = {}
  BY DEF Permission!Init
<1>1. ~conn[w].active
  BY DEF Init, NoConnection
<1> QED
  BY <1>1 DEF FreshEvidence, validated_evidence

(* The state function that takes the place of granted. *)
PermissionNow ==
  [w \in Owners |-> {f \in FreshEvidence(conn[w]) : f = Unlock => settings.unlocked}]

LEMMA GrantedStepwise == IInv /\ [Next]_vars => [Permission!Next]_PermissionNow
<1> DEFINE granted == [w \in Owners |->
             {f \in FreshEvidence(conn[w]) : f = Unlock => settings.unlocked}]
<1> SUFFICES ASSUME IInv, [Next]_vars PROVE Permission!Next \/ granted' = granted
  BY DEF PermissionNow
<1>1. /\ DOMAIN granted = Owners /\ DOMAIN granted' = Owners
      /\ \A w \in Owners : granted[w] = Granted(w) /\ granted'[w] = Granted(w)'
  BY DEF Granted
<1>2. CASE UNCHANGED vars
  BY <1>2 DEF vars, FreshEvidence, validated_evidence, UnlockStands
<1>3. CASE Next
  <2>1. CASE \A w \in Owners : Granted(w)' \subseteq Granted(w)
    <3>1. Permission!Revoke
      BY <1>1, <2>1 DEF Permission!Revoke
    <3> QED
      BY <1>1, <3>1 DEF Permission!Next
  <2>2. ASSUME NEW v \in Owners, NEW a \in FIELDS, Grant(v, a) PROVE Permission!Next
    <3>1. Permission!Record(v, a)
      BY <1>1, <2>2 DEF Permission!Record, Grant
    <3> QED
      BY <1>1, <3>1 DEF Permission!Next
  <2> QED
    BY <1>3, <2>1, <2>2, OthersTakeAway
<1> QED
  BY <1>2, <1>3

(* A change of the test ends what rested on it; a review after the unlock ends the unlock. *)
UnlockEnds ==
  \A w \in Owners :
    /\ conn'[w].test.id # conn[w].test.id => (FreshEvidence(conn[w]) \intersect Tested = {})'
    /\ head'.id # head.id /\ Unlock \in FreshEvidence(conn[w])' =>
         head'.references[Unlock] = head'.id

LEMMA UnlockEndsStepwise == IInv /\ [Next]_vars => UnlockEnds
<1> SUFFICES ASSUME IInv, [Next]_vars, NEW w \in Owners
             PROVE  /\ conn'[w].test.id # conn[w].test.id =>
                         (FreshEvidence(conn[w]) \intersect Tested = {})'
                    /\ head'.id # head.id /\ Unlock \in FreshEvidence(conn[w])' =>
                         head'.references[Unlock] = head'.id
  BY DEF UnlockEnds
<1>1. CASE UNCHANGED <<conn, head>>
  BY <1>1
<1>2. ASSUME NEW v \in Owners, AccountSteps(v)
      PROVE  /\ head' = head
             /\ conn'[w].test.id # conn[w].test.id =>
                  (FreshEvidence(conn[w]) \intersect Tested = {})'
  <2>1. settings' = settings /\ head' = head /\ \A u \in Owners \ {v} : conn'[u] = conn[u]
    BY <1>2, AccountChanges
  <2>2. ASSUME conn'[w].test.id # conn[w].test.id
        PROVE  conn'[w].test.id = Unused(TestsInUse) \/ ~conn'[w].active
    <3>1. v = w
      BY <2>1, <2>2
    <3>2. ASSUME NEW c \in Requests, requests[c].owner = w, ConnectStores(c)
          PROVE  conn'[w].test.id = Unused(TestsInUse)
      <4>1. conn'[w].test = TestRow(TRUE, Unused(RevisionsInUse), Unused(RevisionsInUse))
        BY <3>2 DEF ConnectStores, IInv, Shape, TypeOK
      <4> QED
        BY <4>1 DEF TestRow
    <3>3. ASSUME NEW c \in Requests, NEW ok \in BOOLEAN, requests[c].owner = w, TestRecords(c, ok)
          PROVE  conn'[w].test.id = Unused(TestsInUse)
      <4>1. conn'[w].test = TestRow(ok, conn[w].revision, requests[c].expected.revision)
        BY <3>3 DEF TestRecords, IInv, Shape, TypeOK
      <4> QED
        BY <4>1 DEF TestRow
    <3>4. CASE Disconnect(w) \/ ReconnectRequired(w)
      BY <3>4 DEF Disconnect, ReconnectRequired, IInv, Shape, TypeOK
    <3> QED
      BY <1>2, <3>1, <3>2, <3>3, <3>4 DEF AccountSteps
  <2>3. ASSUME conn'[w].test.id # conn[w].test.id, NEW f \in Tested
        PROVE  f \notin FreshEvidence(conn[w])'
    <3>1. SUFFICES ASSUME f \in FreshEvidence(conn[w])' PROVE FALSE
      OBVIOUS
    <3>2. conn'[w].active /\ f \in DOMAIN head.references /\ head.tests[f] = conn'[w].test.id
      BY <2>1, <2>3, <3>1 DEF FreshEvidence, validated_evidence
    <3>3. f \in DOMAIN head.tests
      BY <2>3, <3>2 DEF IInv, Shape, TypeOK
    <3> QED
      BY <2>2, <2>3, <3>2, <3>3, TestIsNew DEF IInv
  <2> QED
    BY <2>1, <2>3
<1>3. ASSUME EvidenceSteps, Unlock \in FreshEvidence(conn[w])'
      PROVE  conn' = conn /\ head'.references[Unlock] = head'.id
  <2>1. conn' = conn
    BY <1>3, EvidenceIsReplaced
  <2>2. Unlock \in DOMAIN head'.references /\ head'.unlocked_on = head'.references
    BY <1>3 DEF FreshEvidence, validated_evidence, UnlockStands
  <2>3. ASSUME NEW v \in Owners, NEW a \in FIELDS, Record(v, a)
        PROVE  head'.references[Unlock] = head'.id
    BY <2>2, <2>3, WrittenHead DEF Record, IInv
  <2>4. ~lock_live
    BY <2>2 DEF lock_live, Snapshot, NoFunction
  <2> QED
    BY <1>3, <2>1, <2>3, <2>4 DEF EvidenceSteps
<1>4. ASSUME Halt \/ Release \/ \E o \in Orders : OrderSteps(o)
      PROVE  UNCHANGED <<conn, head>>
  BY <1>4 DEF Halt, Release, OrderSteps, get_broker, CreateOrderIntent, DispatchCommitted,
     CheckReadsAccount, CheckReadsControls, Send, OrderEnds
<1>5. ASSUME Expire PROVE head'.id = head.id /\ conn'[w].test.id = conn[w].test.id
  BY <1>5, TimePasses
<1>6. CASE Next
  <2>1. CASE EvidenceSteps
    BY <1>3, <2>1, EvidenceIsReplaced
  <2> QED
    BY <1>1, <1>2, <1>4, <1>5, <1>6, <2>1, StepsOfNext
<1> QED
  BY <1>1, <1>6 DEF vars

\* The evidence implements LivePermission: evidence is granted by its owner's own action
\* and never had back any other way; and a test or a later review ends the unlock in the
\* same step (live_evidence.validated_evidence, write_head).
THEOREM PermissionIsImplemented == Spec => ImplementsPermission
<1>1. Spec => Permission!Spec
  BY GrantedInitially, GrantedStepwise, WithdrawalIsAlwaysSeen, PTL
     DEF Spec, Permission!Spec, PermissionNow
<1>2. Spec => ChangeEndsTheUnlock
  <2>1. IInv /\ [Next]_vars => [UnlockEnds]_vars
    BY UnlockEndsStepwise
  <2>2. Spec => [][UnlockEnds]_vars
    BY <2>1, WithdrawalIsAlwaysSeen, PTL DEF Spec
  <2> QED
    BY <2>2 DEF ChangeEndsTheUnlock, UnlockEnds
<1> QED
  BY <1>1, <1>2, PTL DEF ImplementsPermission

(***************************************************************************)
(* The promotion of a strategy.                                            *)
(***************************************************************************)
\* What the row, a signal and a session's copy of the row may be.
StrategyRow ==
  [enabled : BOOLEAN, is_live : BOOLEAN, dry_run_reviewed : BOOLEAN, demo_promoted_at : Nat,
   demo_reviewed : BOOLEAN, live_approved_at : Nat]

MadeDecision ==
  [is_dry_run : BOOLEAN, outcome : DecisionOutcomes, mode : {"demo", "live"},
   permitted : BOOLEAN]

HeldCopy ==
  [doing : {"scan", "dry run", "enable", "run", "plan"}, row : StrategyRow, fresh : BOOLEAN]

PromotionTyped ==
  /\ strategy_row \in StrategyRow
  /\ activity \in Seq(MadeDecision)
  /\ mode \in {"demo", "live"}
  /\ copies \in [Sessions -> HeldCopy \union {NotBusy}]

\* A copy that may still be written is the row, and a run that has one may make entries.
CopyKept(c) ==
  c # NotBusy /\ c.fresh =>
    /\ c.row = strategy_row
    /\ c.doing \in {"run", "plan"} =>
         /\ strategy_row.enabled
         /\ strategy_row.is_live => execution_gate(strategy_row)

\* The orders that were placed in demo mode before decision n.
Demoed(n) ==
  {i \in DOMAIN activity :
     i < n /\ ~ activity[i].is_dry_run
     /\ activity[i].mode = "demo" /\ activity[i].outcome # "blocked"}

\* Decisions made in live mode rest on the demo orders before them, whatever
\* became of the approval since.
EvidenceKept ==
  /\ strategy_row.demo_promoted_at # 0 => strategy_row.dry_run_reviewed
  /\ ApprovalRestsOnDemo
  /\ (\E i \in DOMAIN activity : ~ activity[i].is_dry_run /\ activity[i].mode = "live") =>
       Cardinality(Demoed(Now)) >= MIN_DEMO_ORDERS

\* The inductive invariant.
PromotionKept ==
  /\ PromotionTyped
  /\ \A s \in Sessions : CopyKept(copies[s])
  /\ NothingIsRevived
  /\ EntriesArePermitted
  /\ EvidenceKept

-----------------------------------------------------------------------------
LEMMA DemoedAreFinite ==
  ASSUME activity \in Seq(MadeDecision), NEW n \in Nat
  PROVE  /\ IsFiniteSet(Demoed(n)) /\ Cardinality(Demoed(n)) \in Nat
         /\ \A T \in SUBSET Demoed(n) :
              Cardinality(T) \in Nat /\ Cardinality(T) <= Cardinality(Demoed(n))
         /\ Demoed(n) \subseteq Demoed(Now)
<1>1. DOMAIN activity = 1 .. Len(activity) /\ Len(activity) \in Nat
  OBVIOUS
<1>2. IsFiniteSet(DOMAIN activity)
  BY <1>1, FS_Interval
<1>3. IsFiniteSet(Demoed(n))
  BY <1>2, FS_Subset DEF Demoed
<1>4. Demoed(n) \subseteq Demoed(Now)
  BY <1>1 DEF Demoed, Now
<1> QED BY <1>3, <1>4, FS_Subset, FS_CardinalityType

\* What was demoed stays so when more is decided.
LEMMA DemoedStay ==
  ASSUME activity \in Seq(MadeDecision), NEW d \in MadeDecision,
         activity' = Append(activity, d), NEW n \in Nat
  PROVE  /\ activity' \in Seq(MadeDecision)
         /\ Cardinality(Demoed(n)) <= Cardinality(Demoed(n)')
         /\ Cardinality(Demoed(n)') \in Nat
<1>1. activity' \in Seq(MadeDecision)
  OBVIOUS
<1>2. Demoed(n) \subseteq Demoed(n)'
  BY DEF Demoed
<1>3. DOMAIN activity' = 1 .. Len(activity') /\ Len(activity') \in Nat
  BY <1>1
<1>4. IsFiniteSet(DOMAIN activity')
  BY <1>3, FS_Interval
<1>5. Demoed(n)' \subseteq DOMAIN activity'
  BY DEF Demoed
<1>6. IsFiniteSet(Demoed(n)')
  BY <1>4, <1>5, FS_Subset
<1> QED BY <1>1, <1>2, <1>6, FS_Subset, FS_CardinalityType

LEMMA PromotionBegins == PromotionInit => PromotionKept
  BY DEF PromotionInit, PromotionKept, PromotionTyped, StrategyRow, CopyKept, NotBusy,
         NothingIsRevived, EntriesArePermitted, EvidenceKept, ApprovalRestsOnDemo

\* Copies that are stale promise nothing.
LEMMA StaleCopies ==
  ASSUME PromotionTyped
  PROVE  /\ Stale \in [Sessions -> HeldCopy \union {NotBusy}]
         /\ \A s \in Sessions : Stale[s] = NotBusy \/ ~ Stale[s].fresh
  BY DEF PromotionTyped, Stale, HeldCopy

\* A decision of the promotion flow, or an edit.
LEMMA DecideKeeps ==
  ASSUME PromotionKept, NEW row \in StrategyRow, Decide(row),
         row.demo_promoted_at # 0 => row.dry_run_reviewed,
         row.live_approved_at # 0 =>
           /\ Cardinality(Demoed(row.live_approved_at)) >= MIN_DEMO_ORDERS
           /\ row.dry_run_reviewed /\ row.demo_reviewed
  PROVE  PromotionKept'
<1>1. PromotionTyped' /\ \A s \in Sessions : CopyKept(copies[s])'
  BY StaleCopies DEF PromotionKept, PromotionTyped, Decide, CopyKept
<1>2. NothingIsRevived' /\ EntriesArePermitted'
  BY DEF PromotionKept, Decide, NothingIsRevived, EntriesArePermitted
<1>3. \A n : Demoed(n)' = Demoed(n)
  BY DEF Decide, Demoed
<1>4. ApprovalRestsOnDemo'
  BY <1>3 DEF ApprovalRestsOnDemo, Demoed, Decide
<1>5. EvidenceKept'
  BY <1>3, <1>4 DEF PromotionKept, EvidenceKept, Decide, Now
<1> QED BY <1>1, <1>2, <1>5 DEF PromotionKept

\* A live approval rests on orders in demo mode: an order in live mode
\* had an approval before it.
LEMMA EligibleIsDemoed ==
  ASSUME PromotionKept, eligible_for_live
  PROVE  Cardinality(Demoed(Now)) >= MIN_DEMO_ORDERS
<1> DEFINE LiveModeOrders ==
      \E i \in DOMAIN activity : ~ activity[i].is_dry_run /\ activity[i].mode = "live"
<1>1. CASE LiveModeOrders
  BY <1>1 DEF PromotionKept, EvidenceKept
<1>2. CASE ~ LiveModeOrders
  <2>1. activity \in Seq(MadeDecision) /\ Len(activity) \in Nat /\ Now \in Nat
    BY DEF PromotionKept, PromotionTyped, Now
  <2>2. \A i \in DOMAIN activity : i < Now /\ activity[i] \in MadeDecision
    BY <2>1 DEF Now
  <2>3. Real(demo_phase) \subseteq Demoed(Now)
    BY <1>2, <2>2 DEF Real, demo_phase, Demoed, MadeDecision
  <2>4. /\ Cardinality(Real(demo_phase)) \in Nat /\ Cardinality(Demoed(Now)) \in Nat
        /\ Cardinality(Real(demo_phase)) <= Cardinality(Demoed(Now))
    BY <2>1, <2>3, DemoedAreFinite
  <2>5. Cardinality(Real(demo_phase)) >= MIN_DEMO_ORDERS
    BY DEF eligible_for_live
  <2> QED BY <2>4, <2>5, EvidenceIsCounted
<1> QED BY <1>1, <1>2

LEMMA FlowKeeps ==
  ASSUME PromotionKept,
         \/ record_dry_run_review \/ promote_to_demo \/ record_demo_review
         \/ promote_to_live \/ demote_to_dry_run \/ revoke_live_promotion
         \/ \E is_live \in BOOLEAN : update_strategy(is_live)
  PROVE  PromotionKept'
<1>1. /\ strategy_row \in StrategyRow
      /\ strategy_row.demo_promoted_at # 0 => strategy_row.dry_run_reviewed
      /\ Len(activity) \in Nat /\ Now \in Nat
  BY DEF PromotionKept, PromotionTyped, EvidenceKept, Now
<1>2. strategy_row.live_approved_at # 0 =>
        /\ Cardinality(Demoed(strategy_row.live_approved_at)) >= MIN_DEMO_ORDERS
        /\ strategy_row.dry_run_reviewed /\ strategy_row.demo_reviewed
  BY DEF PromotionKept, EvidenceKept, ApprovalRestsOnDemo, Demoed
<1>3. CASE record_dry_run_review
  BY <1>1, <1>2, <1>3, DecideKeeps DEF record_dry_run_review, StrategyRow
<1>4. CASE promote_to_demo
  BY <1>1, <1>2, <1>4, DecideKeeps DEF promote_to_demo, eligible_for_demo, StrategyRow
<1>5. CASE record_demo_review
  BY <1>1, <1>2, <1>5, DecideKeeps DEF record_demo_review, StrategyRow
<1>6. CASE promote_to_live
  <2>1. Cardinality(Demoed(Now)) >= MIN_DEMO_ORDERS
    BY <1>6, EligibleIsDemoed DEF promote_to_live
  <2>2. strategy_row.demo_promoted_at # 0 /\ strategy_row.demo_reviewed
    BY <1>6 DEF promote_to_live, eligible_for_live
  <2> QED BY <1>1, <1>6, <2>1, <2>2, DecideKeeps DEF promote_to_live, StrategyRow
<1>7. CASE demote_to_dry_run
  BY <1>1, <1>2, <1>7, DecideKeeps DEF demote_to_dry_run, StrategyRow
<1>8. CASE revoke_live_promotion
  BY <1>1, <1>2, <1>8, DecideKeeps DEF revoke_live_promotion, StrategyRow
<1>9. ASSUME NEW is_live \in BOOLEAN, update_strategy(is_live) PROVE PromotionKept'
  BY <1>1, <1>2, <1>9, DecideKeeps DEF update_strategy, StrategyRow
<1> QED BY <1>3, <1>4, <1>5, <1>6, <1>7, <1>8, <1>9

LEMMA ReadRowKeeps ==
  ASSUME PromotionKept, NEW s \in Sessions,
         NEW doing \in {"scan", "dry run", "enable", "run", "plan"}, ReadRow(s, doing)
  PROVE  PromotionKept'
<1>1. PromotionTyped'
  BY DEF PromotionKept, PromotionTyped, ReadRow, HeldCopy
<1>2. \A t \in Sessions : CopyKept(copies[t])'
  BY DEF PromotionKept, PromotionTyped, ReadRow, CopyKept, execution_gate
<1>3. NothingIsRevived' /\ EntriesArePermitted' /\ EvidenceKept'
  BY DEF PromotionKept, ReadRow, NothingIsRevived, EntriesArePermitted, EvidenceKept,
         ApprovalRestsOnDemo, Demoed, Now
<1> QED BY <1>1, <1>2, <1>3 DEF PromotionKept

LEMMA LeaveKeeps ==
  ASSUME PromotionKept, NEW s \in Sessions, Leave(s)
  PROVE  PromotionKept'
<1>1. PromotionTyped'
  BY DEF PromotionKept, PromotionTyped, Leave
<1>2. \A t \in Sessions : CopyKept(copies[t])'
  BY DEF PromotionKept, PromotionTyped, Leave, CopyKept, execution_gate
<1>3. NothingIsRevived' /\ EntriesArePermitted' /\ EvidenceKept'
  BY DEF PromotionKept, Leave, NothingIsRevived, EntriesArePermitted, EvidenceKept,
         ApprovalRestsOnDemo, Demoed, Now
<1> QED BY <1>1, <1>2, <1>3 DEF PromotionKept

LEMMA RestartKeeps ==
  ASSUME PromotionKept, NEW new_mode \in {"demo", "live"}, Restart(new_mode)
  PROVE  PromotionKept'
<1>1. PromotionTyped' /\ \A t \in Sessions : CopyKept(copies[t])'
  BY DEF PromotionKept, PromotionTyped, Restart, CopyKept
<1>2. NothingIsRevived' /\ EntriesArePermitted' /\ EvidenceKept'
  BY DEF PromotionKept, Restart, NothingIsRevived, EntriesArePermitted, EvidenceKept,
         ApprovalRestsOnDemo, Demoed, Now
<1> QED BY <1>1, <1>2 DEF PromotionKept

\* A session that writes had the row as it is; its copy stays good for what it was read for.
LEMMA WriteKeeps ==
  ASSUME PromotionKept, NEW s \in Sessions, copies[s] # NotBusy, mode' = mode,
         NEW row \in StrategyRow, NEW goes_on \in BOOLEAN, Write(s, row, goes_on),
         goes_on => row = strategy_row
  PROVE  /\ strategy_row' = row /\ copies[s].row = strategy_row
         /\ copies[s].doing \in {"run", "plan"} =>
              /\ strategy_row.enabled
              /\ strategy_row.is_live => execution_gate(strategy_row)
         /\ copies' \in [Sessions -> HeldCopy \union {NotBusy}]
         /\ \A t \in Sessions : CopyKept(copies[t])'
<1>1. /\ copies[s] \in HeldCopy /\ CopyKept(copies[s]) /\ copies[s].fresh
      /\ strategy_row' = row
  BY DEF PromotionKept, PromotionTyped, Write, MayWrite
<1>2. Stale \in [Sessions -> HeldCopy \union {NotBusy}]
      /\ \A t \in Sessions : Stale[t] = NotBusy \/ ~ Stale[t].fresh
  BY StaleCopies DEF PromotionKept
<1>3. PICK c : c = IF goes_on THEN [copies[s] EXCEPT !.row = row, !.fresh = TRUE] ELSE NotBusy
  OBVIOUS
<1>4. copies' = [Stale EXCEPT ![s] = c]
  BY <1>3 DEF Write
<1>5. /\ c \in HeldCopy \union {NotBusy}
      /\ goes_on => c.row = row /\ c.doing = copies[s].doing
      /\ ~ goes_on => c = NotBusy
  BY <1>1, <1>3 DEF HeldCopy
<1>6. copies' \in [Sessions -> HeldCopy \union {NotBusy}]
  BY <1>2, <1>4, <1>5
<1>7. ASSUME NEW t \in Sessions, t # s PROVE CopyKept(copies[t])'
  BY <1>2, <1>4, <1>7 DEF CopyKept
<1>8. execution_gate(strategy_row)' = execution_gate(row)
  BY <1>1 DEF execution_gate
<1>9. CopyKept(copies[s])'
  BY <1>1, <1>2, <1>4, <1>5, <1>8 DEF CopyKept
<1> QED BY <1>1, <1>6, <1>7, <1>9 DEF CopyKept

\* A session that changes nothing of the promotion, nor decides anything.
LEMMA WritersKeep ==
  ASSUME PromotionKept, NEW s \in Sessions,
         \/ morning_scan(s) \/ run_strategy_dry(s)
         \/ \E enabled \in BOOLEAN : enable_strategy(s, enabled)
  PROVE  PromotionKept'
<1>1. copies[s] # NotBusy /\ mode' = mode /\ activity' = activity
  <2>1. NotBusy.doing = "idle"
    BY DEF NotBusy
  <2> QED BY <2>1 DEF morning_scan, run_strategy_dry, enable_strategy, IsBusy
<1>2. PICK row : /\ Write(s, row, FALSE) /\ decided' \in {decided, row}
                 /\ \/ row = ParamsAsRead(s) /\ decided' = decided
                    \/ \E enabled \in BOOLEAN :
                         /\ row = [strategy_row EXCEPT !.enabled = enabled]
                         /\ decided' = [decided EXCEPT !.enabled = enabled]
  BY DEF PromotionKept, NothingIsRevived, morning_scan, run_strategy_dry, enable_strategy
<1>3. copies[s] \in HeldCopy /\ CopyKept(copies[s]) /\ copies[s].fresh /\ strategy_row \in StrategyRow
  BY <1>1, <1>2 DEF PromotionKept, PromotionTyped, Write, MayWrite
<1>4. copies[s].row = strategy_row
  BY <1>1, <1>3 DEF CopyKept
<1>5. ParamsAsRead(s) = strategy_row
  BY <1>3, <1>4 DEF ParamsAsRead, StrategyRow
<1>6. row \in StrategyRow /\ decided' = row
  BY <1>2, <1>3, <1>5 DEF StrategyRow, PromotionKept, NothingIsRevived
<1>7. /\ row.demo_promoted_at = strategy_row.demo_promoted_at
      /\ row.live_approved_at = strategy_row.live_approved_at
      /\ row.dry_run_reviewed = strategy_row.dry_run_reviewed
      /\ row.demo_reviewed = strategy_row.demo_reviewed
  BY <1>2, <1>3, <1>5 DEF StrategyRow
<1>8. /\ strategy_row' = row /\ copies' \in [Sessions -> HeldCopy \union {NotBusy}]
      /\ \A t \in Sessions : CopyKept(copies[t])'
  BY <1>1, <1>2, <1>6, WriteKeeps
<1>9. PromotionTyped' /\ NothingIsRevived' /\ EntriesArePermitted'
  BY <1>1, <1>6, <1>8 DEF PromotionKept, PromotionTyped, NothingIsRevived, EntriesArePermitted
<1>10. EvidenceKept'
  BY <1>1, <1>7, <1>8 DEF PromotionKept, EvidenceKept, ApprovalRestsOnDemo, Demoed, Now
<1> QED BY <1>8, <1>9, <1>10 DEF PromotionKept

\* An entry is decided with the row as it is.
LEMMA EntriesKeep ==
  ASSUME PromotionKept, NEW s \in Sessions, NEW outcome \in DecisionOutcomes,
         Entry(s, outcome) \/ PlanEntry(s, outcome)
  PROVE  PromotionKept'
<1>1. /\ copies[s] # NotBusy /\ copies[s].doing \in {"run", "plan"}
      /\ mode' = mode /\ decided' = decided
      /\ activity' = Append(activity, EntryDecision(copies[s].row, outcome))
  <2>1. NotBusy.doing = "idle"
    BY DEF NotBusy
  <2> QED BY <2>1 DEF Entry, PlanEntry, IsBusy, Recorded
<1>2. /\ copies[s] \in HeldCopy /\ CopyKept(copies[s]) /\ copies[s].fresh
      /\ strategy_row \in StrategyRow /\ activity \in Seq(MadeDecision)
      /\ mode \in {"demo", "live"}
  BY <1>1 DEF PromotionKept, PromotionTyped, Entry, PlanEntry, Write, MayWrite
<1>3. copies[s].row = strategy_row
  BY <1>1, <1>2 DEF CopyKept
<1>4. ParamsAsRead(s) = strategy_row
  BY <1>2, <1>3 DEF ParamsAsRead, StrategyRow
<1>5. Write(s, strategy_row, TRUE) \/ Write(s, strategy_row, FALSE)
  BY <1>4 DEF Entry, PlanEntry
<1>6. /\ strategy_row' = strategy_row
      /\ strategy_row.enabled
      /\ strategy_row.is_live => execution_gate(strategy_row)
      /\ copies' \in [Sessions -> HeldCopy \union {NotBusy}]
      /\ \A t \in Sessions : CopyKept(copies[t])'
  BY <1>1, <1>2, <1>5, WriteKeeps
<1>7. PICK d : d = EntryDecision(strategy_row, outcome)
  OBVIOUS
<1>8. /\ d \in MadeDecision /\ d.permitted /\ d.mode = mode
      /\ d.is_dry_run = ~ strategy_row.is_live
  BY <1>2, <1>6, <1>7 DEF EntryDecision, MadeDecision, StrategyRow, execution_gate
<1>9. activity' = Append(activity, d)
  BY <1>1, <1>3, <1>7
<1>10. /\ activity' \in Seq(MadeDecision) /\ Len(activity') = Len(activity) + 1
       /\ Len(activity) \in Nat
       /\ \A i \in DOMAIN activity : activity'[i] = activity[i]
       /\ activity'[Len(activity) + 1] = d
       /\ \A i \in DOMAIN activity' : i \in DOMAIN activity \/ i = Len(activity) + 1
  BY <1>2, <1>8, <1>9
<1>11. PromotionTyped' /\ NothingIsRevived'
  BY <1>1, <1>2, <1>6, <1>10 DEF PromotionKept, PromotionTyped, NothingIsRevived
<1>12. EntriesArePermitted'
  BY <1>8, <1>10 DEF PromotionKept, EntriesArePermitted
<1>13. ApprovalRestsOnDemo'
  <2>1. SUFFICES ASSUME strategy_row.live_approved_at # 0
                 PROVE  /\ Cardinality(Demoed(strategy_row.live_approved_at)') >= MIN_DEMO_ORDERS
                        /\ strategy_row.dry_run_reviewed /\ strategy_row.demo_reviewed
    BY <1>6 DEF ApprovalRestsOnDemo, Demoed
  <2>2. PICK n : n = strategy_row.live_approved_at
    OBVIOUS
  <2>3. /\ Cardinality(Demoed(n)) >= MIN_DEMO_ORDERS /\ n \in Nat
        /\ strategy_row.dry_run_reviewed /\ strategy_row.demo_reviewed
    BY <1>2, <2>1, <2>2 DEF PromotionKept, EvidenceKept, ApprovalRestsOnDemo, Demoed, StrategyRow
  <2>4. Cardinality(Demoed(n)) <= Cardinality(Demoed(n)') /\ Cardinality(Demoed(n)') \in Nat
        /\ Cardinality(Demoed(n)) \in Nat
    BY <1>2, <1>8, <1>9, <2>3, DemoedStay, DemoedAreFinite
  <2>5. Cardinality(Demoed(n)') >= MIN_DEMO_ORDERS
    BY <2>3, <2>4, EvidenceIsCounted
  <2> QED BY <1>6, <2>2, <2>3, <2>5 DEF Demoed
<1>14. (\E i \in DOMAIN activity' : ~ activity'[i].is_dry_run /\ activity'[i].mode = "live") =>
         Cardinality(Demoed(Now)') >= MIN_DEMO_ORDERS
  <2>1. SUFFICES ASSUME NEW i \in DOMAIN activity',
                        ~ activity'[i].is_dry_run, activity'[i].mode = "live"
                 PROVE  Cardinality(Demoed(Now)') >= MIN_DEMO_ORDERS
    OBVIOUS
  <2>2. PICK n : n = Now
    OBVIOUS
  <2>3. n \in Nat /\ n = Len(activity) + 1 /\ Now' = n + 1
    BY <1>10, <2>2 DEF Now
  <2>4. Cardinality(Demoed(n)) >= MIN_DEMO_ORDERS
    <3>1. CASE i \in DOMAIN activity
      BY <1>10, <2>1, <2>2, <3>1 DEF PromotionKept, EvidenceKept
    <3>2. CASE i = Len(activity) + 1
      <4>1. strategy_row.live_approved_at # 0
        BY <1>6, <1>8, <1>10, <2>1, <3>2 DEF execution_gate
      <4>2. PICK k : k = strategy_row.live_approved_at
        OBVIOUS
      <4>3. Cardinality(Demoed(k)) >= MIN_DEMO_ORDERS /\ k \in Nat
        BY <1>2, <4>1, <4>2 DEF PromotionKept, EvidenceKept, ApprovalRestsOnDemo, Demoed,
                                StrategyRow
      <4>4. /\ Cardinality(Demoed(k)) <= Cardinality(Demoed(n))
            /\ Cardinality(Demoed(k)) \in Nat /\ Cardinality(Demoed(n)) \in Nat
        BY <1>2, <2>2, <2>3, <4>3, DemoedAreFinite
      <4> QED BY <4>3, <4>4, EvidenceIsCounted
    <3> QED BY <1>10, <3>1, <3>2
  <2>5. Cardinality(Demoed(n)) <= Cardinality(Demoed(n)') /\ Cardinality(Demoed(n)') \in Nat
        /\ Cardinality(Demoed(n)) \in Nat
    BY <1>2, <1>8, <1>9, <2>3, DemoedStay, DemoedAreFinite
  <2>6. Demoed(n)' \subseteq Demoed(Now)'
    BY <1>10, <2>3 DEF Demoed
  <2>7. IsFiniteSet(Demoed(Now)')
    <3>1. Demoed(Now)' \subseteq 1 .. (Len(activity) + 1)
      BY <1>10 DEF Demoed
    <3>2. IsFiniteSet(1 .. (Len(activity) + 1))
      <4>1. Len(activity) + 1 \in Int
        BY <1>10
      <4> QED BY <4>1, FS_Interval
    <3> QED BY <3>1, <3>2, FS_Subset
  <2>8. /\ Cardinality(Demoed(n)') <= Cardinality(Demoed(Now)')
        /\ Cardinality(Demoed(Now)') \in Nat
    BY <2>6, <2>7, FS_Subset, FS_CardinalityType
  <2> QED BY <2>4, <2>5, <2>8, EvidenceIsCounted
<1>15. EvidenceKept'
  BY <1>6, <1>13, <1>14 DEF PromotionKept, EvidenceKept
<1> QED BY <1>6, <1>11, <1>12, <1>15 DEF PromotionKept

\* A promotion is never lost or brought back by a session that read the row before it,
\* and what a run does is done with the row as it is (strategy_promotion.py, the routes
\* of a strategy, morning_scan, the runner and the portfolio execution).
THEOREM PromotionIsKept == PromotionSpec => []PromotionKept
<1>1. PromotionInit => PromotionKept
  BY PromotionBegins
<1>2. PromotionKept /\ PromotionNext => PromotionKept'
  BY FlowKeeps, ReadRowKeeps, LeaveKeeps, RestartKeeps, WritersKeep, EntriesKeep
     DEF PromotionNext
<1>3. PromotionKept /\ UNCHANGED promotion_vars => PromotionKept'
  BY DEF promotion_vars, PromotionKept, PromotionTyped, CopyKept, execution_gate,
         NothingIsRevived, EntriesArePermitted, EvidenceKept, ApprovalRestsOnDemo, Demoed, Now
<1> QED BY <1>1, <1>2, <1>3, PTL DEF PromotionSpec

\* The row is as it was decided, every entry was permitted in the mode it was made in,
\* and a live approval rests on enough orders of demo mode (PromotionGate of
\* strategy_promotion.py, execution_gate).
THEOREM PromotionAlwaysHolds == PromotionSpec => []PromotionHolds
<1>1. PromotionKept => PromotionHolds
  BY DEF PromotionKept, EvidenceKept, PromotionHolds
<1> QED BY <1>1, PromotionIsKept, PTL

(***************************************************************************)
(* The schedule of the demo reconciliation.                                *)
(***************************************************************************)
\* What the entries and the sessions may be.
TickOutcomes == {"skipped", "failed", "completed", "rate_limited"}

TickRecord ==
  [runs : Nat, successful : Nat, failed : Nat, rate_limited : Nat,
   failures : Nat, rate_limits : Nat, next_run_at : Nat, not_before : Nat]

SettingsEntries ==
  [scheduler : TickRecord, worker : {0, 1}, monitor : {0, 1}, heartbeats : {0, 1}]

TickingSession ==
  [phase : {"due", "run"}] \union [phase : {"ended"}, outcome : TickOutcomes]
    \union [phase : {"told"}, outcome : TickOutcomes, previous : TickRecord, finished : Nat]

WritingSession ==
  [phase : {"read", "flushed"}, entry : {"scheduler", "worker", "monitor", "heartbeats"},
   outcome : TickOutcomes \union {Nobody}, finished : Nat, copy : SettingsEntries]

ScheduleTyped ==
  /\ sch_now \in Nat /\ sch_raced \in BOOLEAN
  /\ sch_extra \in SettingsEntries /\ sch_meant \in SettingsEntries
  /\ sch_row_lock \in ScheduleSessions \union {Nobody} /\ sch_run_lock \in Ticks \union {Nobody}
  /\ sch_session \in [ScheduleSessions -> {AtRest} \union TickingSession \union WritingSession]

\* RecordAddsUp, of any record.
TickRecordKept(r) ==
  /\ r.runs = r.successful + r.failed + r.rate_limited
  /\ r.failures <= r.failed /\ r.rate_limits <= r.rate_limited
  /\ r.failures = 0 \/ r.rate_limits = 0
  /\ r.rate_limits > 0 <=> r.not_before > 0
  /\ r.not_before > 0 => r.next_run_at = r.not_before

IsWriting(c) == c.phase \in {"read", "flushed"}

\* A session whose run is not over, or not yet flushed.
HasRun(c) ==
  \/ c.phase = "run"
  \/ c.phase \in {"ended", "told"} /\ c.outcome # "skipped"
  \/ IsWriting(c) /\ c.entry = "worker"
  \/ c.phase = "read" /\ c.entry = "scheduler" /\ c.outcome # "skipped"

\* What a session is to make of the entries as they are.
Written(c) ==
  IF c.entry = "scheduler"
  THEN [sch_extra EXCEPT !.scheduler = Result(sch_extra.scheduler, c.outcome, c.finished)]
  ELSE Turned(sch_extra, c.entry)

\* What sessions have read is worth: it is the entries as they are, unless there was a race.
ReadingKept(c) ==
  /\ c.phase = "told" => TickRecordKept(c.previous)
  /\ IsWriting(c) => TickRecordKept(c.copy.scheduler)
  /\ ~ sch_raced =>
       /\ c.phase = "told" => c.previous = sch_extra.scheduler
       /\ IsWriting(c) => c.copy = Written(c)

LocksKept(s, c) ==
  /\ c.phase = "flushed" => sch_row_lock = s
  /\ s \in Ticks /\ HasRun(c) => sch_run_lock = s
  /\ c.phase = "flushed" /\ c.entry = "scheduler" => sch_run_lock # s

RoleKept(s, c) ==
  /\ s \in Writers => c = AtRest \/ (IsWriting(c) /\ c.entry # "scheduler")
  /\ s \in Ticks /\ IsWriting(c) =>
       /\ c.entry \in {"scheduler", "worker"} /\ c.outcome \in TickOutcomes
       /\ c.entry = "worker" => c.outcome \in {"completed", "rate_limited"}
  /\ s \in Locking => c.phase # "read"

TickSessionKept(s, c) == RoleKept(s, c) /\ LocksKept(s, c) /\ ReadingKept(c)

\* While a run's result is flushed and not committed, no run begins that is not a race.
RunsApart ==
  ~ sch_raced =>
    \A s, t \in Ticks :
      sch_session[s].phase = "flushed" /\ sch_session[s].entry = "scheduler"
        /\ sch_session[s].outcome # "skipped" => sch_session[t].phase # "run"

\* The inductive invariant.
ScheduleKept ==
  /\ ScheduleTyped
  /\ TickRecordKept(sch_extra.scheduler) /\ TickRecordKept(sch_meant.scheduler)
  /\ \A s \in ScheduleSessions : TickSessionKept(s, sch_session[s])
  /\ sch_run_lock # Nobody => sch_session[sch_run_lock] # AtRest
  /\ EntriesAreKept /\ RunsApart /\ BackoffIsHeeded

-----------------------------------------------------------------------------
LEMMA SessionsAreApart ==
  /\ ScheduleSessions = Ticks \union Writers /\ Nobody \notin Ticks /\ Nobody \notin Writers
  /\ \A t \in Ticks : t \notin Writers /\ t \notin Locking
  /\ \A w \in Writers : w \notin Ticks /\ EntryOf[w] \in {"worker", "monitor", "heartbeats"}
  /\ Locking \subseteq Writers
  /\ Interval \in Nat /\ Backoff \in Nat /\ Backoff > 0
  BY SessionsAndTimes DEF ScheduleSessions

\* A run is counted once, and a skipped tick leaves the record as it was.
LEMMA ResultKeeps ==
  ASSUME NEW r \in TickRecord, NEW outcome \in TickOutcomes, NEW finished \in Nat
  PROVE  /\ Result(r, outcome, finished) \in TickRecord
         /\ TickRecordKept(r) => TickRecordKept(Result(r, outcome, finished))
         /\ outcome = "skipped" => Result(r, outcome, finished) = r
<1>1. /\ r.runs \in Nat /\ r.successful \in Nat /\ r.failed \in Nat /\ r.rate_limited \in Nat
      /\ r.failures \in Nat /\ r.rate_limits \in Nat
      /\ r.next_run_at \in Nat /\ r.not_before \in Nat
  BY DEF TickRecord
<1>2. finished + Interval \in Nat /\ finished + Backoff \in Nat /\ finished + Backoff > 0
  BY SessionsAreApart
<1>3. CASE outcome = "skipped"
  BY <1>3 DEF Result, Skipped
<1>4. r = [runs |-> r.runs, successful |-> r.successful, failed |-> r.failed,
            rate_limited |-> r.rate_limited, failures |-> r.failures, rate_limits |-> r.rate_limits,
            next_run_at |-> r.next_run_at, not_before |-> r.not_before]
  BY DEF TickRecord
<1>5. CASE outcome = "failed"
  <2>1. PICK n : n = Result(r, outcome, finished)
    OBVIOUS
  <2>2. n = [runs |-> r.runs + 1, successful |-> r.successful, failed |-> r.failed + 1,
            rate_limited |-> r.rate_limited, failures |-> r.failures + 1, rate_limits |-> 0,
            next_run_at |-> finished + Interval, not_before |-> 0]
    BY <1>5, <1>4, <2>1 DEF Result, FailedRun
  <2>3. /\ n \in TickRecord
        /\ n.runs = r.runs + 1 /\ n.failed = r.failed + 1 /\ n.successful = r.successful
        /\ n.rate_limited = r.rate_limited /\ n.failures = r.failures + 1 /\ n.rate_limits = 0
        /\ n.not_before = 0
    BY <1>1, <1>2, <2>2 DEF TickRecord
  <2>4. TickRecordKept(r) => TickRecordKept(n)
    BY <1>1, <1>2, <2>3 DEF TickRecordKept
  <2> QED
    BY <1>5, <2>1, <2>3, <2>4
<1>6. CASE outcome = "rate_limited"
  <2>1. PICK n : n = Result(r, outcome, finished)
    OBVIOUS
  <2>2. n = [runs |-> r.runs + 1, successful |-> r.successful, failed |-> r.failed,
            rate_limited |-> r.rate_limited + 1, failures |-> 0, rate_limits |-> r.rate_limits + 1,
            next_run_at |-> finished + Backoff, not_before |-> finished + Backoff]
    BY <1>6, <1>4, <2>1 DEF Result, Summary
  <2>3. /\ n \in TickRecord
        /\ n.runs = r.runs + 1 /\ n.failed = r.failed /\ n.successful = r.successful
        /\ n.rate_limited = r.rate_limited + 1 /\ n.failures = 0 /\ n.rate_limits = r.rate_limits + 1
        /\ n.not_before = finished + Backoff /\ n.next_run_at = finished + Backoff
    BY <1>1, <1>2, <2>2 DEF TickRecord
  <2>4. TickRecordKept(r) => TickRecordKept(n)
    BY <1>1, <1>2, <2>3 DEF TickRecordKept
  <2> QED
    BY <1>6, <2>1, <2>3, <2>4
<1>7. CASE outcome = "completed"
  <2>1. PICK n : n = Result(r, outcome, finished)
    OBVIOUS
  <2>2. n = [runs |-> r.runs + 1, successful |-> r.successful + 1, failed |-> r.failed,
            rate_limited |-> r.rate_limited, failures |-> 0, rate_limits |-> 0,
            next_run_at |-> finished + Interval, not_before |-> 0]
    BY <1>7, <1>4, <2>1 DEF Result, Summary
  <2>3. /\ n \in TickRecord
        /\ n.runs = r.runs + 1 /\ n.failed = r.failed /\ n.successful = r.successful + 1
        /\ n.rate_limited = r.rate_limited /\ n.failures = 0 /\ n.rate_limits = 0
        /\ n.not_before = 0
    BY <1>1, <1>2, <2>2 DEF TickRecord
  <2>4. TickRecordKept(r) => TickRecordKept(n)
    BY <1>1, <1>2, <2>3 DEF TickRecordKept
  <2> QED
    BY <1>7, <2>1, <2>3, <2>4
<1> QED
  BY <1>3, <1>5, <1>6, <1>7 DEF TickOutcomes

LEMMA TurningKeeps ==
  ASSUME NEW entries \in SettingsEntries, NEW e \in {"worker", "monitor", "heartbeats"}
  PROVE  /\ Turned(entries, e) \in SettingsEntries
         /\ Turned(entries, e).scheduler = entries.scheduler
<1>1. /\ 1 - entries.worker \in {0, 1} /\ 1 - entries.monitor \in {0, 1}
      /\ 1 - entries.heartbeats \in {0, 1}
  BY DEF SettingsEntries
<1>2. CASE e = "worker"
  BY <1>1, <1>2 DEF Turned, SettingsEntries
<1>3. CASE e = "monitor"
  BY <1>1, <1>3 DEF Turned, SettingsEntries
<1>4. CASE e = "heartbeats"
  BY <1>1, <1>4 DEF Turned, SettingsEntries
<1> QED
  BY <1>2, <1>3, <1>4

LEMMA EntriesHaveARecord ==
  ASSUME NEW entries \in SettingsEntries
  PROVE  /\ entries.scheduler \in TickRecord
         /\ entries.scheduler.not_before \in Nat /\ entries.scheduler.next_run_at \in Nat
         /\ \A r \in TickRecord :
              /\ [entries EXCEPT !.scheduler = r] \in SettingsEntries
              /\ [entries EXCEPT !.scheduler = r].scheduler = r
  BY DEF SettingsEntries, TickRecord

\* What is known of a session by its phase.
LEMMA PhasesAreTyped ==
  ASSUME ScheduleTyped, NEW s \in ScheduleSessions
  PROVE  /\ sch_session[s].phase \in {"idle", "due", "run", "ended", "told", "read", "flushed"}
         /\ AtRest.phase = "idle"
         /\ sch_session[s].phase = "idle" => sch_session[s] = AtRest
         /\ sch_session[s].phase = "ended" => sch_session[s].outcome \in TickOutcomes
         /\ sch_session[s].phase = "told" =>
              /\ sch_session[s].outcome \in TickOutcomes /\ sch_session[s].finished \in Nat
              /\ sch_session[s].previous \in TickRecord
         /\ sch_session[s].phase \in {"read", "flushed"} => sch_session[s] \in WritingSession
<1>1. sch_session[s] \in {AtRest} \union TickingSession \union WritingSession
  BY DEF ScheduleTyped
<1> QED
  BY <1>1 DEF AtRest, TickingSession, WritingSession

LEMMA ScheduleBegins == ScheduleInit => ScheduleKept
<1> SUFFICES ASSUME ScheduleInit PROVE ScheduleKept
  OBVIOUS
<1>1. NoRecord \in TickRecord /\ TickRecordKept(NoRecord)
  BY DEF NoRecord, TickRecord, TickRecordKept
<1>2. NoEntries \in SettingsEntries /\ NoEntries.scheduler = NoRecord
  BY <1>1 DEF NoEntries, SettingsEntries
<1>3. ScheduleTyped
  BY <1>2 DEF ScheduleInit, ScheduleTyped
<1>4. \A s \in ScheduleSessions : sch_session[s] = AtRest /\ sch_session[s].phase = "idle"
  BY DEF ScheduleInit, AtRest
<1>5. \A s \in ScheduleSessions : TickSessionKept(s, sch_session[s])
  BY <1>4, SessionsAreApart
     DEF TickSessionKept, RoleKept, LocksKept, ReadingKept, HasRun, IsWriting
<1>6. RunsApart /\ EntriesAreKept /\ BackoffIsHeeded
  BY <1>4, SessionsAreApart DEF ScheduleInit, RunsApart, EntriesAreKept, BackoffIsHeeded, Is
<1> QED
  BY <1>1, <1>2, <1>3, <1>5, <1>6 DEF ScheduleInit, ScheduleKept

-----------------------------------------------------------------------------
\* A step of session s that commits nothing; it may take a free lock or give up its own.
MovesTo(s, c) ==
  /\ sch_session' = [sch_session EXCEPT ![s] = c]
  /\ c \in {AtRest} \union TickingSession \union WritingSession
  /\ UNCHANGED <<sch_now, sch_extra, sch_meant>>
  /\ sch_raced' \in BOOLEAN /\ (sch_raced => sch_raced')
  /\ \/ UNCHANGED sch_row_lock
     \/ sch_row_lock = Nobody /\ sch_row_lock' = s
     \/ sch_row_lock = s /\ sch_row_lock' = Nobody
  /\ \/ UNCHANGED sch_run_lock
     \/ sch_run_lock = Nobody /\ sch_run_lock' = s /\ s \in Ticks
     \/ sch_run_lock = s /\ sch_run_lock' = Nobody

\* It is enough to look at the session that moves.
LEMMA MovingKeeps ==
  ASSUME ScheduleKept, NEW s \in ScheduleSessions, NEW c, MovesTo(s, c),
         TickSessionKept(s, c)', sch_run_lock' = s => c # AtRest,
         RunsApart', BackoffIsHeeded'
  PROVE  ScheduleKept'
<1>1. ScheduleTyped'
  BY SessionsAreApart DEF ScheduleKept, ScheduleTyped, MovesTo
<1>2. /\ sch_session \in [ScheduleSessions -> {AtRest} \union TickingSession \union WritingSession]
      /\ sch_session'[s] = c
      /\ \A t \in ScheduleSessions \ {s} : sch_session'[t] = sch_session[t]
  BY DEF ScheduleKept, ScheduleTyped, MovesTo
<1>3. ASSUME NEW t \in ScheduleSessions, t # s
      PROVE  TickSessionKept(t, sch_session[t])'
  <2>1. PICK d : d = sch_session[t]
    OBVIOUS
  <2>2. RoleKept(t, d) /\ LocksKept(t, d) /\ ReadingKept(d)
    BY <2>1 DEF ScheduleKept, TickSessionKept
  <2>3. RoleKept(t, d)'
    BY <2>2 DEF RoleKept, IsWriting
  <2>4. t # Nobody
    BY SessionsAreApart
  <2>5. LocksKept(t, d)'
    BY <1>3, <2>2, <2>4 DEF LocksKept, MovesTo, HasRun, IsWriting
  <2>6. sch_extra' = sch_extra /\ (sch_raced => sch_raced')
    BY DEF MovesTo
  <2>7. Written(d)' = Written(d)
    BY <2>6 DEF Written
  <2>8. ReadingKept(d)'
    BY <2>2, <2>6, <2>7 DEF ReadingKept, IsWriting
  <2> QED
    BY <1>2, <1>3, <2>1, <2>3, <2>5, <2>8 DEF TickSessionKept
<1>4. TickSessionKept(s, sch_session[s])'
  BY <1>2
<1>5. TickRecordKept(sch_extra.scheduler)' /\ TickRecordKept(sch_meant.scheduler)'
  BY DEF ScheduleKept, MovesTo, TickRecordKept
<1>6. EntriesAreKept'
  BY DEF ScheduleKept, MovesTo, EntriesAreKept
<1>7. sch_run_lock' # Nobody => sch_session'[sch_run_lock'] # AtRest
  <2>1. CASE sch_run_lock' = s
    BY <1>2, <2>1
  <2>2. CASE sch_run_lock' # s
    <3>1. sch_run_lock' = sch_run_lock \/ sch_run_lock' = Nobody
      BY <2>2 DEF MovesTo
    <3>2. sch_run_lock \in Ticks \union {Nobody}
      BY DEF ScheduleKept, ScheduleTyped
    <3> QED
      BY <1>2, <2>2, <3>1, <3>2, SessionsAreApart DEF ScheduleKept
  <2> QED
    BY <2>1, <2>2
<1> QED
  BY <1>1, <1>3, <1>4, <1>5, <1>6, <1>7 DEF ScheduleKept

\* A step to a phase in which a session is neither due nor in a run, nor flushed, does
\* not touch the relations between sessions.
LEMMA QuietMoves ==
  ASSUME ScheduleKept, NEW s \in ScheduleSessions, NEW c, MovesTo(s, c),
         c.phase \in {"idle", "ended", "told", "read"} \/ (s \in Writers /\ IsWriting(c))
  PROVE  RunsApart' /\ BackoffIsHeeded'
<1>1. /\ sch_session'[s] = c
      /\ \A t \in ScheduleSessions \ {s} : sch_session'[t] = sch_session[t]
  BY DEF ScheduleKept, ScheduleTyped, MovesTo
<1>2. sch_raced => sch_raced'
  BY DEF MovesTo
<1>3. Ticks \subseteq ScheduleSessions /\ \A t \in Ticks : t \notin Writers
  BY SessionsAreApart
<1>4. RunsApart'
  BY <1>1, <1>2, <1>3 DEF ScheduleKept, RunsApart, IsWriting
<1>5. sch_now' = sch_now /\ sch_meant' = sch_meant
  BY DEF MovesTo
<1>6. BackoffIsHeeded'
  BY <1>1, <1>2, <1>3, <1>5 DEF ScheduleKept, BackoffIsHeeded, Is, IsWriting
<1> QED
  BY <1>4, <1>6

\* A tick that ends.
LEMMA EndingMoves ==
  ASSUME ScheduleKept, NEW t \in Ticks, NEW outcome \in TickOutcomes, Ended(t, outcome),
         UNCHANGED <<sch_now, sch_extra, sch_run_lock, sch_meant, sch_raced>>,
         outcome # "skipped" => sch_run_lock = t,
         sch_row_lock' = sch_row_lock \/ (sch_row_lock = t /\ sch_row_lock' = Nobody)
  PROVE  ScheduleKept'
<1>1. PICK c : c = [phase |-> "ended", outcome |-> outcome]
  OBVIOUS
<1>2. c \in TickingSession /\ c.phase = "ended" /\ c.outcome = outcome /\ c # AtRest
  BY <1>1 DEF TickingSession, AtRest
<1>3. t \in ScheduleSessions /\ t \notin Writers /\ t \notin Locking
  BY SessionsAreApart
<1>4. MovesTo(t, c)
  BY <1>1, <1>2 DEF MovesTo, Ended, ScheduleKept, ScheduleTyped
<1>5. RoleKept(t, c)'
  BY <1>2, <1>3 DEF RoleKept, IsWriting
<1>6. LocksKept(t, c)'
  BY <1>2 DEF LocksKept, HasRun, IsWriting
<1>7. ReadingKept(c)'
  BY <1>2 DEF ReadingKept, IsWriting
<1>8. RunsApart' /\ BackoffIsHeeded'
  BY <1>2, <1>3, <1>4, QuietMoves
<1> QED
  BY <1>2, <1>3, <1>4, <1>5, <1>6, <1>7, <1>8, MovingKeeps DEF TickSessionKept

LEMMA ShouldRunKeeps ==
  ASSUME ScheduleKept, NEW t \in Ticks, should_run_now(t)
  PROVE  ScheduleKept'
<1>1. CASE sch_run_lock # Nobody \/ Waits(t)
  <2>1. Ended(t, "skipped") /\ "skipped" \in TickOutcomes
    BY <1>1 DEF should_run_now, TickOutcomes
  <2> QED
    BY <2>1, EndingMoves DEF should_run_now
<1>2. CASE ~ (sch_run_lock # Nobody \/ Waits(t))
  <2>1. PICK c : c = [phase |-> "due"]
    OBVIOUS
  <2>2. c \in TickingSession /\ c.phase = "due" /\ c # AtRest
    BY <2>1 DEF TickingSession, AtRest
  <2>3. t \in ScheduleSessions /\ t \notin Writers /\ t \notin Locking
    BY SessionsAreApart
  <2>4. MovesTo(t, c)
    BY <1>2, <2>1, <2>2 DEF MovesTo, should_run_now, ScheduleKept, ScheduleTyped
  <2>5. TickSessionKept(t, c)'
    BY <2>2, <2>3
       DEF TickSessionKept, RoleKept, LocksKept, ReadingKept, HasRun, IsWriting
  <2>6. /\ sch_session'[t] = c
        /\ \A s \in Ticks \ {t} : sch_session'[s] = sch_session[s]
    BY <2>3, <2>4, SessionsAreApart DEF ScheduleKept, ScheduleTyped, MovesTo
  <2>7. UNCHANGED <<sch_now, sch_meant, sch_raced>>
    BY DEF should_run_now
  <2>8. RunsApart'
    BY <2>2, <2>6, <2>7 DEF ScheduleKept, RunsApart
  <2>9. ~ sch_raced => sch_now >= sch_meant.scheduler.not_before
    <3>1. ~ (sch_extra.scheduler.not_before > sch_now)
      BY <1>2 DEF Waits
    <3>2. sch_extra.scheduler.not_before \in Nat /\ sch_now \in Nat
      BY EntriesHaveARecord DEF ScheduleKept, ScheduleTyped
    <3> QED
      BY <3>1, <3>2 DEF ScheduleKept, EntriesAreKept
  <2>10. BackoffIsHeeded'
    BY <2>6, <2>7, <2>9 DEF ScheduleKept, BackoffIsHeeded, Is
  <2> QED
    BY <2>2, <2>3, <2>4, <2>5, <2>8, <2>10, MovingKeeps
<1> QED
  BY <1>1, <1>2

LEMMA BeginKeeps ==
  ASSUME ScheduleKept, NEW t \in Ticks, Begin(t)
  PROVE  ScheduleKept'
<1>1. CASE sch_run_lock # Nobody
  <2>1. Ended(t, "skipped") /\ "skipped" \in TickOutcomes
    BY <1>1 DEF Begin, TickOutcomes
  <2>2. UNCHANGED <<sch_now, sch_extra, sch_run_lock, sch_meant, sch_raced, sch_row_lock>>
    BY <1>1 DEF Begin
  <2> QED
    BY <2>1, <2>2, EndingMoves
<1>2. CASE sch_run_lock = Nobody
  <2>1. PICK c : c = [phase |-> "run"]
    OBVIOUS
  <2>2. c \in TickingSession /\ c.phase = "run" /\ c # AtRest
    BY <2>1 DEF TickingSession, AtRest
  <2>3. t \in ScheduleSessions /\ t \notin Writers /\ t \notin Locking
    BY SessionsAreApart
  <2>4. PICK race \in BOOLEAN :
          race = (\E s \in Ticks \ {t} : sch_row_lock = s /\ sch_session[s].entry = "scheduler")
    OBVIOUS
  <2>5. /\ sch_session' = [sch_session EXCEPT ![t] = c] /\ sch_run_lock' = t
        /\ sch_raced' = (sch_raced \/ race)
        /\ UNCHANGED <<sch_now, sch_extra, sch_row_lock, sch_meant>>
        /\ sch_session[t].phase = "due"
    BY <1>2, <2>1, <2>4 DEF Begin, Is
  <2>6. sch_raced' \in BOOLEAN /\ (sch_raced => sch_raced')
    BY <2>4, <2>5 DEF ScheduleKept, ScheduleTyped
  <2>7. MovesTo(t, c)
    BY <1>2, <2>2, <2>5, <2>6 DEF MovesTo
  <2>8. TickSessionKept(t, c)'
    BY <2>2, <2>3, <2>5
       DEF TickSessionKept, RoleKept, LocksKept, ReadingKept, HasRun, IsWriting
  <2>9. /\ sch_session'[t] = c
        /\ \A s \in Ticks \ {t} : sch_session'[s] = sch_session[s]
    BY <2>3, <2>5, SessionsAreApart DEF ScheduleKept, ScheduleTyped
  <2>10. RunsApart'
    <3>1. ASSUME ~ sch_raced', NEW s \in Ticks, sch_session'[s].phase = "flushed",
                 sch_session'[s].entry = "scheduler"
          PROVE  FALSE
      <4>1. s # t /\ sch_session[s].phase = "flushed" /\ sch_session[s].entry = "scheduler"
        BY <2>2, <2>9, <3>1
      <4>2. sch_row_lock = s
        BY <4>1, SessionsAreApart DEF ScheduleKept, TickSessionKept, LocksKept
      <4>3. race
        BY <2>4, <4>1, <4>2
      <4> QED
        BY <2>5, <3>1, <4>3
    <3> QED
      BY <3>1 DEF RunsApart
  <2>11. BackoffIsHeeded'
    BY <2>2, <2>5, <2>6, <2>9 DEF ScheduleKept, BackoffIsHeeded, Is
  <2> QED
    BY <2>2, <2>3, <2>7, <2>8, <2>10, <2>11, MovingKeeps
<1> QED
  BY <1>1, <1>2

LEMMA BusyOrRaiseKeeps ==
  ASSUME ScheduleKept, NEW t \in Ticks, Busy(t) \/ TickRaises(t)
  PROVE  ScheduleKept'
<1>1. t \in ScheduleSessions /\ "skipped" \in TickOutcomes /\ "failed" \in TickOutcomes
  BY SessionsAreApart DEF TickOutcomes
<1>2. CASE Busy(t)
  BY <1>1, <1>2, EndingMoves DEF Busy
<1>3. CASE TickRaises(t)
  <2>1. HasRun(sch_session[t])
    BY <1>3 DEF TickRaises, HasRun, IsWriting, Is
  <2>2. sch_run_lock = t
    BY <1>1, <2>1 DEF ScheduleKept, TickSessionKept, LocksKept
  <2>3. sch_row_lock' = sch_row_lock \/ (sch_row_lock = t /\ sch_row_lock' = Nobody)
    BY <1>3 DEF TickRaises
  <2> QED
    BY <1>1, <1>3, <2>2, <2>3, EndingMoves DEF TickRaises
<1> QED
  BY <1>2, <1>3

LEMMA ReadPreviousKeeps ==
  ASSUME ScheduleKept, NEW t \in Ticks, ReadPrevious(t)
  PROVE  ScheduleKept'
<1>1. t \in ScheduleSessions /\ t \notin Writers /\ t \notin Locking
  BY SessionsAreApart
<1>2. sch_session[t].phase = "ended" /\ sch_session[t].outcome \in TickOutcomes
  BY <1>1, PhasesAreTyped DEF ScheduleKept, ReadPrevious, Is
<1>3. PICK c : c = [phase |-> "told", outcome |-> sch_session[t].outcome,
                    previous |-> sch_extra.scheduler, finished |-> sch_now]
  OBVIOUS
<1>4. sch_extra.scheduler \in TickRecord /\ sch_now \in Nat
  BY EntriesHaveARecord DEF ScheduleKept, ScheduleTyped
<1>5. /\ c \in TickingSession /\ c.phase = "told" /\ c.outcome = sch_session[t].outcome
      /\ c.previous = sch_extra.scheduler /\ c # AtRest
  BY <1>2, <1>3, <1>4 DEF TickingSession, AtRest
<1>6. MovesTo(t, c)
  BY <1>3, <1>5 DEF MovesTo, ReadPrevious, ScheduleKept, ScheduleTyped
<1>7. UNCHANGED <<sch_extra, sch_row_lock, sch_run_lock, sch_raced>>
  BY DEF ReadPrevious
<1>8. LocksKept(t, c)'
  BY <1>1, <1>2, <1>5, <1>7 DEF ScheduleKept, TickSessionKept, LocksKept, HasRun, IsWriting
<1>9. ReadingKept(c)'
  BY <1>5, <1>7 DEF ScheduleKept, ReadingKept, IsWriting
<1>10. RoleKept(t, c)'
  BY <1>1, <1>5 DEF RoleKept, IsWriting
<1>11. RunsApart' /\ BackoffIsHeeded'
  BY <1>1, <1>5, <1>6, QuietMoves
<1> QED
  BY <1>1, <1>5, <1>6, <1>8, <1>9, <1>10, <1>11, MovingKeeps DEF TickSessionKept

-----------------------------------------------------------------------------
LEMMA PersistSummaryKeeps ==
  ASSUME ScheduleKept, NEW t \in Ticks, PersistSummary(t)
  PROVE  ScheduleKept'
<1>1. t \in ScheduleSessions /\ t \notin Writers /\ t \notin Locking
  BY SessionsAreApart
<1>2. PICK outcome \in {"completed", "rate_limited"} :
        sch_session' = [sch_session EXCEPT ![t] =
                          Reading(t, "worker", outcome, 0, Turned(sch_extra, "worker"))]
  BY DEF PersistSummary
<1>3. PICK copy : copy = Turned(sch_extra, "worker")
  OBVIOUS
<1>4. PICK c : c = [phase |-> "read", entry |-> "worker", outcome |-> outcome, finished |-> 0,
                    copy |-> copy]
  OBVIOUS
<1>5. copy \in SettingsEntries /\ copy.scheduler = sch_extra.scheduler
  BY <1>3, TurningKeeps DEF ScheduleKept, ScheduleTyped
<1>6. /\ c \in WritingSession /\ c.phase = "read" /\ c.entry = "worker"
      /\ c.outcome = outcome /\ c.copy = copy /\ c # AtRest
  BY <1>4, <1>5 DEF WritingSession, TickOutcomes, AtRest
<1>7. sch_session' = [sch_session EXCEPT ![t] = c]
  BY <1>2, <1>3, <1>4 DEF Reading
<1>8. UNCHANGED <<sch_now, sch_extra, sch_row_lock, sch_run_lock, sch_meant, sch_raced>>
  BY DEF PersistSummary
<1>9. MovesTo(t, c)
  BY <1>6, <1>7, <1>8 DEF MovesTo, ScheduleKept, ScheduleTyped
<1>10. sch_run_lock = t
  BY <1>1 DEF ScheduleKept, TickSessionKept, LocksKept, HasRun, PersistSummary, Is
<1>11. LocksKept(t, c)'
  BY <1>6, <1>8, <1>10 DEF LocksKept, HasRun, IsWriting
<1>12. ReadingKept(c)'
  BY <1>3, <1>5, <1>6, <1>8 DEF ScheduleKept, ReadingKept, Written, IsWriting
<1>13. RoleKept(t, c)'
  BY <1>1, <1>2, <1>6 DEF RoleKept, IsWriting, TickOutcomes
<1>14. RunsApart' /\ BackoffIsHeeded'
  BY <1>1, <1>6, <1>9, QuietMoves
<1> QED
  BY <1>1, <1>6, <1>9, <1>11, <1>12, <1>13, <1>14, MovingKeeps DEF TickSessionKept

LEMMA PersistResultKeeps ==
  ASSUME ScheduleKept, NEW t \in Ticks, PersistResult(t)
  PROVE  ScheduleKept'
<1>1. t \in ScheduleSessions /\ t \notin Writers /\ t \notin Locking
  BY SessionsAreApart
<1>2. PICK m : m = sch_session[t]
  OBVIOUS
<1>3. /\ m.phase = "told" /\ m.outcome \in TickOutcomes /\ m.finished \in Nat
      /\ m.previous \in TickRecord
  BY <1>1, <1>2, PhasesAreTyped DEF ScheduleKept, PersistResult, Is
<1>4. LocksKept(t, m) /\ ReadingKept(m)
  BY <1>1, <1>2 DEF ScheduleKept, TickSessionKept
<1>5. PICK result : result = Result(m.previous, m.outcome, m.finished)
  OBVIOUS
<1>6. result \in TickRecord /\ TickRecordKept(result)
  BY <1>3, <1>4, <1>5, ResultKeeps DEF ReadingKept
<1>7. PICK copy : copy = [sch_extra EXCEPT !.scheduler = result]
  OBVIOUS
<1>8. copy \in SettingsEntries /\ copy.scheduler = result
  BY <1>6, <1>7, EntriesHaveARecord DEF ScheduleKept, ScheduleTyped
<1>9. PICK c : c = [phase |-> "read", entry |-> "scheduler", outcome |-> m.outcome,
                    finished |-> m.finished, copy |-> copy]
  OBVIOUS
<1>10. /\ c \in WritingSession /\ c.phase = "read" /\ c.entry = "scheduler"
       /\ c.outcome = m.outcome /\ c.finished = m.finished /\ c.copy = copy /\ c # AtRest
  BY <1>3, <1>8, <1>9 DEF WritingSession, AtRest
<1>11. sch_session' = [sch_session EXCEPT ![t] = c]
  BY <1>2, <1>5, <1>7, <1>9 DEF PersistResult, Reading
<1>12. UNCHANGED <<sch_now, sch_extra, sch_row_lock, sch_run_lock, sch_meant, sch_raced>>
  BY DEF PersistResult
<1>13. MovesTo(t, c)
  BY <1>10, <1>11, <1>12 DEF MovesTo, ScheduleKept, ScheduleTyped
<1>14. LocksKept(t, c)'
  BY <1>3, <1>4, <1>10, <1>12 DEF LocksKept, HasRun, IsWriting
<1>15. ~ sch_raced => copy = Written(c)
  BY <1>3, <1>4, <1>5, <1>7, <1>10 DEF ReadingKept, Written
<1>16. Written(c)' = Written(c)
  BY <1>12 DEF Written
<1>17. ReadingKept(c)'
  BY <1>6, <1>8, <1>10, <1>12, <1>15, <1>16 DEF ReadingKept, IsWriting
<1>18. RoleKept(t, c)'
  BY <1>1, <1>3, <1>10 DEF RoleKept, IsWriting
<1>19. RunsApart' /\ BackoffIsHeeded'
  BY <1>1, <1>10, <1>13, QuietMoves
<1> QED
  BY <1>1, <1>10, <1>13, <1>14, <1>17, <1>18, <1>19, MovingKeeps DEF TickSessionKept

LEMMA ReadEntryKeeps ==
  ASSUME ScheduleKept, NEW w \in Writers, ReadEntry(w)
  PROVE  ScheduleKept'
<1>1. w \in ScheduleSessions /\ w \notin Ticks /\ w # Nobody
      /\ EntryOf[w] \in {"worker", "monitor", "heartbeats"}
  BY SessionsAreApart
<1>2. PICK copy : copy = Turned(sch_extra, EntryOf[w])
  OBVIOUS
<1>3. copy \in SettingsEntries /\ copy.scheduler = sch_extra.scheduler
  BY <1>1, <1>2, TurningKeeps DEF ScheduleKept, ScheduleTyped
<1>4. PICK phase : phase = IF w \in Locking THEN "flushed" ELSE "read"
  OBVIOUS
<1>5. PICK c : c = [phase |-> phase, entry |-> EntryOf[w], outcome |-> Nobody, finished |-> 0,
                    copy |-> copy]
  OBVIOUS
<1>6. /\ c \in WritingSession /\ c.phase = phase /\ phase \in {"read", "flushed"}
      /\ c.entry = EntryOf[w] /\ c.copy = copy /\ c # AtRest
  BY <1>1, <1>3, <1>4, <1>5 DEF WritingSession, AtRest
<1>7. /\ sch_session' = [sch_session EXCEPT ![w] = c]
      /\ w \in Locking => sch_row_lock = Nobody /\ sch_row_lock' = w
      /\ w \notin Locking => UNCHANGED sch_row_lock
  <2>1. CASE w \in Locking
    BY <1>2, <1>4, <1>5, <2>1 DEF ReadEntry, Reading, ReadsUnderLock
  <2>2. CASE w \notin Locking
    BY <1>2, <1>4, <1>5, <2>2 DEF ReadEntry, Reading, ReadsUnderLock
  <2> QED
    BY <2>1, <2>2
<1>8. UNCHANGED <<sch_now, sch_extra, sch_run_lock, sch_meant, sch_raced>>
  BY DEF ReadEntry
<1>9. MovesTo(w, c)
  BY <1>6, <1>7, <1>8 DEF MovesTo, ScheduleKept, ScheduleTyped
<1>10. sch_run_lock # w
  BY <1>1 DEF ScheduleKept, ScheduleTyped
<1>11. LocksKept(w, c)'
  BY <1>1, <1>4, <1>6, <1>7, <1>8, <1>10 DEF LocksKept
<1>12. ReadingKept(c)'
  BY <1>1, <1>2, <1>3, <1>6, <1>8 DEF ScheduleKept, ReadingKept, Written, IsWriting
<1>13. RoleKept(w, c)'
  BY <1>1, <1>4, <1>6 DEF RoleKept, IsWriting
<1>14. RunsApart' /\ BackoffIsHeeded'
  BY <1>1, <1>6, <1>9, QuietMoves DEF IsWriting
<1> QED
  BY <1>1, <1>6, <1>9, <1>11, <1>12, <1>13, <1>14, MovingKeeps DEF TickSessionKept

LEMMA FlushKeeps ==
  ASSUME ScheduleKept, NEW s \in ScheduleSessions, Flush(s)
  PROVE  ScheduleKept'
<1>1. PICK m : m = sch_session[s]
  OBVIOUS
<1>2. m \in WritingSession /\ m.phase = "read"
  BY <1>1, PhasesAreTyped DEF ScheduleKept, Flush, Is
<1>3. RoleKept(s, m) /\ LocksKept(s, m) /\ ReadingKept(m) /\ s # Nobody
  BY <1>1, SessionsAreApart DEF ScheduleKept, TickSessionKept
<1>4. PICK c : c = [m EXCEPT !.phase = "flushed"]
  OBVIOUS
<1>5. /\ c \in WritingSession /\ c.phase = "flushed" /\ c.entry = m.entry
      /\ c.outcome = m.outcome /\ c.finished = m.finished /\ c.copy = m.copy /\ c # AtRest
  BY <1>2, <1>4 DEF WritingSession, AtRest
<1>6. sch_session' = [sch_session EXCEPT ![s] = c]
  BY <1>1, <1>4 DEF Flush
<1>7. /\ UNCHANGED <<sch_now, sch_extra, sch_meant, sch_raced>>
      /\ sch_row_lock = Nobody /\ sch_row_lock' = s
      /\ sch_run_lock' = IF sch_run_lock = s /\ m.entry = "scheduler" THEN Nobody ELSE sch_run_lock
  BY <1>1 DEF Flush
<1>8. MovesTo(s, c)
  BY <1>5, <1>6, <1>7 DEF MovesTo, ScheduleKept, ScheduleTyped
<1>9. LocksKept(s, c)'
  BY <1>2, <1>3, <1>5, <1>7 DEF LocksKept, HasRun, IsWriting
<1>10. Written(c)' = Written(m)
  BY <1>5, <1>7 DEF Written
<1>11. ReadingKept(c)'
  BY <1>2, <1>3, <1>5, <1>7, <1>10 DEF ReadingKept, IsWriting
<1>12. RoleKept(s, c)'
  BY <1>2, <1>3, <1>5 DEF RoleKept, IsWriting, AtRest
<1>13. /\ sch_session'[s] = c
       /\ \A t \in ScheduleSessions \ {s} : sch_session'[t] = sch_session[t]
  BY <1>6 DEF ScheduleKept, ScheduleTyped
<1>14. \A t \in ScheduleSessions : sch_session[t].phase # "flushed"
  BY <1>7, SessionsAreApart DEF ScheduleKept, TickSessionKept, LocksKept
<1>15. RunsApart'
  <2>1. ASSUME NEW r \in Ticks, NEW t \in Ticks, sch_session'[r].phase = "flushed",
               sch_session'[r].entry = "scheduler", sch_session'[r].outcome # "skipped",
               sch_session'[t].phase = "run"
        PROVE  FALSE
    <3>1. r \in ScheduleSessions /\ t \in ScheduleSessions
      BY SessionsAreApart
    <3>2. r = s
      BY <1>13, <1>14, <2>1, <3>1
    <3>3. sch_run_lock = s
      BY <1>2, <1>3, <1>5, <1>13, <2>1, <3>2 DEF LocksKept, HasRun
    <3>4. t # s /\ sch_session[t].phase = "run"
      BY <1>5, <1>13, <2>1, <3>1
    <3>5. sch_run_lock = t
      BY <3>1, <3>4 DEF ScheduleKept, TickSessionKept, LocksKept, HasRun
    <3> QED
      BY <3>3, <3>4, <3>5
  <2> QED
    BY <2>1 DEF RunsApart
<1>16. BackoffIsHeeded'
  BY <1>5, <1>7, <1>13, SessionsAreApart DEF ScheduleKept, BackoffIsHeeded, Is
<1> QED
  BY <1>5, <1>8, <1>9, <1>11, <1>12, <1>15, <1>16, MovingKeeps DEF TickSessionKept

LEMMA AbortKeeps ==
  ASSUME ScheduleKept, NEW s \in ScheduleSessions, Abort(s)
  PROVE  ScheduleKept'
<1>1. AtRest.phase = "idle" /\ s # Nobody
  BY SessionsAreApart DEF AtRest
<1>2. MovesTo(s, AtRest)
  BY DEF MovesTo, Abort, ScheduleKept, ScheduleTyped
<1>3. TickSessionKept(s, AtRest)'
  BY <1>1 DEF TickSessionKept, RoleKept, LocksKept, ReadingKept, HasRun, IsWriting
<1>4. RunsApart' /\ BackoffIsHeeded'
  BY <1>1, <1>2, QuietMoves
<1>5. sch_run_lock' # s
  BY <1>1 DEF Abort
<1> QED
  BY <1>2, <1>3, <1>4, <1>5, MovingKeeps

LEMMA PassKeeps ==
  ASSUME ScheduleKept, Pass
  PROVE  ScheduleKept'
<1>1. /\ sch_now \in Nat /\ sch_now' = sch_now + 1
      /\ UNCHANGED <<sch_extra, sch_row_lock, sch_run_lock, sch_session, sch_meant, sch_raced>>
  BY DEF ScheduleKept, ScheduleTyped, Pass
<1>2. ScheduleTyped'
  BY <1>1 DEF ScheduleKept, ScheduleTyped
<1>3. \A s \in ScheduleSessions : TickSessionKept(s, sch_session[s])'
  BY <1>1
     DEF ScheduleKept, TickSessionKept, RoleKept, LocksKept, ReadingKept, Written, HasRun, IsWriting
<1>4. EntriesAreKept' /\ RunsApart'
  BY <1>1 DEF ScheduleKept, EntriesAreKept, RunsApart
<1>5. sch_meant.scheduler.not_before \in Nat
  BY EntriesHaveARecord DEF ScheduleKept, ScheduleTyped
<1>6. BackoffIsHeeded'
  BY <1>1, <1>5 DEF ScheduleKept, BackoffIsHeeded, Is
<1>7. TickRecordKept(sch_extra.scheduler)' /\ TickRecordKept(sch_meant.scheduler)'
  BY <1>1 DEF ScheduleKept, TickRecordKept
<1> QED
  BY <1>1, <1>2, <1>3, <1>4, <1>6, <1>7 DEF ScheduleKept

-----------------------------------------------------------------------------
\* A commit by s that no other session's reading meets leaves no reading but its own.
LEMMA CommitMeets ==
  ASSUME ScheduleKept, NEW s \in ScheduleSessions, Commit(s), ~ sch_raced',
         NEW t \in ScheduleSessions, t # s
  PROVE  /\ ~ sch_raced /\ ~ IsWriting(sch_session[t])
         /\ sch_session[s].entry = "scheduler" => sch_session[t].phase \notin {"due", "told"}
<1>1. ~ sch_raced /\ ~ Outdates(s, t)
  BY DEF Commit
<1>2. sch_row_lock = s
  BY DEF ScheduleKept, TickSessionKept, LocksKept, Commit, Is
<1>3. sch_session[t].phase # "flushed"
  BY <1>2 DEF ScheduleKept, TickSessionKept, LocksKept
<1>4. t \in Locking => sch_session[t].phase # "read"
  BY DEF ScheduleKept, TickSessionKept, RoleKept
<1> QED
  BY <1>1, <1>3, <1>4 DEF Outdates, Is, IsWriting

LEMMA CommitKeeps ==
  ASSUME ScheduleKept, NEW s \in ScheduleSessions, Commit(s)
  PROVE  ScheduleKept'
<1>1. PICK m : m = sch_session[s]
  OBVIOUS
<1>2. m \in WritingSession /\ m.phase = "flushed"
  BY <1>1, PhasesAreTyped DEF ScheduleKept, Commit, Is
<1>3. RoleKept(s, m) /\ LocksKept(s, m) /\ ReadingKept(m) /\ s # Nobody
  BY <1>1, SessionsAreApart DEF ScheduleKept, TickSessionKept
<1>4. PICK race \in BOOLEAN : race = (\E t \in ScheduleSessions \ {s} : Outdates(s, t))
  OBVIOUS
<1>5. sch_raced' = (sch_raced \/ race) /\ sch_raced' \in BOOLEAN /\ (sch_raced => sch_raced')
  BY <1>4 DEF Commit, ScheduleKept, ScheduleTyped
<1>6. PICK c : c = IF s \in Ticks /\ m.entry = "worker"
                   THEN [phase |-> "ended", outcome |-> m.outcome] ELSE AtRest
  OBVIOUS
<1>7. /\ sch_session' = [sch_session EXCEPT ![s] = c]
      /\ sch_extra' = m.copy /\ sch_row_lock' = Nobody
      /\ UNCHANGED <<sch_now, sch_run_lock>>
  BY <1>1, <1>6 DEF Commit, Ended
<1>8. /\ sch_session'[s] = c
      /\ \A t \in ScheduleSessions \ {s} : sch_session'[t] = sch_session[t]
      /\ DOMAIN sch_session' = ScheduleSessions
  BY <1>7 DEF ScheduleKept, ScheduleTyped
<1>9. /\ c \in {AtRest} \union TickingSession /\ c.phase \in {"idle", "ended"}
      /\ c.phase = "ended" =>
           s \in Ticks /\ m.entry = "worker" /\ c.outcome \in {"completed", "rate_limited"}
      /\ c = AtRest => ~ (s \in Ticks /\ m.entry = "worker")
  BY <1>2, <1>3, <1>6 DEF RoleKept, IsWriting, TickingSession, AtRest
<1>10. m.copy \in SettingsEntries /\ m.finished \in Nat /\ TickRecordKept(m.copy.scheduler)
       /\ m.entry \in {"scheduler", "worker", "monitor", "heartbeats"}
  BY <1>2, <1>3 DEF WritingSession, ReadingKept, IsWriting
<1>11. m.entry = "scheduler" => m.outcome \in TickOutcomes /\ s \in Ticks
  BY <1>2, <1>3, SessionsAreApart DEF RoleKept, IsWriting, AtRest
<1>12. sch_meant' = IF sch_raced' THEN m.copy
                    ELSE IF m.entry = "scheduler"
                    THEN [sch_meant EXCEPT !.scheduler =
                            Result(sch_meant.scheduler, m.outcome, m.finished)]
                    ELSE Turned(sch_meant, m.entry)
  BY <1>1, <1>7 DEF Commit
<1>13. ~ sch_raced' => sch_meant' = m.copy
  <2> SUFFICES ASSUME ~ sch_raced' PROVE sch_meant' = m.copy
    OBVIOUS
  <2>1. ~ sch_raced /\ sch_extra = sch_meant
    BY <1>5 DEF ScheduleKept, EntriesAreKept
  <2>2. m.copy = Written(m)
    BY <1>2, <1>3, <2>1 DEF ReadingKept, IsWriting
  <2> QED
    BY <1>12, <2>1, <2>2 DEF Written
<1>14. sch_meant' = m.copy /\ sch_extra' = m.copy
  BY <1>7, <1>12, <1>13
<1>15. ScheduleTyped'
  <2>1. sch_session' \in [ScheduleSessions -> {AtRest} \union TickingSession \union WritingSession]
    BY <1>7, <1>9 DEF ScheduleKept, ScheduleTyped
  <2> QED
    BY <1>5, <1>7, <1>10, <1>14, <2>1 DEF ScheduleKept, ScheduleTyped
<1>16. TickRecordKept(sch_extra.scheduler)' /\ TickRecordKept(sch_meant.scheduler)'
  BY <1>10, <1>14 DEF TickRecordKept
<1>17. TickSessionKept(s, c)'
  <2>1. RoleKept(s, c)'
    <3>1. ~ IsWriting(c) /\ c.phase # "read"
      BY <1>9 DEF IsWriting
    <3>2. s \in Writers => c = AtRest
      BY <1>6, SessionsAreApart
    <3> QED
      BY <3>1, <3>2 DEF RoleKept
  <2>2. LocksKept(s, c)'
    BY <1>2, <1>3, <1>7, <1>9 DEF LocksKept, HasRun, IsWriting
  <2>3. ReadingKept(c)'
    BY <1>9 DEF ReadingKept, IsWriting
  <2> QED
    BY <2>1, <2>2, <2>3 DEF TickSessionKept
<1>18. m.entry # "scheduler" /\ ~ sch_raced' => m.copy.scheduler = sch_extra.scheduler
  <2> SUFFICES ASSUME m.entry # "scheduler", ~ sch_raced'
               PROVE  m.copy.scheduler = sch_extra.scheduler
    OBVIOUS
  <2>1. m.copy = Turned(sch_extra, m.entry)
    BY <1>2, <1>3, <1>5 DEF ReadingKept, Written, IsWriting
  <2> QED
    BY <1>10, <2>1, TurningKeeps DEF ScheduleKept, ScheduleTyped
<1>19. ASSUME NEW t \in ScheduleSessions, t # s
       PROVE  TickSessionKept(t, sch_session[t])'
  <2>1. PICK d : d = sch_session[t]
    OBVIOUS
  <2>2. RoleKept(t, d) /\ LocksKept(t, d) /\ ReadingKept(d)
    BY <2>1 DEF ScheduleKept, TickSessionKept
  <2>3. RoleKept(t, d)'
    BY <2>2 DEF RoleKept, IsWriting
  <2>4. sch_row_lock = s
    BY <1>2, <1>3 DEF LocksKept
  <2>5. d.phase # "flushed"
    BY <1>19, <2>2, <2>4 DEF LocksKept
  <2>6. LocksKept(t, d)'
    BY <1>7, <2>2, <2>5 DEF LocksKept, HasRun, IsWriting
  <2>7. ASSUME ~ sch_raced'
        PROVE  ~ IsWriting(d) /\ (d.phase = "told" => d.previous = m.copy.scheduler)
    <3>1. /\ ~ sch_raced /\ ~ IsWriting(d)
          /\ m.entry = "scheduler" => d.phase \notin {"due", "told"}
      BY <1>1, <1>19, <2>1, <2>7, CommitMeets
    <3> QED
      BY <1>18, <2>2, <2>7, <3>1 DEF ReadingKept
  <2>8. ReadingKept(d)'
    BY <1>7, <2>2, <2>7 DEF ReadingKept, IsWriting
  <2>9. TickSessionKept(t, d)'
    BY <2>3, <2>6, <2>8 DEF TickSessionKept
  <2> QED
    BY <1>8, <1>19, <2>1, <2>9
<1>20. sch_run_lock' # Nobody => sch_session'[sch_run_lock'] # AtRest
  <2> SUFFICES ASSUME sch_run_lock # Nobody PROVE sch_session'[sch_run_lock] # AtRest
    BY <1>7
  <2>1. sch_run_lock \in Ticks /\ sch_session[sch_run_lock] # AtRest
    BY DEF ScheduleKept, ScheduleTyped
  <2>2. CASE sch_run_lock = s
    <3>1. m.entry = "worker"
      BY <1>2, <1>3, <2>1, <2>2 DEF LocksKept, RoleKept, IsWriting
    <3> QED
      BY <1>8, <1>9, <2>1, <2>2, <3>1
  <2>3. CASE sch_run_lock # s
    BY <1>8, <2>1, <2>3, SessionsAreApart
  <2> QED
    BY <2>2, <2>3
<1>21. EntriesAreKept'
  BY <1>14 DEF EntriesAreKept
<1>22. RunsApart'
  <2>1. ASSUME ~ sch_raced', NEW r \in Ticks PROVE sch_session'[r].phase # "flushed"
    <3>1. r \in ScheduleSessions
      BY SessionsAreApart
    <3>2. r # s => ~ IsWriting(sch_session[r])
      BY <2>1, <3>1, CommitMeets
    <3> QED
      BY <1>8, <1>9, <3>1, <3>2 DEF IsWriting
  <2> QED
    BY <2>1 DEF RunsApart
<1>23. BackoffIsHeeded'
  <2> SUFFICES ASSUME ~ sch_raced', NEW t \in Ticks, sch_session'[t].phase \in {"due", "run"}
               PROVE  sch_now >= m.copy.scheduler.not_before
    BY <1>7, <1>14 DEF BackoffIsHeeded, Is
  <2>1. t \in ScheduleSessions /\ t # s /\ sch_session[t].phase \in {"due", "run"}
    BY <1>8, <1>9, SessionsAreApart
  <2>2. ~ sch_raced /\ (m.entry = "scheduler" => sch_session[t].phase # "due")
    BY <1>1, <2>1, CommitMeets
  <2>3. sch_now >= sch_extra.scheduler.not_before
    BY <2>1, <2>2 DEF ScheduleKept, BackoffIsHeeded, EntriesAreKept, Is
  <2>4. CASE m.entry # "scheduler"
    BY <1>18, <2>3, <2>4
  <2>5. CASE m.entry = "scheduler"
    <3>1. sch_session[t].phase = "run" /\ s \in Ticks
      BY <1>11, <2>1, <2>2, <2>5
    <3>2. m.outcome = "skipped"
      BY <1>1, <1>2, <2>2, <2>5, <3>1 DEF ScheduleKept, RunsApart
    <3>3. Result(sch_extra.scheduler, m.outcome, m.finished) = sch_extra.scheduler
      BY <1>10, <1>11, <2>5, <3>2, ResultKeeps, EntriesHaveARecord DEF ScheduleKept, ScheduleTyped
    <3>4. m.copy = Written(m)
      BY <1>2, <1>3, <2>2 DEF ReadingKept, IsWriting
    <3>5. m.copy.scheduler = sch_extra.scheduler
      BY <2>5, <3>3, <3>4, EntriesHaveARecord DEF Written, ScheduleKept, ScheduleTyped
    <3> QED
      BY <2>3, <3>5
  <2> QED
    BY <2>4, <2>5
<1>24. \A t \in ScheduleSessions : TickSessionKept(t, sch_session[t])'
  <2>1. TickSessionKept(s, sch_session[s])'
    BY <1>8, <1>17
  <2> QED
    BY <1>19, <2>1
<1> QED
  BY <1>15, <1>16, <1>20, <1>21, <1>22, <1>23, <1>24 DEF ScheduleKept

(* The inductive invariant of the schedule: without a race, what a session *)
(* has read of the settings is what is there, a session whose run is not   *)
(* flushed has the lock of the run, and no run begins beside a result that *)
(* is flushed and not committed.                                           *)
THEOREM ScheduleIsKept == ScheduleSpec => []ScheduleKept
<1>1. ASSUME ScheduleKept, ScheduleNext PROVE ScheduleKept'
  <2>1. ASSUME NEW t \in Ticks,
               \/ should_run_now(t) \/ Begin(t) \/ Busy(t) \/ TickRaises(t)
               \/ ReadPrevious(t) \/ PersistSummary(t) \/ PersistResult(t)
        PROVE  ScheduleKept'
    BY <1>1, <2>1, ShouldRunKeeps, BeginKeeps, BusyOrRaiseKeeps, ReadPreviousKeeps,
       PersistSummaryKeeps, PersistResultKeeps
  <2>2. ASSUME NEW w \in Writers, ReadEntry(w) PROVE ScheduleKept'
    BY <1>1, <2>2, ReadEntryKeeps
  <2>3. ASSUME NEW s \in ScheduleSessions, Flush(s) \/ Commit(s) \/ Abort(s)
        PROVE  ScheduleKept'
    BY <1>1, <2>3, FlushKeeps, CommitKeeps, AbortKeeps
  <2>4. CASE Pass
    BY <1>1, <2>4, PassKeeps
  <2> QED
    BY <1>1, <2>1, <2>2, <2>3, <2>4 DEF ScheduleNext
<1>2. ASSUME ScheduleKept, UNCHANGED schedule_vars PROVE ScheduleKept'
  <2>1. UNCHANGED <<sch_now, sch_extra, sch_row_lock, sch_run_lock, sch_session, sch_meant,
                    sch_raced>>
    BY <1>2 DEF schedule_vars
  <2>2. ScheduleTyped' /\ TickRecordKept(sch_extra.scheduler)' /\ TickRecordKept(sch_meant.scheduler)'
    BY <1>2, <2>1 DEF ScheduleKept, ScheduleTyped, TickRecordKept
  <2>3. \A s \in ScheduleSessions : TickSessionKept(s, sch_session[s])'
    BY <1>2, <2>1
       DEF ScheduleKept, TickSessionKept, RoleKept, LocksKept, ReadingKept, Written, HasRun,
           IsWriting
  <2>4. EntriesAreKept' /\ RunsApart' /\ BackoffIsHeeded'
    BY <1>2, <2>1 DEF ScheduleKept, EntriesAreKept, RunsApart, BackoffIsHeeded, Is
  <2> QED
    BY <1>2, <2>1, <2>2, <2>3, <2>4 DEF ScheduleKept
<1> QED
  BY <1>1, <1>2, ScheduleBegins, PTL DEF ScheduleSpec

(* The scheduler's record adds up even after a race; without one, every    *)
(* entry is what its writers made of it and no run is due or at work in a  *)
(* back-off; and one run works at a time, with no lock left behind.        *)
THEOREM ScheduleIsAlwaysTrue == ScheduleSpec => []ScheduleIsTrue
<1>1. ScheduleKept => ScheduleIsTrue
  <2> SUFFICES ASSUME ScheduleKept PROVE ScheduleIsTrue
    OBVIOUS
  <2>1. RecordAddsUp
    BY DEF ScheduleKept, TickRecordKept, RecordAddsUp
  <2>2. RunsAlone
    BY SessionsAreApart
       DEF ScheduleKept, TickSessionKept, LocksKept, HasRun, RunsAlone, Is
  <2> QED
    BY <2>1, <2>2 DEF ScheduleKept, ScheduleIsTrue
<1> QED
  BY <1>1, ScheduleIsKept, PTL

(***************************************************************************)
(* The data of a back-test.                                                *)
(***************************************************************************)
(* What a job has used and reports so far.                                  *)
ReportKept(j) ==
    /\ Len(jobs[j].used) = Len(jobs[j].datasets)
    /\ \A i \in DOMAIN jobs[j].datasets :
          LET manifest == jobs[j].datasets[i]
          IN  /\ manifest \in retrieved
              /\ manifest.request = RequestsOf[j][i]
              /\ manifest.content = jobs[j].used[i]
              /\ damages = 0 => OnDisk(manifest)

(* How far a job is with its requests, and what of a publication has been   *)
(* written.                                                                *)
StageKept(j) ==
    /\ jobs[j].status = "none" => jobs[j].datasets = <<>>
    /\ jobs[j].status = "complete" => Len(jobs[j].datasets) = Len(RequestsOf[j])
    /\ JobAt(j, "testing") => Len(jobs[j].datasets) = Len(RequestsOf[j])
    /\ JobAt(j, "asking") \/ JobAt(j, "fetching") \/ JobAt(j, "writing") =>
          Len(jobs[j].datasets) < Len(RequestsOf[j])
    /\ JobAt(j, "asking") \/ JobAt(j, "fetching") => jobs[j].written = 0
    /\ JobAt(j, "writing") =>
          /\ Publication(j) \in retrieved
          /\ damages = 0 /\ jobs[j].written >= 1 => Publication(j).content \in objects
          /\ damages = 0 /\ jobs[j].written >= 2 => Publication(j) \in manifests

ReferenceKept(r) ==
    request_refs[r] # NoReference =>
        /\ request_refs[r].request_id = r /\ ManifestOf(r).request = r
        /\ OnDisk(ManifestOf(r)) /\ request_refs[r].content = ManifestOf(r).content

ResearchKept ==
    /\ ResearchTypeOK
    /\ manifests \subseteq retrieved
    /\ damages = 0 => \A r \in DatasetRequests : ReferenceKept(r)
    /\ \A j \in Jobs : ReportKept(j) /\ StageKept(j)

LEMMA ResearchStartsKept == ResearchInit => ResearchKept
BY JobsHaveRequests
   DEF ResearchInit, ResearchKept, ResearchTypeOK, JobRecords, Job, ReportKept, StageKept,
       ReferenceKept, JobAt

LEMMA WantedIsRequested ==
  ASSUME NEW j \in Jobs, Len(jobs[j].datasets) < Len(RequestsOf[j]), ResearchTypeOK
  PROVE  Wanted(j) \in DatasetRequests
BY JobsHaveRequests DEF ResearchTypeOK, JobRecords, Wanted

(* What a step that leaves a job alone leaves it: its evidence, as long as  *)
(* no file goes.                                                           *)
LEMMA AloneIsKept ==
  ASSUME NEW k \in Jobs, ReportKept(k), StageKept(k), jobs'[k] = jobs[k],
         retrieved \subseteq retrieved',
         damages' = 0 => damages = 0 /\ objects \subseteq objects' /\ manifests \subseteq manifests'
  PROVE  ReportKept(k)' /\ StageKept(k)'
<1>1. ReportKept(k)'
  BY DEF ReportKept, OnDisk
<1>2. StageKept(k)'
  BY DEF StageKept, JobAt, Publication, Wanted
<1> QED
  BY <1>1, <1>2

(* A job that is served a manifest of the request it wants reports it, and  *)
(* nothing else changes of it or of the others.                            *)
LEMMA ServedIsKept ==
  ASSUME ResearchTypeOK, NEW j \in Jobs, ReportKept(j),
         NEW manifest \in Manifests, NEW content \in Contents, Served(j, manifest, content),
         Len(jobs[j].datasets) < Len(RequestsOf[j]),
         manifest.request = Wanted(j), manifest.content = content,
         manifest \in retrieved', retrieved \subseteq retrieved',
         damages' = 0 => /\ damages = 0 /\ OnDisk(manifest)'
                         /\ objects \subseteq objects' /\ manifests \subseteq manifests'
  PROVE  /\ jobs' \in [Jobs -> JobRecords]
         /\ \A k \in Jobs \ {j} : jobs'[k] = jobs[k]
         /\ ReportKept(j)' /\ StageKept(j)'
<1> DEFINE used == Append(jobs[j].used, content)
           datasets == Append(jobs[j].datasets, manifest)
           stage == IF Len(datasets) = Len(RequestsOf[j]) THEN "testing" ELSE "asking"
<1>1. used \in Seq(Contents) /\ datasets \in Seq(Manifests)
  BY DEF ResearchTypeOK, JobRecords
<1>2. /\ jobs' = [jobs EXCEPT ![j] = [status |-> "running", stage |-> stage, pages |-> <<>>,
                                      written |-> 0, used |-> used, datasets |-> datasets]]
      /\ stage \in {"asking", "testing"}
  BY DEF Served
<1>3. jobs'[j] = [status |-> "running", stage |-> stage, pages |-> <<>>, written |-> 0,
                  used |-> used, datasets |-> datasets]
  BY <1>2 DEF ResearchTypeOK
<1>4. /\ Len(datasets) = Len(jobs[j].datasets) + 1 /\ Len(used) = Len(datasets)
      /\ \A i \in DOMAIN datasets :
            IF i = Len(datasets) THEN datasets[i] = manifest /\ used[i] = content
            ELSE /\ i \in DOMAIN jobs[j].datasets
                 /\ datasets[i] = jobs[j].datasets[i] /\ used[i] = jobs[j].used[i]
  BY DEF ResearchTypeOK, JobRecords, ReportKept
<1>5. RequestsOf[j] \in Seq(DatasetRequests)
  BY JobsHaveRequests
<1>6. StageKept(j)'
  BY <1>1, <1>3, <1>4, <1>5 DEF StageKept, JobAt
<1> HIDE DEF used, datasets, stage
<1>7. ReportKept(j)'
  <2>1. jobs'[j].datasets = datasets /\ jobs'[j].used = used
    BY <1>3
  <2>2. Wanted(j) = RequestsOf[j][Len(datasets)]
    BY <1>4 DEF Wanted
  <2> SUFFICES ASSUME NEW i \in DOMAIN datasets
               PROVE  /\ datasets[i] \in retrieved' /\ datasets[i].request = RequestsOf[j][i]
                      /\ datasets[i].content = used[i]
                      /\ damages' = 0 => datasets[i] \in manifests' /\ datasets[i].content \in objects'
    BY <1>4, <2>1 DEF ReportKept, OnDisk
  <2>3. CASE i = Len(datasets)
    BY <1>4, <2>2, <2>3 DEF OnDisk
  <2>4. CASE i # Len(datasets)
    BY <1>4, <2>4 DEF ReportKept, OnDisk
  <2> QED
    BY <2>3, <2>4
<1>8. \A k \in Jobs \ {j} : jobs'[k] = jobs[k]
  BY <1>2 DEF ResearchTypeOK
<1>9. jobs' \in [Jobs -> JobRecords]
  BY <1>1, <1>2 DEF ResearchTypeOK, JobRecords
<1> QED
  BY <1>6, <1>7, <1>8, <1>9

(* A step of one job that leaves the files.                                 *)
LEMMA JobStepIsKept ==
  ASSUME ResearchKept, NEW j \in Jobs, NEW task \in JobRecords,
         jobs' = [jobs EXCEPT ![j] = task], ReportKept(j)', StageKept(j)',
         retrieved \subseteq retrieved', retrieved' \subseteq Manifests,
         UNCHANGED <<provider, objects, manifests, request_refs, damages>>
  PROVE  ResearchKept'
<1>1. ResearchTypeOK'
  BY DEF ResearchKept, ResearchTypeOK, References
<1>2. \A k \in Jobs \ {j} : ReportKept(k)' /\ StageKept(k)'
  BY AloneIsKept DEF ResearchKept, ResearchTypeOK
<1>3. \A r \in DatasetRequests : ReferenceKept(r) => ReferenceKept(r)'
  BY DEF ReferenceKept, ManifestOf, OnDisk
<1> QED
  BY <1>1, <1>2, <1>3 DEF ResearchKept

LEMMA ResearchStaysKept == ResearchKept /\ [ResearchNext]_research_vars => ResearchKept'
<1> SUFFICES ASSUME ResearchKept, [ResearchNext]_research_vars
             PROVE  ResearchKept'
  OBVIOUS
<1> USE JobsHaveRequests
<1>0. /\ ResearchTypeOK /\ manifests \subseteq retrieved /\ retrieved \subseteq Manifests
      /\ damages = 0 => \A r \in DatasetRequests : ReferenceKept(r)
      /\ \A j \in Jobs : ReportKept(j) /\ StageKept(j) /\ jobs[j] \in JobRecords
      /\ \A j \in Jobs : RequestsOf[j] \in Seq(DatasetRequests) /\ Len(RequestsOf[j]) > 0
  BY DEF ResearchKept, ResearchTypeOK
<1>1. ASSUME NEW j \in Jobs, StartJob(j)
      PROVE  ResearchKept'
  <2> DEFINE task == Job("running", "asking")
  <2>1. task \in JobRecords /\ jobs' = [jobs EXCEPT ![j] = task] /\ jobs'[j] = task
    BY <1>0, <1>1 DEF StartJob, Job, JobRecords, ResearchTypeOK
  <2>2. ReportKept(j)' /\ StageKept(j)'
    BY <1>0, <2>1 DEF Job, ReportKept, StageKept, JobAt
  <2> QED
    BY <1>0, <1>1, <2>1, <2>2, JobStepIsKept DEF StartJob
<1>2. ASSUME NEW j \in Jobs, CompleteJob(j)
      PROVE  ResearchKept'
  <2> DEFINE task == [jobs[j] EXCEPT !.status = "complete", !.stage = "none"]
  <2>1. task \in JobRecords /\ jobs' = [jobs EXCEPT ![j] = task] /\ jobs'[j] = task
    BY <1>0, <1>2 DEF CompleteJob, JobRecords, ResearchTypeOK
  <2>2. task.status = "complete" /\ task.used = jobs[j].used /\ task.datasets = jobs[j].datasets
    BY <1>0 DEF JobRecords
  <2> HIDE DEF task
  <2>3. ReportKept(j)'
    <3>1. UNCHANGED <<objects, manifests, retrieved, damages>>
      BY <1>2 DEF CompleteJob
    <3>2. ReportKept(j) /\ jobs'[j].used = jobs[j].used /\ jobs'[j].datasets = jobs[j].datasets
      BY <1>0, <2>1, <2>2
    <3> QED
      BY <3>1, <3>2 DEF ReportKept, OnDisk
  <2>4. StageKept(j)'
    BY <1>0, <1>2, <2>1, <2>2 DEF CompleteJob, StageKept, JobAt
  <2> QED
    BY <1>0, <1>2, <2>1, <2>3, <2>4, JobStepIsKept DEF CompleteJob
<1>3. ASSUME NEW j \in Jobs, FailJob(j)
      PROVE  ResearchKept'
  <2> DEFINE task == Job("error", "none")
  <2>1. task \in JobRecords /\ jobs' = [jobs EXCEPT ![j] = task] /\ jobs'[j] = task
    BY <1>0, <1>3 DEF FailJob, Job, JobRecords, ResearchTypeOK
  <2>2. ReportKept(j)' /\ StageKept(j)'
    BY <1>0, <2>1 DEF Job, ReportKept, StageKept, JobAt
  <2> QED
    BY <1>0, <1>3, <2>1, <2>2, JobStepIsKept DEF FailJob
<1>4. ASSUME NEW j \in Jobs, AskProvider(j)
      PROVE  ResearchKept'
  <2> DEFINE task == [jobs[j] EXCEPT !.stage = "fetching"]
  <2>1. task \in JobRecords /\ jobs' = [jobs EXCEPT ![j] = task] /\ jobs'[j] = task
    BY <1>0, <1>4 DEF AskProvider, JobRecords, ResearchTypeOK
  <2>2. /\ task.status = "running" /\ task.stage = "fetching" /\ task.written = jobs[j].written
        /\ task.used = jobs[j].used /\ task.datasets = jobs[j].datasets
    BY <1>0, <1>4 DEF AskProvider, JobAt, JobRecords
  <2> HIDE DEF task
  <2>3. ReportKept(j)'
    BY <1>0, <1>4, <2>1, <2>2 DEF AskProvider, ReportKept, OnDisk
  <2>4. StageKept(j)'
    BY <1>0, <1>4, <2>1, <2>2 DEF AskProvider, StageKept, JobAt
  <2> QED
    BY <1>0, <1>4, <2>1, <2>3, <2>4, JobStepIsKept DEF AskProvider
<1>5. ASSUME NEW j \in Jobs, NEW page \in 0 .. MaxVersion, FetchRange(j, page)
      PROVE  ResearchKept'
  <2> DEFINE task == [jobs[j] EXCEPT !.pages = Append(@, page)]
  <2>0. Append(jobs[j].pages, page) \in Seq(0 .. MaxVersion)
    BY <1>0 DEF JobRecords
  <2>1. task \in JobRecords /\ jobs' = [jobs EXCEPT ![j] = task] /\ jobs'[j] = task
    BY <1>0, <1>5, <2>0 DEF FetchRange, JobRecords, ResearchTypeOK
  <2>2. /\ task.status = "running" /\ task.stage = "fetching" /\ task.written = jobs[j].written
        /\ task.used = jobs[j].used /\ task.datasets = jobs[j].datasets
    BY <1>0, <1>5 DEF FetchRange, JobAt, JobRecords
  <2> HIDE DEF task
  <2>3. ReportKept(j)'
    BY <1>0, <1>5, <2>1, <2>2 DEF FetchRange, ReportKept, OnDisk
  <2>4. StageKept(j)'
    BY <1>0, <1>5, <2>1, <2>2 DEF FetchRange, StageKept, JobAt
  <2> QED
    BY <1>0, <1>5, <2>1, <2>3, <2>4, JobStepIsKept DEF FetchRange
<1>6. ASSUME NEW j \in Jobs, PublishDataset(j)
      PROVE  ResearchKept'
  <2> DEFINE task == [jobs[j] EXCEPT !.stage = "writing"]
  <2>1. task \in JobRecords /\ jobs' = [jobs EXCEPT ![j] = task] /\ jobs'[j] = task
    BY <1>0, <1>6 DEF PublishDataset, JobRecords, ResearchTypeOK
  <2>2. /\ task.status = "running" /\ task.stage = "writing" /\ task.written = jobs[j].written
        /\ task.pages = jobs[j].pages
        /\ task.used = jobs[j].used /\ task.datasets = jobs[j].datasets
    BY <1>0, <1>6 DEF PublishDataset, JobAt, JobRecords
  <2> HIDE DEF task
  <2>3. Publication(j)' = Publication(j)
    BY <2>1, <2>2 DEF Publication, Wanted
  <2>4. Publication(j) \in Manifests
    <3>1. Wanted(j) \in DatasetRequests
      BY <1>0, <1>6, WantedIsRequested DEF PublishDataset, StageKept
    <3>2. jobs[j].pages \in Contents
      <4>1. jobs[j].pages \in Seq(0 .. MaxVersion) /\ Len(jobs[j].pages) = DateRanges
        BY <1>0, <1>6 DEF PublishDataset, JobRecords
      <4> QED
        BY <4>1, LenProperties DEF Contents
    <3> QED
      BY <3>1, <3>2 DEF Publication, Manifests
  <2>5. retrieved' = retrieved \union {Publication(j)}
    BY <1>6 DEF PublishDataset
  <2>6. ReportKept(j)'
    BY <1>0, <1>6, <2>1, <2>2 DEF PublishDataset, ReportKept, OnDisk
  <2>7. StageKept(j)'
    BY <1>0, <1>6, <2>1, <2>2, <2>3, <2>5 DEF PublishDataset, StageKept, JobAt
  <2> QED
    BY <1>0, <1>6, <2>1, <2>4, <2>5, <2>6, <2>7, JobStepIsKept DEF PublishDataset
<1>7. ASSUME NEW j \in Jobs, LoadDataset(j)
      PROVE  ResearchKept'
  <2> DEFINE manifest == request_refs[Wanted(j)].manifest
             content == request_refs[Wanted(j)].content
  <2>1. /\ Served(j, manifest, content)
        /\ manifest \in manifests /\ content \in objects
        /\ manifest.request = Wanted(j) /\ manifest.content = content
        /\ UNCHANGED <<provider, objects, manifests, request_refs, retrieved, damages>>
    BY <1>7 DEF LoadDataset, ManifestMatches
  <2>2. manifest \in Manifests /\ content \in Contents
    BY <1>0, <2>1 DEF ResearchTypeOK
  <2>3. Len(jobs[j].datasets) < Len(RequestsOf[j])
    BY <1>0, <1>7 DEF LoadDataset, StageKept
  <2> HIDE DEF manifest, content
  <2>4. manifest \in manifests' /\ manifest.content \in objects'
    BY <2>1
  <2>5. /\ jobs' \in [Jobs -> JobRecords]
        /\ \A k \in Jobs \ {j} : jobs'[k] = jobs[k]
        /\ ReportKept(j)' /\ StageKept(j)'
    BY <1>0, <2>1, <2>2, <2>3, <2>4, ServedIsKept DEF OnDisk
  <2>6. ResearchTypeOK'
    BY <1>0, <2>1, <2>5 DEF ResearchTypeOK
  <2>7. \A k \in Jobs : ReportKept(k)' /\ StageKept(k)'
    BY <1>0, <2>1, <2>5, AloneIsKept
  <2>8. \A r \in DatasetRequests : ReferenceKept(r) => ReferenceKept(r)'
    BY <2>1 DEF ReferenceKept, ManifestOf, OnDisk
  <2> QED
    BY <1>0, <2>1, <2>6, <2>7, <2>8 DEF ResearchKept
<1>8. ASSUME NEW j \in Jobs, WriteFile(j)
      PROVE  ResearchKept'
  <2> DEFINE made == Publication(j)
             written == jobs[j].written
  <2>1. /\ made \in retrieved /\ made \in Manifests /\ made.request = Wanted(j)
        /\ made.content \in Contents /\ Wanted(j) \in DatasetRequests
        /\ Len(jobs[j].datasets) < Len(RequestsOf[j])
        /\ damages = 0 /\ written >= 1 => made.content \in objects
        /\ damages = 0 /\ written >= 2 => made \in manifests
    <3>1. Len(jobs[j].datasets) < Len(RequestsOf[j]) /\ made \in retrieved
      BY <1>0, <1>8 DEF WriteFile, StageKept
    <3>2. Wanted(j) \in DatasetRequests
      BY <1>0, <3>1, WantedIsRequested
    <3>3. made \in Manifests /\ made.content \in Contents
      BY <1>0, <3>1 DEF Manifests
    <3> QED
      BY <1>0, <1>8, <3>1, <3>2, <3>3 DEF WriteFile, StageKept, Publication
  <2>2. /\ objects' = IF written = 0 THEN objects \union {made.content} ELSE objects
        /\ manifests' = IF written = 1 THEN manifests \union {made} ELSE manifests
        /\ request_refs' = IF written = 2
                         THEN [request_refs EXCEPT ![made.request] =
                                 [request_id |-> made.request, manifest |-> made,
                                  content |-> made.content]]
                         ELSE request_refs
        /\ IF written = 2 THEN Served(j, made, made.content)
           ELSE jobs' = [jobs EXCEPT ![j].written = @ + 1]
        /\ UNCHANGED <<provider, retrieved, damages>>
        /\ written \in 0 .. 2 /\ JobAt(j, "writing")
    BY <1>0, <1>8 DEF WriteFile, WriteOrder, JobRecords
  <2>3. made.request = Publication(j).request /\ made.content = Publication(j).content
    OBVIOUS
  <2> HIDE DEF made
  <2>4. /\ objects \subseteq objects' /\ manifests \subseteq manifests'
        /\ objects' \subseteq Contents /\ manifests' \subseteq retrieved'
        /\ request_refs' \in [DatasetRequests -> References \union {NoReference}]
    BY <1>0, <2>1, <2>2 DEF ResearchTypeOK, References
  <2>5. /\ jobs' \in [Jobs -> JobRecords]
        /\ \A k \in Jobs \ {j} : jobs'[k] = jobs[k]
        /\ ReportKept(j)' /\ StageKept(j)'
    <3>1. CASE written = 2
      <4>1. damages' = 0 => damages = 0 /\ made \in manifests' /\ made.content \in objects'
        BY <2>1, <2>2, <2>4, <3>1
      <4>2. Served(j, made, made.content)
        BY <2>2, <3>1
      <4> HIDE DEF written
      <4> QED
        BY <1>0, <2>1, <2>2, <2>4, <4>1, <4>2, ServedIsKept DEF OnDisk
    <3>2. CASE written # 2
      <4> DEFINE task == [jobs[j] EXCEPT !.written = @ + 1]
      <4>1. task \in JobRecords /\ jobs' = [jobs EXCEPT ![j] = task] /\ jobs'[j] = task
        <5>1. written + 1 \in 0 .. 2
          BY <2>2, <3>2
        <5>2. task \in JobRecords
          BY <1>0, <5>1 DEF JobRecords
        <5>3. jobs' = [jobs EXCEPT ![j] = task]
          BY <2>2, <3>2
        <5> QED
          BY <1>0, <5>2, <5>3 DEF ResearchTypeOK
      <4>2. /\ task.status = jobs[j].status /\ task.stage = jobs[j].stage
            /\ task.pages = jobs[j].pages /\ task.written = written + 1
            /\ task.used = jobs[j].used /\ task.datasets = jobs[j].datasets
        BY <1>0 DEF JobRecords
      <4> HIDE DEF task
      <4>3. made' = made
        BY <4>1, <4>2 DEF made, Publication, Wanted
      <4>4. ReportKept(j)'
        BY <1>0, <2>2, <2>4, <4>1, <4>2 DEF ReportKept, OnDisk
      <4>5. /\ jobs'[j].status = "running" /\ jobs'[j].stage = "writing"
            /\ damages' = 0 /\ jobs'[j].written >= 1 => made.content \in objects'
            /\ damages' = 0 /\ jobs'[j].written >= 2 => made \in manifests'
        BY <2>1, <2>2, <3>2, <4>1, <4>2 DEF JobAt
      <4>6. StageKept(j)'
        BY <2>1, <2>2, <4>1, <4>2, <4>3, <4>5 DEF StageKept, JobAt, made
      <4> QED
        BY <1>0, <4>1, <4>4, <4>6 DEF ResearchTypeOK
    <3> QED
      BY <3>1, <3>2
  <2>6. ResearchTypeOK'
    BY <1>0, <2>2, <2>4, <2>5 DEF ResearchTypeOK
  <2>7. \A k \in Jobs : ReportKept(k)' /\ StageKept(k)'
    BY <1>0, <2>2, <2>4, <2>5, AloneIsKept
  <2>8. ASSUME damages' = 0, NEW r \in DatasetRequests
        PROVE  ReferenceKept(r)'
    <3>1. ReferenceKept(r) /\ damages = 0
      BY <1>0, <2>2, <2>8
    <3>2. CASE written = 2 /\ r = made.request
      <4>1. request_refs'[r] = [request_id |-> r, manifest |-> made, content |-> made.content]
        BY <1>0, <2>2, <3>2 DEF ResearchTypeOK
      <4> QED
        BY <2>1, <2>4, <3>1, <3>2, <4>1 DEF ReferenceKept, ManifestOf, OnDisk
    <3>3. CASE ~ (written = 2 /\ r = made.request)
      <4>1. request_refs'[r] = request_refs[r]
        BY <1>0, <2>2, <3>3 DEF ResearchTypeOK
      <4> QED
        BY <2>4, <3>1, <4>1 DEF ReferenceKept, ManifestOf, OnDisk
    <3> QED
      BY <3>2, <3>3
  <2> QED
    BY <2>4, <2>6, <2>7, <2>8 DEF ResearchKept
<1>9. ASSUME NEW wiped \in BOOLEAN, ProcessDies(wiped)
      PROVE  ResearchKept'
  <2>1. \A j \in Jobs : jobs'[j] = IF jobs[j].status = "none" THEN jobs[j] ELSE Job("lost", "none")
    BY <1>9 DEF ProcessDies
  <2>2. Job("lost", "none") \in JobRecords
    BY DEF Job, JobRecords
  <2>3. jobs' \in [Jobs -> JobRecords]
    BY <1>0, <1>9, <2>2 DEF ProcessDies
  <2>4. \A j \in Jobs : jobs'[j].datasets = <<>> /\ Len(jobs'[j].used) = Len(jobs'[j].datasets)
                          /\ jobs'[j].status \in {"none", "lost"}
    BY <1>0, <2>1 DEF Job, StageKept, ReportKept
  <2>5. \A j \in Jobs : ReportKept(j)' /\ StageKept(j)'
    BY <2>4 DEF ReportKept, StageKept, JobAt
  <2>6. /\ manifests' \subseteq manifests /\ objects' \subseteq objects
        /\ request_refs' \in [DatasetRequests -> References \union {NoReference}]
        /\ UNCHANGED <<provider, retrieved, damages>>
    BY <1>0, <1>9 DEF ProcessDies, ResearchTypeOK
  <2>7. ResearchTypeOK'
    BY <1>0, <2>3, <2>6 DEF ResearchTypeOK
  <2>8. \A r \in DatasetRequests : ReferenceKept(r) => ReferenceKept(r)'
    BY <1>9 DEF ProcessDies, ReferenceKept, ManifestOf, OnDisk
  <2> QED
    BY <1>0, <2>5, <2>6, <2>7, <2>8 DEF ResearchKept
<1>10. ASSUME damages' = damages + 1, damages < MaxDamages, UNCHANGED <<provider, jobs, retrieved>>,
              objects' \subseteq objects, manifests' \subseteq manifests,
              request_refs' \in [DatasetRequests -> References \union {NoReference}]
       PROVE  ResearchKept'
  <2>1. damages' # 0 /\ ResearchTypeOK'
    BY <1>0, <1>10 DEF ResearchTypeOK
  <2>2. \A j \in Jobs : ReportKept(j)' /\ StageKept(j)'
    BY <1>0, <1>10, <2>1, AloneIsKept
  <2> QED
    BY <1>0, <1>10, <2>1, <2>2 DEF ResearchKept
<1>11. ASSUME NEW content \in SUBSET objects, NEW manifest \in SUBSET manifests,
              LoseFile(content, manifest)
       PROVE  ResearchKept'
  BY <1>0, <1>10, <1>11 DEF LoseFile, ResearchTypeOK
<1>12. ASSUME NEW r \in DatasetRequests, NEW request_id \in DatasetRequests,
              NEW manifest \in manifests, NEW content \in objects,
              Rewire(r, request_id, manifest, content)
       PROVE  ResearchKept'
  <2>1. [request_id |-> request_id, manifest |-> manifest, content |-> content] \in References
    BY <1>0 DEF ResearchTypeOK, References
  <2> QED
    BY <1>0, <1>10, <1>12, <2>1 DEF Rewire, ResearchTypeOK
<1>13. CASE Revise
  <2>1. ResearchTypeOK'
    BY <1>0, <1>13 DEF Revise, ResearchTypeOK
  <2>2. UNCHANGED <<objects, manifests, request_refs, jobs, retrieved, damages>>
    BY <1>13 DEF Revise
  <2>3. \A j \in Jobs : ReportKept(j)' /\ StageKept(j)'
    BY <1>0, <2>2, AloneIsKept
  <2>4. \A r \in DatasetRequests : ReferenceKept(r) => ReferenceKept(r)'
    BY <2>2 DEF ReferenceKept, ManifestOf, OnDisk
  <2> QED
    BY <1>0, <2>1, <2>2, <2>3, <2>4 DEF ResearchKept
<1>14. CASE UNCHANGED research_vars
  <2>1. ResearchTypeOK'
    BY <1>0, <1>14 DEF research_vars, ResearchTypeOK
  <2>2. \A j \in Jobs : ReportKept(j)' /\ StageKept(j)'
    BY <1>0, <1>14, AloneIsKept DEF research_vars
  <2>3. \A r \in DatasetRequests : ReferenceKept(r) => ReferenceKept(r)'
    BY <1>14 DEF research_vars, ReferenceKept, ManifestOf, OnDisk
  <2> QED
    <3>1. UNCHANGED <<manifests, retrieved, damages>>
      BY <1>14 DEF research_vars
    <3> QED
      BY <1>0, <2>1, <2>2, <2>3, <3>1 DEF ResearchKept
<1> QED
  <2>1. ASSUME ResearchNext
        PROVE  ResearchKept'
    BY <1>1, <1>2, <1>3, <1>4, <1>5, <1>6, <1>7, <1>8, <1>9, <1>11, <1>12, <1>13, <2>1
       DEF ResearchNext
  <2> QED
    BY <1>14, <2>1

(* Whatever happens to the files, to the process and to the provider's      *)
(* data, a back-test has run on what it reports: on data retrieved for its  *)
(* requests, all of them where it is complete.  As long as nobody damages   *)
(* the files, a reference marks a whole publication, and what is reported   *)
(* is on disk, wherever a process died.                                     *)
THEOREM ResearchIsAlwaysSound == ResearchSpec => []ResearchIsSound
<1>1. ResearchKept => ResearchIsSound
  BY DEF ResearchKept, ResearchIsSound, RunsOnWhatItReports, EvidenceStays, ReportKept, StageKept,
         ReferenceKept
<1> QED
  BY <1>1, ResearchStartsKept, ResearchStaysKept, PTL DEF ResearchSpec
=============================================================================
