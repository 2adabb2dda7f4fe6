------------------------ MODULE SystemControlProofs ------------------------
(***************************************************************************)
(* Proofs about SystemControl, for any number of requests and positions,   *)
(* whatever they may ask for.                                              *)
(***************************************************************************)
EXTENDS SystemControl, TLAPS

-----------------------------------------------------------------------------
(* Types. *)

Columns == {"kill on", "kill off", "auto on", "auto off"}
Words == {"pending", "executed", "cancelled", "expired"}
Counts == {"none", "unread", "unconfirmed", "failed", "flattened", "already open", "left open"}

Closing(r) == pc[r] \in {"flatten", "check", "send"}
Concluded(r) == pc[r] \in {"flush", "reply", "ended"}

TypeInv ==
  /\ TypeOK
  /\ staged \in [Requests -> [cols: SUBSET Columns, tele: SUBSET (Requests \X Words)]]
  /\ target \in [Requests -> Requests \cup {None}]
  /\ todo \in [Requests -> SUBSET Tickers]
  /\ cur \in [Requests -> (Makers \X Tickers) \cup {None}]
  /\ tally \in [Requests -> [Tickers -> Counts]]
  /\ taken \subseteq Makers \X Tickers
  /\ acted \in [Requests -> SUBSET Requests]
  /\ met \in [Requests -> SUBSET Requests]
  /\ unheeded \in [Requests -> Nat]
  /\ \A r \in Requests : pc[r] \in {"check", "send"} => cur[r] \in Makers \X Tickers

Statuses == {"absent", "pending", "executed", "cancelled", "expired"}
Steps == {"new", "act", "halting", "flatten", "check", "send", "conclude", "flush", "reply", "ended"}
OrderStatuses == {"absent", "pending"} \cup Working \cup Final

(* Who met whom, and what a request is before it begins. *)
MeetInv ==
  /\ \A r \in Requests : pc[r] = "new" =>
       /\ ask[r] = Unasked /\ target[r] = None /\ staged[r] = NothingStaged
       /\ tele[r] = "absent" /\ met[r] = {} /\ \A s \in Requests : r \notin met[s]
  /\ \A r, s \in Requests : s \in met[r] => r \in met[s]
  /\ \A r, s \in Open : r # s => s \in met[r]

(* The columns a session has yet to write, and what it read before. *)
ColumnsInv(r) ==
  LET cols == staged[r].cols IN
  /\ cols # {} => pc[r] \in {"halting", "flush", "reply"}
  /\ "auto on" \in cols => ask[r].op = "resume" /\ pc[r] # "halting"
  /\ "kill on" \in cols => pc[r] = "halting"
  /\ pc[r] = "halting" => ask[r].op = "halt" /\ "kill off" \notin cols

Raced(h, s) == ask[h].op \in {"halt", "block"} /\ ask[s].op = "resume" /\ s \in met[h]

RaceInv ==
  /\ row.kill /\ row.auto => \E h, s \in Requests : Raced(h, s)
  /\ \A h \in Requests : pc[h] = "halting" /\ "auto off" \notin staged[h].cols /\ row.auto =>
       \E s \in Requests : Raced(h, s)
  /\ \A s \in Requests : "auto on" \in staged[s].cols /\ row.kill =>
       \E h \in Requests : Raced(h, s)

UnheededInv ==
  \A r \in Requests : /\ unheeded[r] <= 1
                      /\ row.kill /\ pc[r] = "send" => unheeded[r] = 0

(* A flatten. *)
FlattenInv ==
  /\ \A t \in Tickers : order[Other][t] # "cancelled"
  /\ \A m \in Makers, t \in Tickers : order[m][t] = "working" => <<m, t>> \in taken
  /\ \A r \in Requests, t \in Tickers :
       /\ tally[r][t] = "unread" => r \in lost \/ (t \in todo[r] /\ Closing(r))
       /\ tally[r][t] \in {"flattened", "already open"} => \E m \in Makers : <<m, t>> \in taken
  /\ \A r \in Requests : Closing(r) => ask[r].op = "flatten"

(* Telegram. *)
RefusedFlatten(r) == ask[r].op = "flatten" /\ Refused(r) /\ NothingWentOut(r)

WordInv(r) ==
  \A q \in Requests :
    /\ <<q, "pending">> \in staged[r].tele => q = r /\ tele[r] = "absent"
    /\ \A w \in Words \ {"pending"} : <<q, w>> \in staged[r].tele => tele[q] # "absent"
    /\ <<q, "executed">> \in staged[r].tele =>
         target[r] = q /\ pc[r] \in {"flush", "reply"} /\ ~RefusedFlatten(r)

\* A confirmation that has had its effect: it is marked, and so is its Telegram request.
Marked(q, r) ==
  /\ target[r] = q /\ pc[r] \notin {"new", "act", "halting"}
  /\ pc[r] \in {"flush", "reply"} => \E w \in Words : <<q, w>> \in staged[r].tele
  /\ pc[r] = "ended" => r \in lost \/ tele[q] \notin {"absent", "pending"}

Beside(q, r) ==
  /\ \A s \in Requests \ {r} : target[s] = q /\ s \in Open => s \in met[r] \/ r \in lost
  /\ \A s \in acted[q] : r = s \/ s \in met[r] \/ {r, s} \cap lost # {}

ActedInv == \A q \in Requests : \A r \in acted[q] : Marked(q, r) /\ Beside(q, r)

ExecutedInv ==
  \A q \in Requests : tele[q] = "executed" =>
    \E r \in acted[q] : pc[r] = "ended" /\ ~RefusedFlatten(r)

IInv ==
  /\ TypeInv
  /\ MeetInv
  /\ \A r \in Requests : ColumnsInv(r)
  /\ RaceInv
  /\ UnheededInv
  /\ FlattenInv
  /\ \A r \in Requests : WordInv(r)
  /\ ActedInv
  /\ ExecutedInv

-----------------------------------------------------------------------------
(* What the types say, function by function. *)
LEMMA Typed ==
  ASSUME TypeInv
  PROVE  /\ row \in [kill: BOOLEAN, auto: BOOLEAN]
         /\ tele \in [Requests -> Statuses] /\ ask \in [Requests -> Asks \cup {Unasked}]
         /\ pc \in [Requests -> Steps] /\ pos \in [Tickers -> {"open", "closed"}]
         /\ order \in [Makers -> [Tickers -> OrderStatuses]]
         /\ staged \in [Requests -> [cols: SUBSET Columns, tele: SUBSET (Requests \X Words)]]
         /\ target \in [Requests -> Requests \cup {None}] /\ todo \in [Requests -> SUBSET Tickers]
         /\ cur \in [Requests -> (Makers \X Tickers) \cup {None}]
         /\ tally \in [Requests -> [Tickers -> Counts]]
         /\ acted \in [Requests -> SUBSET Requests] /\ met \in [Requests -> SUBSET Requests]
         /\ unheeded \in [Requests -> Nat]
  BY DEF TypeInv, TypeOK, Statuses, Steps, OrderStatuses

LEMMA SavedWords ==
  ASSUME TypeInv, NEW r \in Requests, SaveTele(staged[r].tele)
  PROVE  /\ tele' \in [Requests -> Statuses]
         /\ \A q \in Requests :
              \/ tele'[q] = tele[q] /\ \A w \in Words : <<q, w>> \notin staged[r].tele
              \/ \E w \in Words : <<q, w>> \in staged[r].tele /\ tele'[q] = w
<1> DEFINE statuses == staged[r].tele
<1>1. statuses \subseteq Requests \X Words
  BY Typed
<1>2. tele' = [q \in Requests |-> IF \E w \in statuses : w[1] = q
                                    THEN (CHOOSE w \in statuses : w[1] = q)[2] ELSE tele[q]]
  BY DEF SaveTele
<1> HIDE DEF statuses
<1>3. ASSUME NEW q \in Requests
      PROVE  \/ tele'[q] = tele[q] /\ \A w \in Words : <<q, w>> \notin statuses
             \/ \E w \in Words : <<q, w>> \in statuses /\ tele'[q] = w
  <2>1. CASE \E w \in statuses : w[1] = q
    <3> DEFINE v == CHOOSE w \in statuses : w[1] = q
    <3>1. v \in statuses /\ v[1] = q
      BY <2>1
    <3>2. tele'[q] = v[2]
      BY <1>2, <2>1
    <3> HIDE DEF v
    <3>3. v = <<q, v[2]>> /\ v[2] \in Words
      BY <1>1, <3>1
    <3> QED
      BY <3>1, <3>2, <3>3
  <2>2. CASE ~\E w \in statuses : w[1] = q
    <3>1. tele'[q] = tele[q]
      BY <1>2, <2>2
    <3>2. \A w \in Words : <<q, w>> \notin statuses
      BY <2>2
    <3> QED
      BY <3>1, <3>2
  <2> QED
    BY <2>1, <2>2
<1>4. tele' \in [Requests -> Statuses]
  <2>1. \A q \in Requests : tele'[q] \in Statuses
    BY <1>3, Typed DEF Words, Statuses
  <2> QED
    BY <1>2, <2>1
<1> QED
  BY <1>3, <1>4 DEF statuses
LEMMA StagedWords ==
  ASSUME TypeInv, NEW r \in Requests, NEW cols \in SUBSET Columns, NEW statuses \in SUBSET (Requests \X Words),
         Stage(r, cols, statuses)
  PROVE  /\ staged' \in [Requests -> [cols: SUBSET Columns, tele: SUBSET (Requests \X Words)]]
         /\ staged'[r].cols = staged[r].cols \cup cols
         /\ staged'[r].tele = staged[r].tele \cup statuses
         /\ \A s \in Requests \ {r} : staged'[s] = staged[s]
<1> DEFINE written == [cols |-> staged[r].cols \cup cols, tele |-> staged[r].tele \cup statuses]
<1>1. staged' = [staged EXCEPT ![r] = written]
  BY DEF Stage
<1>2. written \in [cols: SUBSET Columns, tele: SUBSET (Requests \X Words)]
  BY Typed
<1>3. written.cols = staged[r].cols \cup cols /\ written.tele = staged[r].tele \cup statuses
  OBVIOUS
<1> HIDE DEF written
<1> QED
  BY <1>1, <1>2, <1>3, Typed

LEMMA SavedRows ==
  ASSUME TypeInv, NEW r \in Requests, Save(r)
  PROVE  /\ row' \in [kill: BOOLEAN, auto: BOOLEAN]
         /\ staged' \in [Requests -> [cols: SUBSET Columns, tele: SUBSET (Requests \X Words)]]
         /\ staged'[r] = NothingStaged
         /\ \A s \in Requests \ {r} : staged'[s] = staged[s]
<1>1. row' \in [kill: BOOLEAN, auto: BOOLEAN]
  BY Typed DEF Save, SaveCols
<1>2. NothingStaged \in [cols: SUBSET Columns, tele: SUBSET (Requests \X Words)]
  BY DEF NothingStaged
<1> QED
  BY <1>1, <1>2, Typed DEF Save

LEMMA QueuedWords ==
  ASSUME TypeInv
  PROVE  /\ Expired \in SUBSET (Requests \X Words)
         /\ Expired \cup Withdrawn \in SUBSET (Requests \X Words)
         /\ \A r \in Requests : Expired \cup Withdrawn \cup {<<r, "pending">>} \in SUBSET (Requests \X Words)
  BY DEF Expired, Withdrawn, Pending, Words

LEMMA CarriedTypes ==
  ASSUME TypeInv, NEW r \in Requests, CarriedOut(r)
  PROVE  /\ acted' \in [Requests -> SUBSET Requests]
         /\ \A q \in Requests : acted'[q] = IF target[r] = q THEN acted[q] \cup {r} ELSE acted[q]
  BY Typed, OtherIsNoRequest DEF CarriedOut

LEMMA BegunTypes ==
  ASSUME TypeInv, NEW r \in Requests, NEW a \in Asks, Begin(r, a)
  PROVE  /\ ask' \in [Requests -> Asks \cup {Unasked}] /\ met' \in [Requests -> SUBSET Requests]
         /\ pc[r] = "new" /\ ask'[r] = a /\ \A s \in Requests \ {r} : ask'[s] = ask[s]
         /\ \A s \in Requests : met'[s] = IF s = r THEN Open
                                           ELSE IF s \in Open THEN met[s] \cup {r} ELSE met[s]
  BY Typed DEF Begin, Open

(* The parts of the types that steps do not share. *)
Sets == late \subseteq Requests /\ lost \subseteq Requests /\ holds \subseteq {r \in Requests : pc[r] = "reply"}
Targets == \A r \in Requests : target[r] # None => tele[target[r]] # "absent"
AtHand == \A r \in Requests : pc[r] \in {"check", "send"} => cur[r] \in Makers \X Tickers
Filled == \A m \in Makers, t \in Tickers : order[m][t] = "filled" => pos[t] = "closed"

Functions ==
  /\ row \in [kill: BOOLEAN, auto: BOOLEAN] /\ blocked \in BOOLEAN /\ serving \in BOOLEAN
  /\ tele \in [Requests -> Statuses] /\ ask \in [Requests -> Asks \cup {Unasked}]
  /\ pc \in [Requests -> Steps] /\ pos \in [Tickers -> {"open", "closed"}]
  /\ order \in [Makers -> [Tickers -> OrderStatuses]]
  /\ staged \in [Requests -> [cols: SUBSET Columns, tele: SUBSET (Requests \X Words)]]
  /\ target \in [Requests -> Requests \cup {None}] /\ todo \in [Requests -> SUBSET Tickers]
  /\ cur \in [Requests -> (Makers \X Tickers) \cup {None}]
  /\ tally \in [Requests -> [Tickers -> Counts]]
  /\ taken \subseteq Makers \X Tickers
  /\ acted \in [Requests -> SUBSET Requests] /\ met \in [Requests -> SUBSET Requests]
  /\ unheeded \in [Requests -> Nat]

LEMMA TypeParts == TypeInv <=> Functions /\ Sets /\ Targets /\ AtHand /\ Filled
  BY DEF TypeInv, TypeOK, Functions, Sets, Targets, AtHand, Filled, Statuses, Steps, OrderStatuses

LEMMA TypePartsPrimed ==
  ASSUME Functions', Sets', Targets', AtHand', Filled' PROVE TypeInv'
  BY DEF TypeInv, TypeOK, Functions, Sets, Targets, AtHand, Filled, Statuses, Steps, OrderStatuses

LEMMA TypeInit == Init => TypeInv
<1> SUFFICES ASSUME Init PROVE TypeInv
  OBVIOUS
<1>1. Functions
  <2>1. NothingStaged \in [cols: SUBSET Columns, tele: SUBSET (Requests \X Words)]
    BY DEF NothingStaged
  <2>2. order \in [Makers -> [Tickers -> OrderStatuses]]
    BY DEF Init, OrderStatuses
  <2> QED
    BY <2>1, <2>2 DEF Init, Functions, Statuses, Steps, Counts
<1>2. Sets /\ Targets /\ AtHand /\ Filled
  <2>1. \A m \in Makers, t \in Tickers : order[m][t] # "filled"
    BY DEF Init
  <2> QED
    BY <2>1 DEF Init, Sets, Targets, AtHand, Filled
<1> QED
  BY <1>1, <1>2, TypeParts

LEMMA TypeBegin ==
  ASSUME TypeInv, NEW r \in Requests, NEW a \in Asks, Dispatch(r, a) \/ FromTheWeb(r, a) \/ BlockControls(r, a)
  PROVE  TypeInv'
<1>1. Begin(r, a)
  BY DEF Dispatch, QueueConfirmation, CancelPending, Confirm, FromTheWeb, BlockControls
<1>2. Functions /\ Sets /\ Targets /\ AtHand /\ Filled
  BY TypeParts
<1>3. pc[r] = "new"
  BY <1>1 DEF Begin
<1>4. UNCHANGED <<tele, late, lost, todo, cur, tally, pos, order, taken, serving, acted>>
  BY DEF Dispatch, QueueConfirmation, CancelPending, Confirm, FromTheWeb, BlockControls, Loose, teleVars, exitVars
<1>5. pc' \in [Requests -> Steps] /\ (\A s \in Requests \ {r} : pc'[s] = pc[s]) /\ pc'[r] \in {"flush", "act", "ended"}
  BY <1>2 DEF Dispatch, QueueConfirmation, CancelPending, Confirm, FromTheWeb, BlockControls, Go, Functions, Steps
<1>6. staged' \in [Requests -> [cols: SUBSET Columns, tele: SUBSET (Requests \X Words)]]
  BY <1>2, StagedWords, QueuedWords
  DEF Dispatch, QueueConfirmation, CancelPending, Confirm, FromTheWeb, BlockControls, Functions
<1>7. /\ target' \in [Requests -> Requests \cup {None}]
      /\ \A s \in Requests : target'[s] # target[s] => tele[target'[s]] = "pending"
  <2>1. target' = target \/ \E q \in Pending : target' = [target EXCEPT ![r] = q]
    BY DEF Dispatch, QueueConfirmation, CancelPending, Confirm, FromTheWeb, BlockControls, teleVars
  <2>2. Pending \subseteq Requests /\ \A q \in Pending : tele[q] = "pending"
    BY DEF Pending
  <2> QED
    BY <1>2, <2>1, <2>2 DEF Functions
<1>8. row' \in [kill: BOOLEAN, auto: BOOLEAN] /\ blocked' \in BOOLEAN /\ unheeded' \in [Requests -> Nat]
  <2>1. CASE Dispatch(r, a) \/ FromTheWeb(r, a)
    BY <1>2, <2>1 DEF Dispatch, QueueConfirmation, CancelPending, Confirm, FromTheWeb, Functions, Loose, exitVars
  <2>2. CASE BlockControls(r, a)
    <3>1. row' = row \/ row' = [kill |-> TRUE, auto |-> FALSE]
      BY <2>2 DEF BlockControls
    <3>2. unheeded' = unheeded \/ unheeded' = [s \in Requests |-> 0]
      BY <2>2 DEF BlockControls
    <3>3. row' \in [kill: BOOLEAN, auto: BOOLEAN]
      <4>1. [kill |-> TRUE, auto |-> FALSE] \in [kill: BOOLEAN, auto: BOOLEAN]
        OBVIOUS
      <4>2. row \in [kill: BOOLEAN, auto: BOOLEAN]
        BY <1>2 DEF Functions
      <4> QED
        BY <3>1, <4>1, <4>2
    <3>5. unheeded' \in [Requests -> Nat]
      BY <1>2, <3>2 DEF Functions
    <3>4. blocked' = TRUE
      BY <2>2 DEF BlockControls
    <3> QED
      BY <3>3, <3>4, <3>5
  <2> QED
    BY <2>1, <2>2
<1>9. Functions'
  BY <1>1, <1>2, <1>4, <1>5, <1>6, <1>7, <1>8, BegunTypes DEF Functions
<1>10. Sets'
  <2>1. holds' = holds
    BY DEF Dispatch, QueueConfirmation, CancelPending, Confirm, FromTheWeb, BlockControls, Loose
  <2> QED
    BY <1>2, <1>3, <1>4, <1>5, <2>1 DEF Sets
<1>11. Targets' /\ AtHand' /\ Filled'
  BY <1>2, <1>4, <1>5, <1>7 DEF Targets, AtHand, Filled
<1> QED
  BY <1>9, <1>10, <1>11, TypePartsPrimed

\* Steps that write no row, order no exit and leave the Telegram requests alone.
LEMMA TypeSwitch ==
  ASSUME TypeInv, NEW r \in Requests,
         PauseAutoTrading(r) \/ ResumeAutoTrading(r) \/ ReadForHalt(r) \/ ConcludeHalt(r)
           \/ DeactivateKillSwitch(r) \/ Flattened(r) \/ Flush(r) \/ SubmissionAllowed(r)
  PROVE  TypeInv'
<1> USE DEF Loose, teleVars, roleVars, exitVars
<1>1. Functions /\ Sets /\ Targets /\ AtHand /\ Filled
  BY TypeParts
<1>2. UNCHANGED <<row, blocked, serving, tele, late, target, acted, ask, met, lost, todo, cur, tally, pos,
                  order, taken, unheeded>>
  BY DEF PauseAutoTrading, ResumeAutoTrading, ReadForHalt, ConcludeHalt, DeactivateKillSwitch, Flattened, Flush,
     SubmissionAllowed
<1>3. /\ pc' \in [Requests -> Steps] /\ (\A s \in Requests \ {r} : pc'[s] = pc[s])
      /\ pc[r] # "reply"
      /\ pc'[r] \in {"flush", "halting"} \/ (pc'[r] = "send" /\ pc[r] = "check")
           \/ (Flush(r) /\ pc'[r] = "reply")
  BY <1>1 DEF PauseAutoTrading, ResumeAutoTrading, ReadForHalt, ConcludeHalt, DeactivateKillSwitch, Flattened,
     Flush, SubmissionAllowed, Conclude, Go, Functions, Steps
<1>4. staged' \in [Requests -> [cols: SUBSET Columns, tele: SUBSET (Requests \X Words)]]
  <2>1. \A word \in Words : (IF target[r] = None THEN {} ELSE {<<target[r], word>>}) \in SUBSET (Requests \X Words)
    BY <1>1 DEF Functions
  <2>2. {"executed", "cancelled"} \subseteq Words
    BY DEF Words
  <2>3. \A cols \in SUBSET Columns, word \in {"executed", "cancelled"} : Conclude(r, cols, word) =>
          staged' \in [Requests -> [cols: SUBSET Columns, tele: SUBSET (Requests \X Words)]]
    BY <2>1, <2>2, StagedWords DEF Conclude
  <2>4. CASE PauseAutoTrading(r) \/ ResumeAutoTrading(r) \/ ConcludeHalt(r) \/ Flattened(r)
    BY <2>3, <2>4 DEF PauseAutoTrading, ResumeAutoTrading, ConcludeHalt, Flattened, Columns
  <2>5. CASE ReadForHalt(r) \/ DeactivateKillSwitch(r)
    <3>1. \E cols \in SUBSET Columns : Stage(r, cols, {})
      BY <2>5 DEF ReadForHalt, DeactivateKillSwitch, Columns
    <3> QED
      BY <3>1, StagedWords
  <2>6. CASE Flush(r) \/ SubmissionAllowed(r)
    BY <1>1, <2>6 DEF Flush, SubmissionAllowed, Functions
  <2> QED
    BY <2>4, <2>5, <2>6
<1>5. Functions'
  BY <1>1, <1>2, <1>3, <1>4 DEF Functions
<1>6. Sets'
  <2>1. holds' = holds \/ (holds' = holds \cup {r} /\ Flush(r))
    BY DEF PauseAutoTrading, ResumeAutoTrading, ReadForHalt, ConcludeHalt, DeactivateKillSwitch, Flattened,
       Flush, SubmissionAllowed
  <2>2. Flush(r) => pc'[r] = "reply"
    BY <1>1 DEF Flush, Go, Functions
  <2> QED
    BY <1>1, <1>2, <1>3, <2>1, <2>2 DEF Sets
<1>7. Targets' /\ AtHand' /\ Filled'
  BY <1>1, <1>2, <1>3 DEF Targets, AtHand, Filled
<1> QED
  BY <1>5, <1>6, <1>7, TypePartsPrimed
LEMMA CountTypes ==
  ASSUME TypeInv, NEW r \in Requests, NEW t \in Tickers, NEW how \in Counts, Count(r, t, how)
  PROVE  /\ todo' \in [Requests -> SUBSET Tickers] /\ tally' \in [Requests -> [Tickers -> Counts]]
         /\ cur' \in [Requests -> (Makers \X Tickers) \cup {None}]
         /\ \A s \in Requests \ {r} : cur'[s] = cur[s] /\ todo'[s] = todo[s] /\ tally'[s] = tally[s]
                                        /\ pc'[s] = pc[s]
         /\ todo'[r] = todo[r] \ {t} /\ pc'[r] = "flatten"
         /\ \A u \in Tickers : tally'[r][u] = IF u = t THEN how ELSE tally[r][u]
<1>1. pc' = [pc EXCEPT ![r] = "flatten"] /\ cur' = [cur EXCEPT ![r] = None]
  BY DEF Count, Go
<1>2. todo' = [todo EXCEPT ![r] = todo[r] \ {t}] /\ tally' = [tally EXCEPT ![r][t] = how]
  BY DEF Count
<1>3. tally[r] \in [Tickers -> Counts]
  BY Typed
<1>4. tally' \in [Requests -> [Tickers -> Counts]] /\ tally'[r] = [tally[r] EXCEPT ![t] = how]
      /\ \A s \in Requests \ {r} : tally'[s] = tally[s]
  BY <1>2, <1>3, Typed
<1>5. \A u \in Tickers : tally'[r][u] = IF u = t THEN how ELSE tally[r][u]
  BY <1>3, <1>4
<1>6. /\ todo' \in [Requests -> SUBSET Tickers] /\ todo'[r] = todo[r] \ {t}
      /\ \A s \in Requests \ {r} : todo'[s] = todo[s]
  BY <1>2, Typed
<1>7. /\ cur' \in [Requests -> (Makers \X Tickers) \cup {None}] /\ pc'[r] = "flatten"
      /\ \A s \in Requests \ {r} : cur'[s] = cur[s] /\ pc'[s] = pc[s]
  BY <1>1, Typed
<1> QED
  BY <1>4, <1>5, <1>6, <1>7

LEMMA OrderWritten ==
  ASSUME TypeInv, NEW m \in Makers, NEW t \in Tickers, NEW how \in OrderStatuses,
         order' = [order EXCEPT ![m][t] = how]
  PROVE  /\ order' \in [Makers -> [Tickers -> OrderStatuses]]
         /\ \A n \in Makers, u \in Tickers : order'[n][u] = IF n = m /\ u = t THEN how ELSE order[n][u]
<1>1. order[m] \in [Tickers -> OrderStatuses]
  BY Typed
<1>2. order'[m] = [order[m] EXCEPT ![t] = how] /\ \A n \in Makers \ {m} : order'[n] = order[n]
  BY Typed
<1>3. order' \in [Makers -> [Tickers -> OrderStatuses]]
  BY <1>1, Typed
<1> QED
  BY <1>1, <1>2, <1>3

\* The exit order a request has at hand.
LEMMA AtHandIs ==
  ASSUME TypeInv, NEW r \in Requests, pc[r] \in {"check", "send"}
  PROVE  \E m \in Makers, t \in Tickers : cur[r] = <<m, t>> /\ cur[r][1] = m /\ cur[r][2] = t
  BY DEF TypeInv

LEMMA TypeExit ==
  ASSUME TypeInv, NEW r \in Requests,
         \/ ReadPositions(r) \/ SubmissionRefused(r)
         \/ \E t \in Tickers : FindStanding(r, t) \/ CreateIntent(r, t)
  PROVE  TypeInv'
<1>1. Functions /\ Sets /\ Targets /\ AtHand /\ Filled
  BY TypeParts
<1>2. UNCHANGED <<row, blocked, serving, tele, late, target, acted, ask, met, lost, pos, taken, unheeded,
                  staged, holds>>
  BY DEF ReadPositions, SubmissionRefused, FindStanding, CreateIntent, teleVars, roleVars
<1>3. /\ pc' \in [Requests -> Steps] /\ (\A s \in Requests \ {r} : pc'[s] = pc[s])
      /\ pc[r] # "reply"
  <2>1. Go(r, "flatten") \/ Go(r, "check")
    BY DEF ReadPositions, SubmissionRefused, FindStanding, CreateIntent, Count
  <2>2. pc[r] # "reply"
    BY DEF ReadPositions, SubmissionRefused, FindStanding, CreateIntent
  <2> QED
    BY <1>1, <2>1, <2>2 DEF Go, Functions, Steps
<1>4. /\ todo' \in [Requests -> SUBSET Tickers] /\ tally' \in [Requests -> [Tickers -> Counts]]
      /\ cur' \in [Requests -> (Makers \X Tickers) \cup {None}]
      /\ (\A s \in Requests \ {r} : cur'[s] = cur[s])
      /\ pc'[r] \in {"check", "send"} => cur'[r] \in Makers \X Tickers
      /\ order' \in [Makers -> [Tickers -> OrderStatuses]]
      /\ \A m \in Makers, t \in Tickers : order'[m][t] = "filled" => order[m][t] = "filled"
  <2>1. CASE ReadPositions(r)
    BY <1>1, <2>1 DEF ReadPositions, Go, Functions, Counts
  <2>2. CASE SubmissionRefused(r)
    <3>2. PICK m \in Makers, t \in Tickers : cur[r] = <<m, t>> /\ cur[r][1] = m /\ cur[r][2] = t
      BY <2>2, AtHandIs DEF SubmissionRefused
    <3>3. order' = order \/ order' = [order EXCEPT ![r][t] = "cancelled"]
      BY <2>2, <3>2 DEF SubmissionRefused
    <3>4. /\ order' \in [Makers -> [Tickers -> OrderStatuses]]
          /\ \A n \in Makers, u \in Tickers : order'[n][u] = "filled" => order[n][u] = "filled"
      <4>1. "cancelled" \in OrderStatuses /\ r \in Makers
        BY DEF OrderStatuses, Final, Makers
      <4> QED
        BY <1>1, <3>3, <4>1, OrderWritten DEF Functions
    <3>5. /\ todo' = [todo EXCEPT ![r] = {}] /\ cur' = [cur EXCEPT ![r] = None]
          /\ pc' = [pc EXCEPT ![r] = "flatten"]
          /\ tally' = [tally EXCEPT ![r] = [u \in Tickers |-> IF u \in todo[r] THEN "left open" ELSE tally[r][u]]]
      BY <2>2 DEF SubmissionRefused, Go
    <3>6. [u \in Tickers |-> IF u \in todo[r] THEN "left open" ELSE tally[r][u]] \in [Tickers -> Counts]
      <4>1. tally[r] \in [Tickers -> Counts] /\ "left open" \in Counts
        BY <1>1 DEF Functions, Counts
      <4> QED
        BY <4>1
    <3>7. /\ tally' \in [Requests -> [Tickers -> Counts]] /\ todo' \in [Requests -> SUBSET Tickers]
          /\ cur' \in [Requests -> (Makers \X Tickers) \cup {None}]
          /\ (\A s \in Requests \ {r} : cur'[s] = cur[s]) /\ pc'[r] = "flatten"
      BY <1>1, <3>5, <3>6 DEF Functions
    <3> QED
      BY <3>4, <3>7
  <2>3. ASSUME NEW t \in Tickers, FindStanding(r, t) \/ CreateIntent(r, t)
        PROVE  /\ todo' \in [Requests -> SUBSET Tickers] /\ tally' \in [Requests -> [Tickers -> Counts]]
               /\ cur' \in [Requests -> (Makers \X Tickers) \cup {None}]
               /\ (\A s \in Requests \ {r} : cur'[s] = cur[s])
               /\ pc'[r] \in {"check", "send"} => cur'[r] \in Makers \X Tickers
               /\ order' = order
    <3>1. order' = order /\ r \in Makers
      BY <2>3 DEF FindStanding, CreateIntent, Makers
    <3>2. \/ \E m \in Makers : cur' = [cur EXCEPT ![r] = <<m, t>>] /\ UNCHANGED <<todo, tally>>
          \/ \E how \in Counts : Count(r, t, how)
      BY <2>3, <3>1 DEF FindStanding, CreateIntent, Counts
    <3>3. ASSUME NEW m \in Makers, cur' = [cur EXCEPT ![r] = <<m, t>>] /\ UNCHANGED <<todo, tally>>
          PROVE  /\ todo' \in [Requests -> SUBSET Tickers] /\ tally' \in [Requests -> [Tickers -> Counts]]
                 /\ cur' \in [Requests -> (Makers \X Tickers) \cup {None}]
                 /\ (\A s \in Requests \ {r} : cur'[s] = cur[s])
                 /\ cur'[r] \in Makers \X Tickers
      <4>1. <<m, t>> \in Makers \X Tickers
        OBVIOUS
      <4> QED
        BY <1>1, <3>3, <4>1 DEF Functions
    <3>4. ASSUME NEW how \in Counts, Count(r, t, how)
          PROVE  /\ todo' \in [Requests -> SUBSET Tickers] /\ tally' \in [Requests -> [Tickers -> Counts]]
                 /\ cur' \in [Requests -> (Makers \X Tickers) \cup {None}]
                 /\ (\A s \in Requests \ {r} : cur'[s] = cur[s])
                 /\ pc'[r] = "flatten"
      BY <1>1, <3>4, CountTypes
    <3> QED
      BY <3>1, <3>2, <3>3, <3>4
  <2> QED
    BY <1>1, <2>1, <2>2, <2>3 DEF Functions
<1>5. Functions'
  BY <1>1, <1>2, <1>3, <1>4 DEF Functions
<1>6. Sets' /\ Targets' /\ Filled'
  BY <1>1, <1>2, <1>3, <1>4 DEF Sets, Targets, Filled
<1>7. AtHand'
  BY <1>1, <1>3, <1>4 DEF AtHand
<1> QED
  BY <1>5, <1>6, <1>7, TypePartsPrimed

\* A session saves what it has written.
LEMMA TypeSave ==
  ASSUME TypeInv, NEW r \in Requests, CommitHalt(r) \/ SubmitExit(r) \/ Commit(r)
  PROVE  TypeInv'
<1>1. Functions /\ Sets /\ Targets /\ AtHand /\ Filled
  BY TypeParts
<1>2. Save(r) /\ UNCHANGED <<blocked, serving, late, target, pos, ask, met, lost>>
  BY DEF CommitHalt, SubmitExit, Commit, roleVars
<1>3. /\ row' \in [kill: BOOLEAN, auto: BOOLEAN]
      /\ staged' \in [Requests -> [cols: SUBSET Columns, tele: SUBSET (Requests \X Words)]]
      /\ tele' \in [Requests -> Statuses]
      /\ \A q \in Requests : tele[q] # "absent" => tele'[q] # "absent"
  <2>1. \A w \in Words : w # "absent"
    BY DEF Words
  <2>2. SaveTele(staged[r].tele)
    BY <1>2 DEF Save
  <2>3. /\ row' \in [kill: BOOLEAN, auto: BOOLEAN]
        /\ staged' \in [Requests -> [cols: SUBSET Columns, tele: SUBSET (Requests \X Words)]]
    BY <1>2, SavedRows
  <2>4. tele' \in [Requests -> Statuses] /\ \A q \in Requests : tele[q] # "absent" => tele'[q] # "absent"
    BY <2>1, <2>2, SavedWords
  <2> QED
    BY <2>3, <2>4
<1>4. /\ pc' \in [Requests -> Steps] /\ (\A s \in Requests \ {r} : pc'[s] = pc[s])
      /\ pc'[r] \in {"conclude", "flatten", "ended"}
  BY <1>1 DEF CommitHalt, SubmitExit, Commit, Count, Go, Functions, Steps
<1>5. acted' \in [Requests -> SUBSET Requests]
  BY <1>1, CarriedTypes DEF CommitHalt, SubmitExit, Commit, Functions
<1>6. unheeded' \in [Requests -> Nat]
  <2>1. unheeded' \in {unheeded, [s \in Requests |-> 0], [unheeded EXCEPT ![r] = unheeded[r] + 1]}
    BY DEF CommitHalt, SubmitExit, Commit, HaltedAnew
  <2>2. unheeded \in [Requests -> Nat] /\ unheeded[r] + 1 \in Nat
    BY <1>1 DEF Functions
  <2> QED
    BY <2>1, <2>2
<1>7. Sets'
  <2>1. holds' \subseteq holds /\ (r \in holds' => pc[r] # "reply")
    BY DEF CommitHalt, SubmitExit, Commit
  <2> QED
    BY <1>1, <1>2, <1>4, <2>1 DEF Sets
<1>8. /\ todo' \in [Requests -> SUBSET Tickers] /\ tally' \in [Requests -> [Tickers -> Counts]]
      /\ cur' \in [Requests -> (Makers \X Tickers) \cup {None}]
      /\ (\A s \in Requests \ {r} : cur'[s] = cur[s])
      /\ taken' \subseteq Makers \X Tickers
      /\ order' \in [Makers -> [Tickers -> OrderStatuses]]
      /\ \A m \in Makers, t \in Tickers : order'[m][t] = "filled" => order[m][t] = "filled"
  <2>1. CASE CommitHalt(r) \/ Commit(r)
    BY <1>1, <2>1 DEF CommitHalt, Commit, Functions
  <2>2. CASE SubmitExit(r)
    <3>1. PICK m \in Makers, t \in Tickers : cur[r] = <<m, t>> /\ cur[r][1] = m /\ cur[r][2] = t
      BY <2>2, AtHandIs DEF SubmitExit
    <3>2. PICK o \in Outcomes(t) : /\ order' = [order EXCEPT ![m][t] = o.status]
                                   /\ taken' = IF o.took THEN taken \cup {<<m, t>>} ELSE taken
                                   /\ Count(r, t, CountAs(o.status))
      BY <2>2, <3>1 DEF SubmitExit
    <3>3. o.status \in {"error", "unknown", "working"}
      BY DEF Outcomes
    <3>4. CountAs(o.status) \in Counts
      BY DEF CountAs, Counts
    <3>5. o.status \in OrderStatuses /\ o.status # "filled"
      BY <3>3 DEF OrderStatuses, Working, Final
    <3>6. /\ order' \in [Makers -> [Tickers -> OrderStatuses]]
          /\ \A n \in Makers, u \in Tickers : order'[n][u] = "filled" => order[n][u] = "filled"
          /\ taken' \subseteq Makers \X Tickers
      BY <1>1, <3>2, <3>5 DEF Functions
    <3> QED
      BY <3>2, <3>4, <3>6, CountTypes
  <2> QED
    BY <2>1, <2>2
<1>9. Functions'
  BY <1>1, <1>2, <1>3, <1>4, <1>5, <1>6, <1>8 DEF Functions
<1>10. Targets' /\ Filled'
  BY <1>1, <1>2, <1>3, <1>8 DEF Targets, Filled, Functions
<1>11. AtHand'
  BY <1>1, <1>4, <1>8 DEF AtHand
<1> QED
  BY <1>7, <1>9, <1>10, <1>11, TypePartsPrimed

LEMMA TypeLose ==
  ASSUME TypeInv, Restart \/ \E r \in Requests : Fails(r)
  PROVE  TypeInv'
<1>1. Functions /\ Sets /\ Targets /\ AtHand /\ Filled
  BY TypeParts
<1>2. PICK S \in SUBSET Requests : Lose(S)
  BY DEF Restart, Fails, Open
<1>3. UNCHANGED <<row, blocked, tele, late, target, acted, ask, met, todo, tally, pos, order, taken, unheeded>>
      /\ serving' \in BOOLEAN
  BY <1>1 DEF Restart, Fails, teleVars, roleVars, Functions
<1>4. NothingStaged \in [cols: SUBSET Columns, tele: SUBSET (Requests \X Words)]
  BY DEF NothingStaged
<1>5. /\ staged' \in [Requests -> [cols: SUBSET Columns, tele: SUBSET (Requests \X Words)]]
      /\ cur' \in [Requests -> (Makers \X Tickers) \cup {None}] /\ pc' \in [Requests -> Steps]
      /\ \A s \in Requests : /\ s \in S => pc'[s] = "ended"
                             /\ s \notin S => pc'[s] = pc[s] /\ cur'[s] = cur[s]
  BY <1>1, <1>2, <1>4 DEF Lose, Functions, Steps
<1>6. Functions'
  BY <1>1, <1>3, <1>5 DEF Functions
<1>7. Sets' /\ Targets' /\ AtHand' /\ Filled'
  BY <1>1, <1>2, <1>3, <1>5 DEF Sets, Targets, AtHand, Filled, Lose, Functions
<1> QED
  BY <1>6, <1>7, TypePartsPrimed

LEMMA TypeStep == TypeInv /\ [Next]_vars => TypeInv'
<1> SUFFICES ASSUME TypeInv, [Next]_vars PROVE TypeInv'
  OBVIOUS
<1>1. ASSUME NEW r \in Requests, WindowPasses(r) PROVE TypeInv'
  BY <1>1 DEF WindowPasses, TypeInv, TypeOK, exitVars, roleVars
<1>2. ASSUME NEW m \in Makers, NEW t \in Tickers, BrokerFills(m, t) PROVE TypeInv'
  <2>1. Functions /\ Sets /\ Targets /\ AtHand /\ Filled
    BY TypeParts
  <2>2. UNCHANGED <<row, blocked, serving, teleVars, todo, cur, tally, taken, unheeded, roleVars, pc,
                    staged, holds, lost>>
    BY <1>2 DEF BrokerFills
  <2>3. /\ order' \in [Makers -> [Tickers -> OrderStatuses]] /\ pos' \in [Tickers -> {"open", "closed"}]
        /\ Filled'
    BY <1>2, <2>1 DEF BrokerFills, Functions, Filled, OrderStatuses, Final
  <2> QED
    BY <2>1, <2>2, <2>3, TypePartsPrimed DEF Functions, Sets, Targets, AtHand, teleVars, roleVars
<1>3. CASE UNCHANGED vars
  BY <1>3 DEF vars, teleVars, exitVars, roleVars, TypeInv, TypeOK
<1> QED
  BY <1>1, <1>2, <1>3, TypeBegin, TypeSwitch, TypeExit, TypeSave, TypeLose DEF Next

(* Every variable keeps its type, and an exit order on record as filled has closed   *)
(* its position (the settings row, the Telegram requests and the exit orders).       *)
THEOREM TypesAreKept == Spec => []TypeOK
<1>1. TypeInv => TypeOK
  BY DEF TypeInv
<1> QED
  BY <1>1, TypeInit, TypeStep, PTL DEF Spec

-----------------------------------------------------------------------------
(* The inductive invariant. *)

\* Before anything begins.
LEMMA Initially == Init => IInv
<1> SUFFICES ASSUME Init PROVE IInv
  OBVIOUS
<1>1. TypeInv
  BY TypeInit
<1>2. \A r \in Requests : /\ ask[r] = Unasked /\ target[r] = None /\ staged[r] = NothingStaged
                         /\ tele[r] = "absent" /\ met[r] = {} /\ acted[r] = {} /\ pc[r] = "new"
                         /\ unheeded[r] = 0
  BY DEF Init
<1>3. \A r \in Requests, t \in Tickers : tally[r][t] = "none"
  BY DEF Init
<1>4. ~row.kill
  BY DEF Init
<1>5. \A m \in Makers, t \in Tickers : order[m][t] \in {"absent", "pending"}
  BY DEF Init
<1>8. \A r \in Requests : staged[r].cols = {} /\ staged[r].tele = {}
  BY <1>2 DEF NothingStaged
<1>9. MeetInv
  BY <1>2 DEF MeetInv, Open
<1>10. \A r \in Requests : ColumnsInv(r)
  BY <1>2, <1>8 DEF ColumnsInv
<1>11. \A r \in Requests : WordInv(r)
  BY <1>8 DEF WordInv
<1>12. RaceInv
  BY <1>2, <1>4, <1>8 DEF RaceInv
<1>13. UnheededInv
  BY <1>2 DEF UnheededInv
<1>6. FlattenInv
  BY <1>2, <1>3, <1>5 DEF FlattenInv, Closing, Makers
<1>7. ActedInv /\ ExecutedInv
  BY <1>2 DEF ActedInv, ExecutedInv
<1> QED
  BY <1>1, <1>6, <1>7, <1>9, <1>10, <1>11, <1>12, <1>13 DEF IInv

\* A step that leaves the exits as they are.
LEMMA FlattenUntouched ==
  ASSUME FlattenInv, NEW r \in Requests, UNCHANGED <<order, taken, tally, todo, lost>>,
         \A s \in Requests \ {r} : pc'[s] = pc[s] /\ ask'[s] = ask[s],
         Closing(r) => Closing(r)' \/ todo[r] = {},
         Closing(r)' => ask'[r].op = "flatten"
  PROVE  FlattenInv'
<1>1. /\ \A t \in Tickers : order[Other][t] # "cancelled"
      /\ \A m \in Makers, t \in Tickers : order[m][t] = "working" => <<m, t>> \in taken
  BY DEF FlattenInv
<1>2. ASSUME NEW s \in Requests, NEW t \in Tickers, tally[s][t] = "unread"
      PROVE  s \in lost \/ (t \in todo[s] /\ Closing(s)')
  BY <1>2 DEF FlattenInv, Closing
<1>3. \A s \in Requests, t \in Tickers :
        tally[s][t] \in {"flattened", "already open"} => \E m \in Makers : <<m, t>> \in taken
  BY DEF FlattenInv
<1>4. \A s \in Requests : Closing(s)' => ask'[s].op = "flatten"
  BY DEF FlattenInv, Closing
<1> QED
  BY <1>1, <1>2, <1>3, <1>4 DEF FlattenInv

\* A step of an open request that stays open and writes no row.
LEMMA QuietStep ==
  ASSUME IInv, TypeInv', NEW r \in Requests, r \in Open,
         UNCHANGED <<row, tele, target, acted, ask, met, lost, unheeded>>,
         \A s \in Requests \ {r} : pc'[s] = pc[s] /\ staged'[s] = staged[s] /\ tally'[s] = tally[s],
         pc'[r] \notin {"new", "act", "ended"},
         pc'[r] = "halting" => pc[r] = "act" /\ (row.auto => "auto off" \in staged'[r].cols),
         "auto on" \in staged'[r].cols => "auto on" \in staged[r].cols \/ ~row.kill,
         pc'[r] = "send" => ~row.kill,
         ColumnsInv(r)', WordInv(r)', FlattenInv',
         \A q \in Requests : r \in acted[q] /\ pc'[r] \in {"flush", "reply"} =>
                               \E w \in Words : <<q, w>> \in staged'[r].tele
  PROVE  IInv'
<1>1. Open' = Open
  BY DEF Open
<1>2. MeetInv'
  <2>1. MeetInv
    BY DEF IInv
  <2> QED
    BY <1>1, <2>1 DEF MeetInv
<1>3. \A s \in Requests : ColumnsInv(s)'
  <2>1. ASSUME NEW s \in Requests \ {r} PROVE ColumnsInv(s)'
    <3>1. ColumnsInv(s)
      BY DEF IInv
    <3> QED
      BY <3>1 DEF ColumnsInv
  <2> QED
    BY <2>1
<1>4. RaceInv'
  <2>1. RaceInv
    BY DEF IInv
  <2>2. \A h, s \in Requests : Raced(h, s)' <=> Raced(h, s)
    BY DEF Raced
  <2>3. row.kill /\ row.auto => \E h, s \in Requests : Raced(h, s)
    BY <2>1 DEF RaceInv
  <2>4. ASSUME NEW h \in Requests, pc'[h] = "halting", "auto off" \notin staged'[h].cols, row.auto
        PROVE  \E s \in Requests : Raced(h, s)
    BY <2>1, <2>4 DEF RaceInv
  <2>5. ASSUME NEW s \in Requests, "auto on" \in staged'[s].cols, row.kill
        PROVE  \E h \in Requests : Raced(h, s)
    BY <2>1, <2>5 DEF RaceInv
  <2> QED
    BY <2>2, <2>3, <2>4, <2>5 DEF RaceInv
<1>5. UnheededInv'
  <2>1. UnheededInv
    BY DEF IInv
  <2> QED
    BY <2>1 DEF UnheededInv
<1>6. \A s \in Requests : WordInv(s)'
  <2>1. ASSUME NEW s \in Requests \ {r} PROVE WordInv(s)'
    <3>1. WordInv(s)
      BY DEF IInv
    <3>2. RefusedFlatten(s)' <=> RefusedFlatten(s)
      BY DEF RefusedFlatten, Refused, NothingWentOut
    <3> QED
      BY <3>1, <3>2 DEF WordInv
  <2> QED
    BY <2>1
<1>7. ActedInv'
  <2>1. ActedInv
    BY DEF IInv
  <2>2. ASSUME NEW q \in Requests, NEW x \in acted[q] PROVE Marked(q, x)' /\ Beside(q, x)'
    <3>1. x \in Requests /\ Marked(q, x) /\ Beside(q, x)
      BY <2>1, Typed DEF ActedInv, IInv
    <3>2. Marked(q, x)'
      <4>1. CASE x = r
        BY <3>1, <4>1 DEF Marked
      <4>2. CASE x # r
        BY <3>1, <4>2 DEF Marked
      <4> QED
        BY <4>1, <4>2
    <3>3. Beside(q, x)'
      BY <1>1, <3>1 DEF Beside
    <3> QED
      BY <3>2, <3>3
  <2> QED
    BY <2>2 DEF ActedInv
<1>8. ExecutedInv'
  <2>1. ASSUME NEW q \in Requests, tele[q] = "executed"
        PROVE  \E x \in acted[q] : pc'[x] = "ended" /\ ~RefusedFlatten(x)'
    <3>1. PICK x \in acted[q] : pc[x] = "ended" /\ ~RefusedFlatten(x)
      BY <2>1 DEF IInv, ExecutedInv
    <3>2. x \in Requests \ {r}
      BY <3>1, Typed DEF IInv, Open
    <3>3. RefusedFlatten(x)' <=> RefusedFlatten(x)
      BY <3>2 DEF RefusedFlatten, Refused, NothingWentOut
    <3> QED
      BY <3>1, <3>2, <3>3
  <2> QED
    BY <2>1 DEF ExecutedInv
<1> QED
  BY <1>2, <1>3, <1>4, <1>5, <1>6, <1>7, <1>8 DEF IInv

\* A request begins.
LEMMA BeginStep ==
  ASSUME IInv, NEW r \in Requests, NEW a \in Asks, Dispatch(r, a) \/ FromTheWeb(r, a) \/ BlockControls(r, a)
  PROVE  IInv'
<1> USE DEF Loose, teleVars, exitVars
<1>1. TypeInv /\ MeetInv /\ RaceInv /\ UnheededInv /\ FlattenInv /\ ActedInv /\ ExecutedInv
  BY DEF IInv
<1>2. Begin(r, a)
  BY DEF Dispatch, QueueConfirmation, CancelPending, Confirm, FromTheWeb, BlockControls
<1>3. /\ pc[r] = "new" /\ target[r] = None /\ staged[r] = NothingStaged /\ tele[r] = "absent" /\ met[r] = {}
      /\ r \notin Open
  BY <1>1, <1>2 DEF Begin, MeetInv, Open
<1>4. UNCHANGED <<tele, late, lost, todo, cur, tally, pos, order, taken, serving, acted>>
  BY DEF Dispatch, QueueConfirmation, CancelPending, Confirm, FromTheWeb, BlockControls
<1>5. /\ ask'[r] = a /\ \A s \in Requests \ {r} : ask'[s] = ask[s]
      /\ met'[r] = Open
      /\ \A s \in Requests \ {r} : met'[s] = IF s \in Open THEN met[s] \cup {r} ELSE met[s]
  BY <1>1, <1>2, BegunTypes
<1>6. (\A s \in Requests \ {r} : pc'[s] = pc[s]) /\ pc'[r] \in {"flush", "act", "ended"}
  BY <1>1, Typed DEF Dispatch, QueueConfirmation, CancelPending, Confirm, FromTheWeb, BlockControls, Go
<1>7. Open' \subseteq Open \cup {r}
  BY <1>6 DEF Open
<1>8. /\ \A s \in Requests \ {r} : target'[s] = target[s]
      /\ target'[r] # None => tele[target'[r]] = "pending"
  <2>1. target' = target \/ \E q \in Pending : target' = [target EXCEPT ![r] = q]
    BY DEF Dispatch, QueueConfirmation, CancelPending, Confirm, FromTheWeb, BlockControls
  <2>2. Pending \subseteq Requests /\ \A q \in Pending : tele[q] = "pending"
    BY DEF Pending
  <2> QED
    BY <1>1, <1>3, <2>1, <2>2, Typed
<1>9. /\ \A s \in Requests \ {r} : staged'[s] = staged[s]
      /\ staged'[r].cols = {}
      /\ \A q \in Requests, w \in Words : <<q, w>> \in staged'[r].tele =>
           IF w = "pending" THEN q = r ELSE tele[q] = "pending" /\ w # "executed"
  <2>1. NothingStaged.cols = {} /\ NothingStaged.tele = {}
    BY DEF NothingStaged
  <2>2. CASE FromTheWeb(r, a) \/ BlockControls(r, a)
    BY <1>3, <2>1, <2>2 DEF FromTheWeb, BlockControls
  <2>3. CASE Dispatch(r, a)
    <3>1. PICK statuses \in {Expired, Expired \cup Withdrawn, Expired \cup Withdrawn \cup {<<r, "pending">>}} :
            Stage(r, {}, statuses)
      BY <2>3 DEF Dispatch, QueueConfirmation, CancelPending, Confirm
    <3>2. \A q \in Requests, w \in Words : <<q, w>> \in statuses =>
            IF w = "pending" THEN q = r ELSE tele[q] = "pending" /\ w # "executed"
      BY <3>1 DEF Expired, Withdrawn, Pending
    <3>3. statuses \in SUBSET (Requests \X Words) /\ {} \in SUBSET Columns
      BY <1>1, <3>1, QueuedWords
    <3>4. /\ staged'[r].cols = staged[r].cols \cup {} /\ staged'[r].tele = staged[r].tele \cup statuses
          /\ \A s \in Requests \ {r} : staged'[s] = staged[s]
      <4> HIDE DEF teleVars, exitVars, Loose
      <4>1. Stage(r, {}, statuses)
        BY <3>1
      <4> QED
        BY <1>1, <3>3, <4>1, StagedWords
    <3>5. staged'[r].cols = {} /\ staged'[r].tele = statuses
      BY <1>3, <2>1, <3>4
    <3> QED
      BY <3>2, <3>4, <3>5
  <2> QED
    BY <2>2, <2>3
<1>10. \A h, s \in Requests : Raced(h, s) => Raced(h, s)'
  <2>1. ASSUME NEW h \in Requests, NEW s \in Requests, Raced(h, s) PROVE Raced(h, s)'
    <3>1. h # r /\ s # r
      BY <1>1, <1>3, <2>1 DEF Raced, MeetInv
    <3> QED
      BY <1>5, <2>1, <3>1 DEF Raced
  <2> QED
    BY <2>1
<1>11. MeetInv'
  <2>1. ASSUME NEW s \in Requests, pc'[s] = "new"
        PROVE  /\ ask'[s] = Unasked /\ target'[s] = None /\ staged'[s] = NothingStaged
               /\ tele'[s] = "absent" /\ met'[s] = {} /\ \A u \in Requests : s \notin met'[u]
    <3>1. s # r /\ pc[s] = "new" /\ s \notin Open
      BY <1>6, <2>1 DEF Open
    <3>2. \A u \in Requests : s \notin met'[u]
      <4>1. \A u \in Requests : s \notin met[u]
        BY <1>1, <3>1 DEF MeetInv
      <4>2. ASSUME NEW u \in Requests PROVE s \notin met'[u]
        BY <1>5, <3>1, <4>1
      <4> QED
        BY <4>2
    <3> QED
      BY <1>1, <1>4, <1>5, <1>8, <1>9, <3>1, <3>2 DEF MeetInv
  <2>2. \A s, u \in Requests : u \in met'[s] => s \in met'[u]
    <3>1. \A s, u \in Requests : u \in met[s] => s \in met[u]
      BY <1>1 DEF MeetInv
    <3>2. \A s \in Requests : r \notin met[s]
      BY <1>1, <1>3 DEF MeetInv
    <3>3. ASSUME NEW s \in Requests, NEW u \in Requests, u \in met'[s] PROVE s \in met'[u]
      <4>1. CASE s = r
        BY <1>3, <1>5, <3>3, <4>1
      <4>2. CASE s # r /\ u = r
        BY <1>3, <1>5, <3>2, <3>3, <4>2
      <4>3. CASE s # r /\ u # r
        BY <1>5, <3>1, <3>3, <4>3
      <4> QED
        BY <4>1, <4>2, <4>3
    <3> QED
      BY <3>3
  <2>3. \A s, u \in Open' : s # u => u \in met'[s]
    <3>1. \A s, u \in Open : s # u => u \in met[s]
      BY <1>1 DEF MeetInv
    <3>2. Open \subseteq Requests
      BY DEF Open
    <3> QED
      BY <1>3, <1>5, <1>7, <3>1, <3>2
  <2> QED
    BY <2>1, <2>2, <2>3 DEF MeetInv
<1>12. \A s \in Requests : ColumnsInv(s)'
  <2>1. ASSUME NEW s \in Requests PROVE ColumnsInv(s)'
    <3>1. ColumnsInv(s)
      BY DEF IInv
    <3>2. CASE s = r
      BY <1>6, <1>9, <3>2 DEF ColumnsInv
    <3>3. CASE s # r
      BY <1>5, <1>6, <1>9, <3>1, <3>3 DEF ColumnsInv
    <3> QED
      BY <3>2, <3>3
  <2> QED
    BY <2>1
<1>13. RaceInv' /\ UnheededInv'
  <2>1. \A h \in Requests : pc'[h] = "halting" => h # r /\ pc[h] = "halting" /\ staged'[h] = staged[h]
    BY <1>6, <1>9
  <2>2. \A s \in Requests : "auto on" \in staged'[s].cols => s # r /\ staged'[s] = staged[s]
    BY <1>9
  <2>3. CASE row' = row /\ unheeded' = unheeded
    <3>1. RaceInv'
      BY <1>1, <1>10, <2>1, <2>2, <2>3 DEF RaceInv
    <3>2. UnheededInv'
      BY <1>1, <1>6, <2>3 DEF UnheededInv
    <3> QED
      BY <3>1, <3>2
  <2>4. CASE /\ a.op = "block" /\ row' = [kill |-> TRUE, auto |-> FALSE]
             /\ unheeded' = IF row.kill THEN unheeded ELSE [s \in Requests |-> 0]
    <3>1. row'.kill /\ ~row'.auto
      BY <2>4
    <3>2. ASSUME NEW s \in Requests, "auto on" \in staged'[s].cols PROVE Raced(r, s)'
      <4>1. s # r /\ "auto on" \in staged[s].cols /\ ColumnsInv(s)
        BY <2>2, <3>2 DEF IInv
      <4>2. ask[s].op = "resume" /\ s \in Open
        BY <4>1 DEF ColumnsInv, Open
      <4> QED
        BY <1>5, <2>4, <4>1, <4>2 DEF Raced
    <3>3. RaceInv'
      BY <3>1, <3>2 DEF RaceInv
    <3>4. UnheededInv'
      BY <1>1, <1>6, <2>4 DEF UnheededInv
    <3> QED
      BY <3>3, <3>4
  <2> QED
    BY <2>3, <2>4 DEF Dispatch, QueueConfirmation, CancelPending, Confirm, FromTheWeb, BlockControls
<1>14. FlattenInv'
  <2>1. ~Closing(r) /\ ~Closing(r)'
    BY <1>3, <1>6 DEF Closing
  <2> QED
    BY <1>1, <1>4, <1>5, <1>6, <2>1, FlattenUntouched
<1>15. \A s \in Requests : WordInv(s)'
  <2>1. WordInv(r)'
    <3>1. "executed" \in Words /\ "executed" # "pending"
      BY DEF Words
    <3>2. \A q \in Requests, w \in Words : <<q, w>> \in staged'[r].tele =>
            IF w = "pending" THEN q = r /\ tele'[r] = "absent" ELSE tele'[q] # "absent" /\ w # "executed"
      BY <1>3, <1>4, <1>9
    <3>3. "pending" \in Words
      BY DEF Words
    <3> QED
      BY <3>1, <3>2, <3>3 DEF WordInv
  <2>2. ASSUME NEW s \in Requests \ {r} PROVE WordInv(s)'
    <3>1. WordInv(s)
      BY DEF IInv
    <3>2. RefusedFlatten(s)' <=> RefusedFlatten(s)
      BY <1>4, <1>5 DEF RefusedFlatten, Refused, NothingWentOut
    <3> QED
      BY <1>4, <1>6, <1>8, <1>9, <3>1, <3>2 DEF WordInv
  <2> QED
    BY <2>1, <2>2
<1>16. ActedInv'
  <2>1. ASSUME NEW q \in Requests, NEW x \in acted[q] PROVE Marked(q, x)' /\ Beside(q, x)'
    <3>1. x \in Requests /\ Marked(q, x) /\ Beside(q, x)
      BY <1>1, Typed DEF ActedInv
    <3>2. x # r
      BY <1>3, <3>1 DEF Marked
    <3>3. Marked(q, x)'
      BY <1>4, <1>6, <1>8, <1>9, <3>1, <3>2 DEF Marked
    <3>4. met[x] \subseteq met'[x] /\ (x \in Open => r \in met'[x])
      BY <1>5, <3>1, <3>2
    <3>5. ASSUME NEW s \in Requests \ {x}, target'[s] = q, s \in Open' PROVE s \in met'[x] \/ x \in lost
      <4>1. CASE s # r
        BY <1>7, <1>8, <3>1, <3>4, <3>5, <4>1 DEF Beside
      <4>2. CASE s = r
        <5>1. tele[q] = "pending"
          BY <1>8, <3>5, <4>2, OtherIsNoRequest
        <5>2. x \in lost \/ x \in Open
          BY <3>1, <5>1 DEF Marked, Open
        <5> QED
          BY <3>4, <4>2, <5>2
      <4> QED
        BY <4>1, <4>2
    <3>6. \A s \in acted[q] : x = s \/ s \in met'[x] \/ {x, s} \cap lost # {}
      BY <3>1, <3>4 DEF Beside
    <3> QED
      BY <1>4, <3>3, <3>5, <3>6 DEF Beside
  <2> QED
    BY <1>4, <2>1 DEF ActedInv
<1>17. ExecutedInv'
  <2>1. ASSUME NEW q \in Requests, tele[q] = "executed"
        PROVE  \E x \in acted[q] : pc'[x] = "ended" /\ ~RefusedFlatten(x)'
    <3>1. PICK x \in acted[q] : pc[x] = "ended" /\ ~RefusedFlatten(x)
      BY <1>1, <2>1 DEF ExecutedInv
    <3>2. x \in Requests \ {r}
      BY <1>1, <1>3, <3>1, Typed
    <3>3. RefusedFlatten(x)' <=> RefusedFlatten(x)
      BY <1>4, <1>5, <3>2 DEF RefusedFlatten, Refused, NothingWentOut
    <3> QED
      BY <1>6, <3>1, <3>2, <3>3
  <2> QED
    BY <1>4, <2>1 DEF ExecutedInv
<1>18. TypeInv'
  BY <1>1, TypeBegin
<1> QED
  BY <1>11, <1>12, <1>13, <1>14, <1>15, <1>16, <1>17, <1>18 DEF IInv

\* A request saves what it has written.
LEMMA SaveStep ==
  ASSUME IInv, NEW r \in Requests, CommitHalt(r) \/ SubmitExit(r) \/ Commit(r)
  PROVE  IInv'
<1>1. TypeInv /\ MeetInv /\ RaceInv /\ UnheededInv /\ FlattenInv /\ ActedInv /\ ExecutedInv
  BY DEF IInv
<1>2. Save(r) /\ UNCHANGED <<target, ask, met, lost>> /\ ColumnsInv(r) /\ WordInv(r)
  BY DEF CommitHalt, SubmitExit, Commit, roleVars, IInv
<1>3. /\ pc[r] \in {"halting", "send", "flush", "reply"} /\ r \in Open
      /\ pc[r] \in {"flush", "reply"} <=> Commit(r)
      /\ pc[r] = "halting" <=> CommitHalt(r)
      /\ pc[r] = "send" <=> SubmitExit(r)
  BY DEF CommitHalt, SubmitExit, Commit, Open
<1>4. /\ \A s \in Requests \ {r} : pc'[s] = pc[s]
      /\ pc'[r] \in {"conclude", "flatten", "ended"}
      /\ pc'[r] = "ended" <=> Commit(r)
  BY <1>1, <1>3, Typed DEF CommitHalt, SubmitExit, Commit, Count, Go
<1>5. /\ staged'[r] = NothingStaged /\ staged'[r].cols = {} /\ staged'[r].tele = {}
      /\ \A s \in Requests \ {r} : staged'[s] = staged[s]
  BY <1>1, <1>2, SavedRows DEF NothingStaged
<1>6. Open' \subseteq Open
  BY <1>3, <1>4 DEF Open
\* What is saved of a Telegram request was its maker's own, or there was something before.
<1>7. /\ \A q \in Requests : tele'[q] # tele[q] => <<q, tele'[q]>> \in staged[r].tele /\ tele'[q] \in Words
      /\ \A q \in Requests, w \in Words : <<q, w>> \in staged[r].tele =>
           <<q, tele'[q]>> \in staged[r].tele /\ tele'[q] \in Words
  <2>1. SaveTele(staged[r].tele)
    BY <1>2 DEF Save
  <2> QED
    BY <1>1, <2>1, SavedWords
<1>8. /\ \A q \in Requests : tele[q] = "absent" /\ q # r => tele'[q] = "absent"
      /\ \A q \in Requests : tele[q] # "absent" => tele'[q] # "absent"
      /\ \A q \in Requests : tele[q] \notin {"absent", "pending"} => tele'[q] \notin {"absent", "pending"}
  <2>1. \A w \in Words : w # "absent"
    BY DEF Words
  <2> QED
    BY <1>2, <1>7, <2>1 DEF WordInv
<1>9. /\ row'.kill = IF "kill on" \in staged[r].cols THEN TRUE
                     ELSE IF "kill off" \in staged[r].cols THEN FALSE ELSE row.kill
      /\ row'.auto = IF "auto on" \in staged[r].cols THEN TRUE
                     ELSE IF "auto off" \in staged[r].cols THEN FALSE ELSE row.auto
  BY <1>2 DEF Save, SaveCols
<1>10. /\ \A s \in Requests \ {r} : tally'[s] = tally[s]
       /\ Commit(r) => tally' = tally
  <2>1. CASE SubmitExit(r)
    <3>1. \E t \in Tickers, how \in Counts : Count(r, t, how)
      <4>1. PICK m \in Makers, t \in Tickers : cur[r] = <<m, t>> /\ cur[r][1] = m /\ cur[r][2] = t
        BY <1>1, <1>3, <2>1, AtHandIs
      <4>2. PICK o \in Outcomes(t) : Count(r, t, CountAs(o.status))
        BY <2>1, <4>1 DEF SubmitExit
      <4>3. CountAs(o.status) \in Counts
        BY DEF CountAs, Counts
      <4> QED
        BY <4>2, <4>3
    <3> QED
      BY <1>1, <1>3, <2>1, <3>1, CountTypes
  <2>2. CASE ~SubmitExit(r)
    BY <2>2 DEF CommitHalt, Commit
  <2> QED
    BY <2>1, <2>2
<1>11. \A q \in Requests :
         acted'[q] = acted[q] \/ (target[r] = q /\ acted'[q] = acted[q] \cup {r})
  <2>1. acted' = acted \/ CarriedOut(r)
    BY DEF CommitHalt, SubmitExit, Commit
  <2> QED
    BY <1>1, <2>1, CarriedTypes
<1>12. MeetInv'
  <2>1. ASSUME NEW s \in Requests, pc'[s] = "new"
        PROVE  s # r /\ pc[s] = "new" /\ staged'[s] = staged[s] /\ tele'[s] = tele[s]
    <3>1. s # r /\ pc[s] = "new"
      BY <1>4, <2>1
    <3> QED
      BY <1>1, <1>5, <1>8, <3>1 DEF MeetInv
  <2> QED
    BY <1>1, <1>2, <1>6, <2>1 DEF MeetInv
<1>13. \A s \in Requests : ColumnsInv(s)'
  <2>1. ASSUME NEW s \in Requests PROVE ColumnsInv(s)'
    <3>1. ColumnsInv(s)
      BY DEF IInv
    <3>2. CASE s = r
      BY <1>4, <1>5, <3>2 DEF ColumnsInv
    <3>3. CASE s # r
      BY <1>2, <1>4, <1>5, <3>1, <3>3 DEF ColumnsInv
    <3> QED
      BY <3>2, <3>3
  <2> QED
    BY <2>1
\* The races.
<1>14. RaceInv'
  <2>1. \A h, s \in Requests : Raced(h, s)' <=> Raced(h, s)
    BY <1>2 DEF Raced
  <2>2. \A s \in Requests : "auto on" \in staged[s].cols => ask[s].op = "resume" /\ s \in Open
    <3>1. ASSUME NEW s \in Requests, "auto on" \in staged[s].cols PROVE ask[s].op = "resume" /\ s \in Open
      <4>1. ColumnsInv(s)
        BY DEF IInv
      <4> QED
        BY <3>1, <4>1 DEF ColumnsInv, Open
    <3> QED
      BY <3>1
  <2>3. \A h \in Requests : pc[h] = "halting" => ask[h].op = "halt" /\ h \in Open
    <3>1. ASSUME NEW h \in Requests, pc[h] = "halting" PROVE ask[h].op = "halt" /\ h \in Open
      <4>1. ColumnsInv(h)
        BY DEF IInv
      <4> QED
        BY <3>1, <4>1 DEF ColumnsInv, Open
    <3> QED
      BY <3>1
  \* A halt and a resume that are both open race.
  <2>4. \A h, s \in Requests : pc[h] = "halting" /\ "auto on" \in staged[s].cols => Raced(h, s)
    <3>1. ASSUME NEW h \in Requests, NEW s \in Requests, pc[h] = "halting", "auto on" \in staged[s].cols
          PROVE  Raced(h, s)
      <4>1. h # s
        BY <2>2, <2>3, <3>1
      <4> QED
        BY <1>1, <2>2, <2>3, <3>1, <4>1 DEF Raced, MeetInv
    <3> QED
      BY <3>1
  <2>5. pc[r] = "halting" => "auto on" \notin staged[r].cols
    BY <2>2, <2>3
  <2>6. pc[r] # "halting" => "kill on" \notin staged[r].cols
    BY <1>2 DEF ColumnsInv
  <2>7. row'.kill /\ row'.auto => \E h, s \in Requests : Raced(h, s)
    <3>1. CASE pc[r] = "halting" /\ row'.kill /\ row'.auto
      <4>1. row.auto /\ "auto off" \notin staged[r].cols
        BY <1>9, <2>5, <3>1
      <4> QED
        BY <1>1, <3>1, <4>1 DEF RaceInv
    <3>2. CASE pc[r] # "halting" /\ row'.kill /\ row'.auto
      <4>1. row.kill /\ (row.auto \/ "auto on" \in staged[r].cols)
        BY <1>9, <2>6, <3>2
      <4> QED
        BY <1>1, <4>1 DEF RaceInv
    <3> QED
      BY <3>1, <3>2
  <2>8. ASSUME NEW h \in Requests, pc'[h] = "halting", "auto off" \notin staged'[h].cols, row'.auto
        PROVE  \E s \in Requests : Raced(h, s)
    <3>1. h # r /\ pc[h] = "halting" /\ "auto off" \notin staged[h].cols
      BY <1>4, <1>5, <2>8
    <3>2. row.auto \/ "auto on" \in staged[r].cols
      BY <1>9, <2>8
    <3> QED
      BY <1>1, <2>4, <3>1, <3>2 DEF RaceInv
  <2>9. ASSUME NEW s \in Requests, "auto on" \in staged'[s].cols, row'.kill
        PROVE  \E h \in Requests : Raced(h, s)
    <3>1. s # r /\ "auto on" \in staged[s].cols
      BY <1>5, <2>9
    <3>2. CASE pc[r] = "halting"
      BY <2>4, <3>1, <3>2
    <3>3. CASE pc[r] # "halting"
      <4>1. row.kill
        BY <1>9, <2>6, <2>9, <3>3
      <4> QED
        BY <1>1, <3>1, <4>1 DEF RaceInv
    <3> QED
      BY <3>2, <3>3
  <2> QED
    BY <2>1, <2>7, <2>8, <2>9 DEF RaceInv
<1>15. UnheededInv'
  <2>1. CASE SubmitExit(r)
    <3>1. staged[r].cols = {}
      BY <1>2, <1>3, <2>1 DEF ColumnsInv
    <3>2. row'.kill = row.kill
      BY <1>9, <3>1
    <3>3. unheeded' = IF row.kill THEN [unheeded EXCEPT ![r] = unheeded[r] + 1] ELSE unheeded
      BY <2>1 DEF SubmitExit
    <3>4. \A s \in Requests : unheeded[s] \in Nat /\ unheeded[s] <= 1
      BY <1>1, Typed DEF UnheededInv
    <3>5. row.kill => unheeded[r] = 0
      BY <1>1, <1>3, <2>1 DEF UnheededInv
    <3>6. \A s \in Requests \ {r} : unheeded'[s] = unheeded[s]
      BY <1>1, <3>3, Typed
    <3>7. unheeded'[r] <= 1
      BY <1>1, <3>3, <3>4, <3>5, Typed
    <3> QED
      BY <1>1, <1>4, <3>2, <3>4, <3>6, <3>7 DEF UnheededInv
  <2>2. CASE CommitHalt(r) \/ Commit(r)
    <3>1. unheeded' = IF row'.kill /\ ~row.kill THEN [s \in Requests |-> 0] ELSE unheeded
      BY <2>2 DEF CommitHalt, Commit, HaltedAnew
    <3> QED
      BY <1>1, <1>4, <3>1 DEF UnheededInv
  <2> QED
    BY <2>1, <2>2
<1>16. FlattenInv'
  <2>1. CASE SubmitExit(r)
    <3>1. PICK m \in Makers, t \in Tickers : cur[r] = <<m, t>> /\ cur[r][1] = m /\ cur[r][2] = t
      BY <1>1, <1>3, <2>1, AtHandIs
    <3>2. PICK o \in Outcomes(t) : /\ order' = [order EXCEPT ![m][t] = o.status]
                                   /\ taken' = IF o.took THEN taken \cup {<<m, t>>} ELSE taken
                                   /\ Count(r, t, CountAs(o.status))
      BY <2>1, <3>1 DEF SubmitExit
    <3>3. o.status \in {"error", "unknown", "working"} /\ (o.status = "working" => o.took)
      BY DEF Outcomes
    <3>4. o.status \in OrderStatuses /\ CountAs(o.status) \in Counts
      BY <3>3 DEF OrderStatuses, Working, Final, CountAs, Counts
    <3>5. \A n \in Makers, u \in Tickers : order'[n][u] = IF n = m /\ u = t THEN o.status ELSE order[n][u]
      BY <1>1, <3>2, <3>4, OrderWritten
    <3>6. /\ \A s \in Requests \ {r} : tally'[s] = tally[s] /\ todo'[s] = todo[s]
          /\ todo'[r] = todo[r] \ {t} /\ pc'[r] = "flatten"
          /\ \A u \in Tickers : tally'[r][u] = IF u = t THEN CountAs(o.status) ELSE tally[r][u]
      BY <1>1, <3>2, <3>4, CountTypes
    <3>7. taken \subseteq taken' /\ (o.took => <<m, t>> \in taken')
      BY <3>2
    <3>8. CountAs(o.status) \notin {"unread", "already open"} /\ (CountAs(o.status) = "flattened" => o.took)
      BY <3>3 DEF CountAs
    <3>9. /\ \A u \in Tickers : order'[Other][u] # "cancelled"
          /\ \A n \in Makers, u \in Tickers : order'[n][u] = "working" => <<n, u>> \in taken'
      BY <1>1, <3>3, <3>5, <3>7 DEF FlattenInv, Makers
    <3>10. ASSUME NEW s \in Requests, NEW u \in Tickers
           PROVE  /\ tally'[s][u] = "unread" => s \in lost' \/ (u \in todo'[s] /\ Closing(s)')
                  /\ tally'[s][u] \in {"flattened", "already open"} => \E n \in Makers : <<n, u>> \in taken'
      <4>1. /\ tally[s][u] = "unread" => s \in lost \/ (u \in todo[s] /\ Closing(s))
            /\ tally[s][u] \in {"flattened", "already open"} => \E n \in Makers : <<n, u>> \in taken
        BY <1>1 DEF FlattenInv
      <4>2. CASE s = r
        BY <1>2, <3>6, <3>7, <3>8, <4>1, <4>2 DEF Closing
      <4>3. CASE s # r
        BY <1>2, <1>4, <3>6, <3>7, <4>1, <4>3 DEF Closing
      <4> QED
        BY <4>2, <4>3
    <3>11. \A s \in Requests : Closing(s)' => ask'[s].op = "flatten"
      BY <1>1, <1>2, <1>3, <1>4, <2>1 DEF FlattenInv, Closing
    <3> QED
      BY <3>9, <3>10, <3>11 DEF FlattenInv
  <2>2. CASE CommitHalt(r) \/ Commit(r)
    <3>1. UNCHANGED <<order, taken, tally, todo, lost>>
      BY <2>2 DEF CommitHalt, Commit
    <3>2. ~Closing(r) /\ ~Closing(r)'
      <4>1. pc[r] \in {"halting", "flush", "reply"}
        BY <1>3, <2>2
      <4>2. pc'[r] \in {"conclude", "ended"}
        BY <1>1, <2>2, Typed DEF CommitHalt, Commit, Go
      <4> QED
        BY <4>1, <4>2 DEF Closing
    <3> QED
      BY <1>1, <1>2, <1>4, <3>1, <3>2, FlattenUntouched
  <2> QED
    BY <2>1, <2>2
\* Telegram.
<1>17. \A s \in Requests \ {r} : RefusedFlatten(s)' <=> RefusedFlatten(s)
  BY <1>2, <1>10 DEF RefusedFlatten, Refused, NothingWentOut
<1>18. \A s \in Requests : WordInv(s)'
  <2>1. WordInv(r)'
    BY <1>5 DEF WordInv
  <2>2. ASSUME NEW s \in Requests \ {r} PROVE WordInv(s)'
    <3>1. WordInv(s)
      BY DEF IInv
    <3> QED
      BY <1>2, <1>4, <1>5, <1>8, <1>17, <3>1 DEF WordInv
  <2> QED
    BY <2>1, <2>2
<1>19. ActedInv'
  <2>1. ASSUME NEW q \in Requests, NEW x \in acted'[q] PROVE Marked(q, x)' /\ Beside(q, x)'
    <3>1. \A s \in acted[q] : s \in Requests /\ Marked(q, s) /\ Beside(q, s)
      BY <1>1, Typed DEF ActedInv
    <3>2. \A s \in acted'[q] : s \in acted[q] \/ s = r
      BY <1>11
    <3>3. r \in acted'[q] => target[r] = q
      BY <1>11, <3>1 DEF Marked
    <3>4. CASE x # r
      <4>1. x \in acted[q] /\ x \in Requests /\ Marked(q, x) /\ Beside(q, x)
        BY <2>1, <3>1, <3>2, <3>4
      <4>2. Marked(q, x)'
        BY <1>2, <1>4, <1>5, <1>8, <3>4, <4>1 DEF Marked
      <4>3. Beside(q, x)'
        <5>1. \A s \in Requests \ {x} : target'[s] = q /\ s \in Open' => s \in met'[x] \/ x \in lost'
          BY <1>2, <1>6, <4>1 DEF Beside
        <5>2. ASSUME NEW s \in acted'[q] PROVE x = s \/ s \in met'[x] \/ {x, s} \cap lost' # {}
          <6>1. CASE s \in acted[q]
            BY <1>2, <4>1, <6>1 DEF Beside
          <6>2. CASE s = r
            BY <1>2, <1>3, <3>3, <3>4, <4>1, <5>2, <6>2 DEF Beside
          <6> QED
            BY <3>2, <6>1, <6>2
        <5> QED
          BY <5>1, <5>2 DEF Beside
      <4> QED
        BY <4>2, <4>3
    <3>5. CASE x = r
      <4>1. target[r] = q
        BY <2>1, <3>3, <3>5
      <4>2. Marked(q, r)'
        <5>1. ASSUME pc'[r] = "ended" PROVE tele'[q] \notin {"absent", "pending"}
          <6>1. Commit(r)
            BY <1>4, <5>1
          <6>2. \E w \in Words : <<q, w>> \in staged[r].tele
            <7>1. CASE <<q, "executed">> \in staged[r].tele
              BY <7>1 DEF Words
            <7>2. CASE <<q, "executed">> \notin staged[r].tele
              <8>1. acted' = acted
                BY <4>1, <6>1, <7>2 DEF Commit
              <8> QED
                BY <1>3, <2>1, <3>1, <3>5, <6>1, <8>1 DEF Marked
            <7> QED
              BY <7>1, <7>2
          <6>3. <<q, tele'[q]>> \in staged[r].tele /\ tele'[q] \in Words
            BY <1>7, <6>2
          <6>4. tele[q] # "absent"
            BY <1>1, <4>1, TypeParts, OtherIsNoRequest DEF Targets
          <6>5. tele'[q] # "pending"
            BY <1>2, <6>3, <6>4 DEF WordInv
          <6> QED
            BY <6>3, <6>5 DEF Words
        <5> QED
          BY <1>2, <1>4, <4>1, <5>1 DEF Marked
      <4>3. Beside(q, r)'
        <5>1. \A s \in Open \ {r} : s \in met[r]
          BY <1>1, <1>3 DEF MeetInv
        <5>2. \A s \in Requests \ {r} : target'[s] = q /\ s \in Open' => s \in met'[r] \/ r \in lost'
          BY <1>2, <1>6, <5>1
        <5>3. ASSUME NEW s \in acted'[q] PROVE r = s \/ s \in met'[r] \/ {r, s} \cap lost' # {}
          <6>1. CASE s = r
            BY <6>1
          <6>2. CASE s # r
            <7>1. s \in acted[q] /\ s \in Requests /\ Beside(q, s)
              BY <3>1, <3>2, <5>3, <6>2
            <7>2. r \in met[s] \/ s \in lost
              BY <1>3, <4>1, <6>2, <7>1 DEF Beside
            <7>3. r \in met[s] => s \in met[r]
              BY <1>1, <7>1 DEF MeetInv
            <7> QED
              BY <1>2, <7>2, <7>3
          <6> QED
            BY <6>1, <6>2
        <5> QED
          BY <5>2, <5>3 DEF Beside
      <4> QED
        BY <3>5, <4>2, <4>3
    <3> QED
      BY <3>4, <3>5
  <2> QED
    BY <2>1 DEF ActedInv
<1>20. ExecutedInv'
  <2>1. ASSUME NEW q \in Requests, tele'[q] = "executed"
        PROVE  \E x \in acted'[q] : pc'[x] = "ended" /\ ~RefusedFlatten(x)'
    <3>1. CASE tele[q] = "executed"
      <4>1. PICK x \in acted[q] : pc[x] = "ended" /\ ~RefusedFlatten(x)
        BY <1>1, <3>1 DEF ExecutedInv
      <4>2. x \in Requests \ {r}
        BY <1>1, <1>3, <4>1, Typed
      <4>3. x \in acted'[q]
        BY <1>11
      <4> QED
        BY <1>4, <1>17, <4>1, <4>2, <4>3
    <3>2. CASE tele[q] # "executed"
      <4>1. <<q, "executed">> \in staged[r].tele
        BY <1>7, <2>1, <3>2
      <4>2. target[r] = q /\ pc[r] \in {"flush", "reply"} /\ ~RefusedFlatten(r)
        BY <1>2, <4>1 DEF WordInv
      <4>3. Commit(r) /\ CarriedOut(r)
        BY <1>3, <4>1, <4>2 DEF Commit
      <4>4. r \in acted'[q]
        BY <1>1, <4>2, <4>3, CarriedTypes
      <4>5. RefusedFlatten(r)' <=> RefusedFlatten(r)
        BY <1>2, <1>10, <4>3 DEF RefusedFlatten, Refused, NothingWentOut
      <4> QED
        BY <1>4, <4>2, <4>3, <4>4, <4>5
    <3> QED
      BY <3>1, <3>2
  <2> QED
    BY <2>1 DEF ExecutedInv
<1>21. TypeInv'
  BY <1>1, TypeSave
<1> QED
  BY <1>12, <1>13, <1>14, <1>15, <1>16, <1>18, <1>19, <1>20, <1>21 DEF IInv

\* A request fails, or the process starts again.
LEMMA LoseStep ==
  ASSUME IInv, Restart \/ \E r \in Requests : Fails(r)
  PROVE  IInv'
<1>1. TypeInv /\ MeetInv /\ RaceInv /\ UnheededInv /\ FlattenInv /\ ActedInv /\ ExecutedInv
  BY DEF IInv
<1>2. PICK S \in SUBSET Open : Lose(S)
  BY DEF Restart, Fails, Open
<1>3. UNCHANGED <<row, tele, target, acted, ask, met, todo, tally, order, taken, unheeded>>
  BY DEF Restart, Fails, teleVars, roleVars
<1>4. /\ lost' = lost \cup S
      /\ \A s \in Requests : IF s \in S THEN pc'[s] = "ended" /\ staged'[s].cols = {} /\ staged'[s].tele = {}
                             ELSE pc'[s] = pc[s] /\ staged'[s] = staged[s]
  BY <1>2 DEF Lose, NothingStaged
<1>5. Open' \subseteq Open
  BY <1>4 DEF Open
<1>6. MeetInv'
  BY <1>1, <1>3, <1>4, <1>5 DEF MeetInv
<1>7. \A s \in Requests : ColumnsInv(s)'
  <2>1. ASSUME NEW s \in Requests PROVE ColumnsInv(s)'
    <3>1. ColumnsInv(s)
      BY DEF IInv
    <3> QED
      BY <1>3, <1>4, <3>1 DEF ColumnsInv
  <2> QED
    BY <2>1
<1>8. RaceInv'
  <2>1. \A h, s \in Requests : Raced(h, s)' <=> Raced(h, s)
    BY <1>3 DEF Raced
  <2>2. \A s \in Requests : staged'[s].cols # {} => staged'[s] = staged[s]
    BY <1>4
  <2>3. \A s \in Requests : pc'[s] = "halting" => pc[s] = "halting" /\ staged'[s] = staged[s]
    BY <1>4
  <2> QED
    BY <1>1, <1>3, <2>1, <2>2, <2>3 DEF RaceInv
<1>9. UnheededInv'
  BY <1>1, <1>3, <1>4 DEF UnheededInv
<1>10. FlattenInv'
  <2>1. \A s \in Requests : (Closing(s)' => Closing(s)) /\ (Closing(s) => Closing(s)' \/ s \in lost')
    BY <1>4 DEF Closing
  <2>2. /\ \A t \in Tickers : order'[Other][t] # "cancelled"
        /\ \A m \in Makers, t \in Tickers : order'[m][t] = "working" => <<m, t>> \in taken'
    BY <1>1, <1>3 DEF FlattenInv
  <2>3. ASSUME NEW s \in Requests, NEW t \in Tickers
        PROVE  /\ tally'[s][t] = "unread" => s \in lost' \/ (t \in todo'[s] /\ Closing(s)')
               /\ tally'[s][t] \in {"flattened", "already open"} => \E m \in Makers : <<m, t>> \in taken'
    BY <1>1, <1>3, <1>4, <2>1 DEF FlattenInv
  <2>4. \A s \in Requests : Closing(s)' => ask'[s].op = "flatten"
    BY <1>1, <1>3, <2>1 DEF FlattenInv
  <2> QED
    BY <2>2, <2>3, <2>4 DEF FlattenInv
<1>11. \A s \in Requests : RefusedFlatten(s)' <=> RefusedFlatten(s)
  BY <1>3 DEF RefusedFlatten, Refused, NothingWentOut
<1>12. \A s \in Requests : WordInv(s)'
  <2>1. ASSUME NEW s \in Requests PROVE WordInv(s)'
    <3>1. WordInv(s)
      BY DEF IInv
    <3> QED
      BY <1>3, <1>4, <1>11, <3>1 DEF WordInv
  <2> QED
    BY <2>1
<1>13. ActedInv'
  <2>1. ASSUME NEW q \in Requests, NEW x \in acted[q] PROVE Marked(q, x)' /\ Beside(q, x)'
    <3>1. x \in Requests /\ Marked(q, x) /\ Beside(q, x)
      BY <1>1, Typed DEF ActedInv
    <3>2. Marked(q, x)'
      BY <1>3, <1>4, <3>1 DEF Marked
    <3>3. Beside(q, x)'
      BY <1>3, <1>4, <1>5, <3>1 DEF Beside
    <3> QED
      BY <3>2, <3>3
  <2> QED
    BY <1>3, <2>1 DEF ActedInv
<1>14. ExecutedInv'
  <2>1. ASSUME NEW q \in Requests, tele[q] = "executed"
        PROVE  \E x \in acted[q] : pc'[x] = "ended" /\ ~RefusedFlatten(x)'
    <3>1. PICK x \in acted[q] : pc[x] = "ended" /\ ~RefusedFlatten(x)
      BY <1>1, <2>1 DEF ExecutedInv
    <3>2. x \in Requests
      BY <1>1, Typed
    <3> QED
      BY <1>4, <1>11, <3>1, <3>2
  <2> QED
    BY <1>3, <2>1 DEF ExecutedInv
<1>15. TypeInv'
  BY <1>1, TypeLose
<1> QED
  BY <1>6, <1>7, <1>8, <1>9, <1>10, <1>12, <1>13, <1>14, <1>15 DEF IInv

\* What a session holds when it has nothing to report yet.
LEMMA NothingToReport ==
  ASSUME IInv, NEW r \in Requests, pc[r] \in {"act", "conclude", "flatten", "check", "send"}
  PROVE  /\ staged[r].cols = {} /\ r \in Open
         /\ \A q \in Requests : <<q, "executed">> \notin staged[r].tele
  BY DEF IInv, ColumnsInv, WordInv, Open

\* A control ends its own work: it stages its columns and its word, and goes on to the flush.
LEMMA ConcludeStep ==
  ASSUME IInv, TypeInv', NEW r \in Requests, NEW cols \in SUBSET Columns, NEW status \in {"executed", "cancelled"},
         pc[r] \in {"act", "conclude", "flatten"}, pc[r] = "flatten" => todo[r] = {},
         "kill on" \notin cols, "auto on" \in cols => ask[r].op = "resume" /\ ~row.kill,
         status = "executed" => ~RefusedFlatten(r),
         Conclude(r, cols, status) \/ (pc[r] = "act" /\ Stage(r, cols, {}) /\ Go(r, "flush")),
         UNCHANGED <<Loose, teleVars, roleVars>>
  PROVE  IInv'
<1>1. TypeInv /\ FlattenInv /\ ActedInv /\ WordInv(r)
  BY DEF IInv
<1>2. UNCHANGED <<row, tele, target, acted, ask, met, lost, unheeded, order, taken, tally, todo>>
  BY DEF Loose, teleVars, roleVars, exitVars
<1>3. /\ staged[r].cols = {} /\ r \in Open
      /\ \A q \in Requests : <<q, "executed">> \notin staged[r].tele
  BY NothingToReport
<1>4. pc'[r] = "flush" /\ \A s \in Requests \ {r} : pc'[s] = pc[s]
  BY <1>1, Typed DEF Conclude, Go
<1>5. PICK statuses \in SUBSET (Requests \X Words) :
        /\ Stage(r, cols, statuses)
        /\ pc[r] # "act" => \A q \in Requests : target[r] = q => <<q, status>> \in statuses
        /\ \A q \in Requests, w \in Words : <<q, w>> \in statuses => w = status /\ target[r] = q
  <2>1. CASE pc[r] = "act" /\ Stage(r, cols, {})
    <3>1. {} \in SUBSET (Requests \X Words)
      OBVIOUS
    <3> QED
      BY <2>1, <3>1
  <2>2. CASE Conclude(r, cols, status) /\ target[r] = None
    <3>1. {} \in SUBSET (Requests \X Words) /\ Stage(r, cols, {})
      BY <2>2 DEF Conclude
    <3> QED
      BY <2>2, <3>1, OtherIsNoRequest
  <2>3. CASE Conclude(r, cols, status) /\ target[r] # None
    <3>1. target[r] \in Requests /\ status \in Words
      BY <1>1, <2>3, Typed DEF Words
    <3>2. {<<target[r], status>>} \in SUBSET (Requests \X Words)
      <4>1. <<target[r], status>> \in Requests \X Words
        BY <3>1
      <4> QED
        BY <4>1
    <3>3. Stage(r, cols, {<<target[r], status>>})
      BY <2>3 DEF Conclude
    <3>4. \A q \in Requests, w \in Words : <<q, w>> \in {<<target[r], status>>} <=> w = status /\ target[r] = q
      BY <3>1
    <3> QED
      BY <3>1, <3>2, <3>3, <3>4
  <2> QED
    BY <2>1, <2>2, <2>3
<1>6. /\ staged'[r].cols = staged[r].cols \cup cols /\ staged'[r].tele = staged[r].tele \cup statuses
      /\ \A s \in Requests \ {r} : staged'[s] = staged[s]
  BY <1>1, <1>5, StagedWords
<1>7. staged'[r].cols = cols
  BY <1>3, <1>6
<1>8. ColumnsInv(r)'
  BY <1>2, <1>4, <1>7 DEF ColumnsInv
<1>9. WordInv(r)'
  <2>1. RefusedFlatten(r)' <=> RefusedFlatten(r)
    BY <1>2 DEF RefusedFlatten, Refused, NothingWentOut
  <2>2. target[r] # None => tele[target[r]] # "absent"
    BY <1>1, TypeParts DEF Targets
  <2>3. \A q \in Requests, w \in Words :
          <<q, w>> \in statuses => w = status /\ target[r] = q /\ tele[q] # "absent"
    BY <1>5, <2>2, OtherIsNoRequest
  <2>4. "pending" \in Words /\ "executed" \in Words
    BY DEF Words
  <2>5. ASSUME NEW q \in Requests
        PROVE  /\ <<q, "pending">> \in staged'[r].tele => q = r /\ tele'[r] = "absent"
               /\ \A w \in Words \ {"pending"} : <<q, w>> \in staged'[r].tele => tele'[q] # "absent"
               /\ <<q, "executed">> \in staged'[r].tele =>
                    target'[r] = q /\ pc'[r] \in {"flush", "reply"} /\ ~RefusedFlatten(r)'
    <3>1. <<q, "pending">> \notin statuses
      BY <2>3, <2>4
    <3>2. <<q, "pending">> \in staged'[r].tele => q = r /\ tele'[r] = "absent"
      BY <1>1, <1>2, <1>6, <3>1 DEF WordInv
    <3>3. \A w \in Words \ {"pending"} : <<q, w>> \in staged'[r].tele => tele'[q] # "absent"
      BY <1>1, <1>2, <1>6, <2>3 DEF WordInv
    <3>4. <<q, "executed">> \in staged'[r].tele =>
                    target'[r] = q /\ pc'[r] \in {"flush", "reply"} /\ ~RefusedFlatten(r)'
      BY <1>2, <1>3, <1>4, <1>6, <2>1, <2>3, <2>4
    <3> QED
      BY <3>2, <3>3, <3>4
  <2> QED
    BY <2>5 DEF WordInv
<1>10. FlattenInv'
  <2>1. Closing(r) => todo[r] = {}
    BY DEF Closing
  <2>2. ~Closing(r)'
    BY <1>4 DEF Closing
  <2> QED
    BY <1>1, <1>2, <1>4, <2>1, <2>2, FlattenUntouched
<1>11. \A q \in Requests : r \in acted[q] => \E w \in Words : <<q, w>> \in staged'[r].tele
  <2>1. ASSUME NEW q \in Requests, r \in acted[q] PROVE <<q, status>> \in staged'[r].tele
    <3>1. target[r] = q /\ pc[r] # "act"
      BY <1>1, <2>1 DEF ActedInv, Marked
    <3> QED
      BY <1>5, <1>6, <2>1, <3>1
  <2> QED
    BY <2>1 DEF Words
<1> QED
  BY <1>2, <1>3, <1>4, <1>6, <1>7, <1>8, <1>9, <1>10, <1>11, QuietStep

\* The switches, and the end of a flatten.
LEMMA SwitchStep ==
  ASSUME IInv, NEW r \in Requests,
         PauseAutoTrading(r) \/ ResumeAutoTrading(r) \/ ConcludeHalt(r) \/ DeactivateKillSwitch(r) \/ Flattened(r)
  PROVE  IInv'
<1>1. TypeInv'
  BY TypeSwitch DEF IInv
<1>2. pc[r] = "act" => ~Closing(r)
  BY DEF Closing
<1>3. CASE PauseAutoTrading(r)
  <2>1. PICK cols \in {{}, {"auto off"}} : Conclude(r, cols, "executed")
    BY <1>3 DEF PauseAutoTrading
  <2> QED
    BY <1>1, <1>3, <2>1, ConcludeStep DEF PauseAutoTrading, RefusedFlatten, Columns
<1>4. CASE ResumeAutoTrading(r)
  <2>1. PICK cols \in {{}, {"auto on"}}, status \in {"executed", "cancelled"} :
          Conclude(r, cols, status) /\ ("auto on" \in cols => ~row.kill)
    BY <1>4 DEF ResumeAutoTrading
  <2> QED
    BY <1>1, <1>4, <2>1, ConcludeStep DEF ResumeAutoTrading, RefusedFlatten, Columns
<1>5. CASE ConcludeHalt(r)
  <2>1. {} \in SUBSET Columns
    OBVIOUS
  <2> QED
    BY <1>1, <1>5, <2>1, ConcludeStep DEF ConcludeHalt, RefusedFlatten
<1>6. CASE DeactivateKillSwitch(r)
  <2>1. PICK cols \in {{}, {"kill off"}} : Stage(r, cols, {})
    BY <1>6 DEF DeactivateKillSwitch
  <2>2. "cancelled" \in {"executed", "cancelled"} /\ cols \in SUBSET Columns /\ "cancelled" # "executed"
    BY DEF Columns
  <2> QED
    BY <1>1, <1>6, <2>1, <2>2, ConcludeStep DEF DeactivateKillSwitch
<1>7. CASE Flattened(r)
  <2>1. PICK status \in {"executed", "cancelled"} :
          Conclude(r, {}, status) /\ (status = "executed" => ~(Refused(r) /\ NothingWentOut(r)))
    BY <1>7 DEF Flattened
  <2>2. {} \in SUBSET Columns
    OBVIOUS
  <2> QED
    BY <1>1, <1>7, <2>1, <2>2, ConcludeStep DEF Flattened, RefusedFlatten
<1> QED
  BY <1>3, <1>4, <1>5, <1>6, <1>7

\* What a step leaves of the words when the session stages none.
LEMMA WordsUnstaged ==
  ASSUME IInv, NEW r \in Requests, UNCHANGED <<tele, target, ask>>, staged'[r].tele = staged[r].tele,
         pc[r] \in {"flush", "reply"} => pc'[r] \in {"flush", "reply"} /\ tally'[r] = tally[r]
  PROVE  WordInv(r)'
<1>1. WordInv(r)
  BY DEF IInv
<1>2. pc[r] \in {"flush", "reply"} => (RefusedFlatten(r)' <=> RefusedFlatten(r))
  BY DEF RefusedFlatten, Refused, NothingWentOut
<1> QED
  BY <1>1, <1>2 DEF WordInv

LEMMA ReadForHaltStep ==
  ASSUME IInv, NEW r \in Requests, ReadForHalt(r)
  PROVE  IInv'
<1>1. TypeInv /\ TypeInv' /\ FlattenInv /\ ActedInv
  BY TypeSwitch DEF IInv
<1>2. UNCHANGED <<row, tele, target, acted, ask, met, lost, unheeded, order, taken, tally, todo>>
  BY DEF ReadForHalt, Loose, teleVars, roleVars, exitVars
<1>3. pc[r] = "act" /\ ask[r].op = "halt"
  BY DEF ReadForHalt
<1>4. staged[r].cols = {} /\ r \in Open
  BY <1>3, NothingToReport
<1>5. pc'[r] = "halting" /\ \A s \in Requests \ {r} : pc'[s] = pc[s]
  BY <1>1, Typed DEF ReadForHalt, Go
<1>6. /\ staged'[r].tele = staged[r].tele /\ \A s \in Requests \ {r} : staged'[s] = staged[s]
      /\ staged'[r].cols \subseteq {"kill on", "auto off"}
      /\ row.auto => "auto off" \in staged'[r].cols
  <2>1. PICK cols : /\ cols = (IF row.kill THEN {} ELSE {"kill on"}) \cup (IF row.auto THEN {"auto off"} ELSE {})
                    /\ Stage(r, cols, {})
    BY DEF ReadForHalt
  <2>2. cols \in SUBSET Columns
    BY <2>1 DEF Columns
  <2>3. /\ staged'[r].cols = staged[r].cols \cup cols /\ staged'[r].tele = staged[r].tele \cup {}
        /\ \A s \in Requests \ {r} : staged'[s] = staged[s]
    <3>1. Stage(r, cols, {}) /\ {} \in SUBSET (Requests \X Words)
      BY <2>1
    <3> QED
      BY <1>1, <2>2, <3>1, StagedWords
  <2>4. staged'[r].cols = cols /\ staged'[r].tele = staged[r].tele
    BY <1>4, <2>3
  <2> QED
    BY <2>1, <2>3, <2>4
<1>7. ColumnsInv(r)'
  BY <1>2, <1>3, <1>5, <1>6 DEF ColumnsInv
<1>8. WordInv(r)'
  BY <1>2, <1>3, <1>6, WordsUnstaged
<1>9. FlattenInv'
  <2>1. ~Closing(r) /\ ~Closing(r)'
    BY <1>3, <1>5 DEF Closing
  <2> QED
    BY <1>1, <1>2, <1>5, <2>1, FlattenUntouched
<1> QED
  BY <1>1, <1>2, <1>3, <1>4, <1>5, <1>6, <1>7, <1>8, <1>9, QuietStep

LEMMA FlushStep ==
  ASSUME IInv, NEW r \in Requests, Flush(r)
  PROVE  IInv'
<1>1. TypeInv /\ TypeInv' /\ FlattenInv /\ ActedInv /\ ColumnsInv(r)
  BY TypeSwitch DEF IInv
<1>2. UNCHANGED <<row, tele, target, acted, ask, met, lost, unheeded, order, taken, tally, todo, staged>>
  BY DEF Flush, teleVars, roleVars, exitVars
<1>3. pc[r] = "flush" /\ r \in Open /\ pc'[r] = "reply" /\ \A s \in Requests \ {r} : pc'[s] = pc[s]
  BY <1>1, Typed DEF Flush, Go, Open
<1>4. ColumnsInv(r)'
  BY <1>1, <1>2, <1>3 DEF ColumnsInv
<1>5. WordInv(r)'
  BY <1>2, <1>3, WordsUnstaged
<1>6. FlattenInv'
  <2>1. ~Closing(r) /\ ~Closing(r)'
    BY <1>3 DEF Closing
  <2> QED
    BY <1>1, <1>2, <1>3, <2>1, FlattenUntouched
<1>7. \A q \in Requests : r \in acted[q] => \E w \in Words : <<q, w>> \in staged'[r].tele
  BY <1>1, <1>2, <1>3 DEF ActedInv, Marked
<1> QED
  BY <1>1, <1>2, <1>3, <1>4, <1>5, <1>6, <1>7, QuietStep

\* A flatten reads the positions, takes up or makes an exit, and asks at the last gate.
LEMMA ExitStep ==
  ASSUME IInv, NEW r \in Requests,
         \/ ReadPositions(r) \/ SubmissionAllowed(r) \/ SubmissionRefused(r)
         \/ \E t \in Tickers : FindStanding(r, t) \/ CreateIntent(r, t)
  PROVE  IInv'
<1>1. TypeInv /\ FlattenInv /\ ActedInv /\ ColumnsInv(r)
  BY DEF IInv
<1>2. TypeInv'
  BY <1>1, TypeExit, TypeSwitch
<1>3. UNCHANGED <<row, tele, target, acted, ask, met, lost, unheeded, staged, taken>>
  BY DEF ReadPositions, SubmissionAllowed, SubmissionRefused, FindStanding, CreateIntent, Loose, exitVars, teleVars, roleVars
<1>4. /\ pc[r] \in {"act", "flatten", "check"} /\ ask[r].op = "flatten" /\ r \in Open
      /\ pc'[r] \in {"flatten", "check", "send"} /\ \A s \in Requests \ {r} : pc'[s] = pc[s]
      /\ pc'[r] = "send" => ~row.kill
  <2>1. pc[r] \in {"act", "flatten", "check"} /\ ask[r].op = "flatten" /\ r \in Open
    BY <1>1 DEF ReadPositions, SubmissionAllowed, SubmissionRefused, FindStanding, CreateIntent, FlattenInv, Closing, Open
  <2>2. Go(r, "flatten") \/ Go(r, "check") \/ (Go(r, "send") /\ ~row.kill)
    BY DEF ReadPositions, SubmissionAllowed, SubmissionRefused, FindStanding, CreateIntent, Count
  <2> QED
    BY <1>1, <2>1, <2>2, Typed DEF Go
<1>5. ColumnsInv(r)'
  BY <1>1, <1>3, <1>4 DEF ColumnsInv
<1>6. WordInv(r)'
  BY <1>3, <1>4, WordsUnstaged
<1>7. Closing(r)'
  BY <1>4 DEF Closing
\* What the step makes of the positions it has read.
<1>8. /\ \A s \in Requests \ {r} : tally'[s] = tally[s] /\ todo'[s] = todo[s]
      /\ \A t \in Tickers :
           /\ tally'[r][t] = "unread" => r \in lost \/ t \in todo'[r]
           /\ tally'[r][t] \in {"flattened", "already open"} => \E m \in Makers : <<m, t>> \in taken
  <2>1. \A t \in Tickers :
          /\ tally[r][t] = "unread" => r \in lost \/ t \in todo[r]
          /\ tally[r][t] \in {"flattened", "already open"} => \E m \in Makers : <<m, t>> \in taken
    BY <1>1 DEF FlattenInv
  <2>2. CASE ReadPositions(r)
    <3>1. /\ todo' = [todo EXCEPT ![r] = {t \in Tickers : pos[t] = "open"}]
          /\ tally' = [tally EXCEPT ![r] = [t \in Tickers |-> IF pos[t] = "open" THEN "unread" ELSE "none"]]
      BY <2>2 DEF ReadPositions
    <3>2. /\ todo'[r] = {t \in Tickers : pos[t] = "open"}
          /\ \A t \in Tickers : tally'[r][t] = IF pos[t] = "open" THEN "unread" ELSE "none"
          /\ \A s \in Requests \ {r} : tally'[s] = tally[s] /\ todo'[s] = todo[s]
      BY <1>1, <3>1, Typed
    <3> QED
      BY <3>2
  <2>3. CASE SubmissionRefused(r)
    <3>1. /\ todo' = [todo EXCEPT ![r] = {}]
          /\ tally' = [tally EXCEPT ![r] = [t \in Tickers |-> IF t \in todo[r] THEN "left open" ELSE tally[r][t]]]
      BY <2>3 DEF SubmissionRefused
    <3>2. /\ \A t \in Tickers : tally'[r][t] = IF t \in todo[r] THEN "left open" ELSE tally[r][t]
          /\ \A s \in Requests \ {r} : tally'[s] = tally[s] /\ todo'[s] = todo[s]
      BY <1>1, <3>1, Typed
    <3> QED
      BY <2>1, <3>2
  <2>4. ASSUME NEW t \in Tickers, FindStanding(r, t)
        PROVE  /\ \A s \in Requests \ {r} : tally'[s] = tally[s] /\ todo'[s] = todo[s]
               /\ \A u \in Tickers :
                    /\ tally'[r][u] = "unread" => r \in lost \/ u \in todo'[r]
                    /\ tally'[r][u] \in {"flattened", "already open"} => \E m \in Makers : <<m, u>> \in taken
    <3>1. PICK m \in Makers :
            /\ order[m][t] \in {"pending"} \cup Working
            /\ IF order[m][t] = "pending" THEN UNCHANGED <<todo, tally>>
               ELSE Count(r, t, IF order[m][t] = "unknown" THEN "unconfirmed" ELSE "already open")
      BY <2>4 DEF FindStanding
    <3>2. CASE order[m][t] = "pending"
      BY <2>1, <3>1, <3>2
    <3>3. CASE order[m][t] # "pending"
      <4> DEFINE seen == IF order[m][t] = "unknown" THEN "unconfirmed" ELSE "already open"
      <4>1. Count(r, t, seen)
        BY <3>1, <3>3
      <4>2. /\ seen \notin {"unread", "flattened"}
            /\ seen = "already open" => <<m, t>> \in taken
        BY <1>1, <3>1, <3>3 DEF FlattenInv, Working
      <4>3. seen \in Counts
        BY DEF Counts
      <4> HIDE DEF seen
      <4>4. /\ \A s \in Requests \ {r} : tally'[s] = tally[s] /\ todo'[s] = todo[s]
            /\ todo'[r] = todo[r] \ {t}
            /\ \A u \in Tickers : tally'[r][u] = IF u = t THEN seen ELSE tally[r][u]
        BY <1>1, <4>1, <4>3, CountTypes
      <4> QED
        BY <2>1, <4>2, <4>4
    <3> QED
      BY <3>2, <3>3
  <2>5. CASE SubmissionAllowed(r) \/ \E t \in Tickers : CreateIntent(r, t)
    BY <2>1, <2>5 DEF SubmissionAllowed, CreateIntent, Loose, exitVars
  <2> QED
    BY <2>2, <2>3, <2>4, <2>5
<1>9. /\ \A t \in Tickers : order'[Other][t] # "cancelled"
      /\ \A m \in Makers, t \in Tickers : order'[m][t] = "working" => <<m, t>> \in taken
  <2>1. CASE SubmissionRefused(r)
    <3>1. PICK m \in Makers, t \in Tickers : cur[r] = <<m, t>> /\ cur[r][1] = m /\ cur[r][2] = t
      BY <1>1, <2>1, AtHandIs DEF SubmissionRefused
    <3>2. order' = order \/ order' = [order EXCEPT ![r][t] = "cancelled"]
      BY <2>1, <3>1 DEF SubmissionRefused
    <3>3. r \in Makers /\ r # Other /\ Other \in Makers /\ "cancelled" \in OrderStatuses
      BY OtherIsNoRequest DEF Makers, OrderStatuses, Final
    <3>4. \A n \in Makers, u \in Tickers :
            order'[n][u] = order[n][u] \/ (n = r /\ order'[n][u] = "cancelled")
      BY <1>1, <3>2, <3>3, OrderWritten
    <3> QED
      BY <1>1, <3>3, <3>4 DEF FlattenInv
  <2>2. CASE ~SubmissionRefused(r)
    <3>1. order' = order
      BY <2>2 DEF ReadPositions, SubmissionAllowed, FindStanding, CreateIntent, Loose, exitVars
    <3> QED
      BY <1>1, <3>1 DEF FlattenInv
  <2> QED
    BY <2>1, <2>2
<1>10. FlattenInv'
  <2>1. ASSUME NEW s \in Requests, NEW t \in Tickers
        PROVE  /\ tally'[s][t] = "unread" => s \in lost' \/ (t \in todo'[s] /\ Closing(s)')
               /\ tally'[s][t] \in {"flattened", "already open"} => \E m \in Makers : <<m, t>> \in taken'
    BY <1>1, <1>3, <1>4, <1>7, <1>8 DEF FlattenInv, Closing
  <2>2. \A s \in Requests : Closing(s)' => ask'[s].op = "flatten"
    BY <1>1, <1>3, <1>4 DEF FlattenInv, Closing
  <2> QED
    BY <1>3, <1>9, <2>1, <2>2 DEF FlattenInv
<1> QED
  BY <1>2, <1>3, <1>4, <1>5, <1>6, <1>8, <1>10, QuietStep

\* A confirmation's window passes, or an exit with the broker fills.
LEMMA OutsideStep ==
  ASSUME IInv,
         \/ \E q \in Requests : WindowPasses(q)
         \/ \E m \in Makers, t \in Tickers : BrokerFills(m, t)
         \/ UNCHANGED vars
  PROVE  IInv'
<1>1. TypeInv /\ MeetInv /\ RaceInv /\ UnheededInv /\ FlattenInv /\ ActedInv /\ ExecutedInv
      /\ \A s \in Requests : ColumnsInv(s) /\ WordInv(s)
  BY DEF IInv
<1>2. TypeInv'
  BY <1>1, TypeStep DEF Next
<1>3. UNCHANGED <<row, tele, target, acted, ask, met, todo, tally, taken, unheeded, pc, staged, lost>>
  BY DEF WindowPasses, BrokerFills, vars, teleVars, exitVars, roleVars
<1>4. Open' = Open
  BY <1>3 DEF Open
<1>5. MeetInv' /\ RaceInv' /\ UnheededInv'
  BY <1>1, <1>3, <1>4 DEF MeetInv, RaceInv, UnheededInv, Raced
<1>9. \A s \in Requests : RefusedFlatten(s)' <=> RefusedFlatten(s)
  BY <1>3 DEF RefusedFlatten, Refused, NothingWentOut
<1>6. \A s \in Requests : ColumnsInv(s)' /\ WordInv(s)'
  <2>1. \A s \in Requests : ColumnsInv(s)'
    BY <1>1, <1>3 DEF ColumnsInv
  <2>2. \A s \in Requests : WordInv(s)'
    BY <1>1, <1>3, <1>9 DEF WordInv
  <2> QED
    BY <2>1, <2>2
<1>7. ActedInv' /\ ExecutedInv'
  <2>1. ActedInv'
    BY <1>1, <1>3, <1>4 DEF ActedInv, Marked, Beside
  <2>2. ASSUME NEW q \in Requests, tele[q] = "executed"
        PROVE  \E x \in acted[q] : pc[x] = "ended" /\ ~RefusedFlatten(x)'
    BY <1>1, <1>9, <2>2, Typed DEF ExecutedInv
  <2> QED
    BY <1>3, <2>1, <2>2 DEF ExecutedInv
<1>8. FlattenInv'
  <2>1. \A m \in Makers, t \in Tickers : order'[m][t] = order[m][t] \/ order'[m][t] = "filled"
    <3>1. ASSUME NEW m \in Makers, NEW t \in Tickers, BrokerFills(m, t)
          PROVE  \A n \in Makers, u \in Tickers : order'[n][u] = order[n][u] \/ order'[n][u] = "filled"
      <4>1. "filled" \in OrderStatuses
        BY DEF OrderStatuses, Final
      <4> QED
        BY <1>1, <3>1, <4>1, OrderWritten DEF BrokerFills
    <3>2. CASE UNCHANGED vars \/ \E q \in Requests : WindowPasses(q)
      BY <3>2 DEF vars, exitVars, WindowPasses
    <3> QED
      BY <3>1, <3>2
  <2>2. Other \in Makers
    BY DEF Makers
  <2> QED
    BY <1>1, <1>3, <2>1, <2>2 DEF FlattenInv, Closing
<1> QED
  BY <1>2, <1>5, <1>6, <1>7, <1>8 DEF IInv

LEMMA InvStep == IInv /\ [Next]_vars => IInv'
  BY BeginStep, SwitchStep, ReadForHaltStep, FlushStep, ExitStep, SaveStep, LoseStep, OutsideStep DEF Next

-----------------------------------------------------------------------------
(* What holds of every behaviour. *)

(* The invariant: what sessions that are open together know of each other, what each *)
(* has yet to save, and what the Telegram requests are marked with.                  *)
THEOREM OpenSessionsAreAccountedFor == Spec => []IInv
  BY Initially, InvStep, PTL DEF Spec

(* Automation stays on beside an active switch only after a resume that raced the    *)
(* halt, and a flatten under way sends at most one exit against a saved switch.      *)
THEOREM HaltIsAlwaysHeeded == Spec => []HaltIsHeeded
<1>1. IInv => HaltIsHeeded
  BY DEF IInv, TypeInv, RaceInv, Raced, UnheededInv, HaltIsHeeded, AutomationUnderHaltIsARace, AtMostOneExitUnheeded
<1> QED
  BY <1>1, OpenSessionsAreAccountedFor, PTL

(* A flatten closes nobody else's exit, and one that reports itself complete has an  *)
(* exit with the broker for every position it read.                                  *)
THEOREM CompleteIsAlwaysTrue == Spec => []CompleteIsTrue
<1>1. IInv => CompleteIsTrue
  <2> SUFFICES ASSUME IInv PROVE CompleteIsTrue
    OBVIOUS
  <2>1. TypeInv /\ FlattenInv
    BY DEF IInv
  <2>2. ASSUME NEW r \in Requests, NEW t \in Tickers, pc[r] \in {"flush", "reply", "ended"}, r \notin lost,
               Complete(r), tally[r][t] # "none"
        PROVE  \E m \in Makers : <<m, t>> \in taken
    <3>1. tally[r][t] \in Counts
      BY <2>1, Typed
    <3>2. tally[r][t] \in {"flattened", "already open"}
      BY <2>1, <2>2, <3>1 DEF FlattenInv, Closing, Complete, Refused, Counts
    <3> QED
      BY <2>1, <3>2 DEF FlattenInv
  <2> QED
    BY <2>1, <2>2 DEF CompleteIsTrue, OthersIntentsAreKept, FlattenInv
<1> QED
  BY <1>1, OpenSessionsAreAccountedFor, PTL

(* A Telegram request is carried out once, unless two confirmations were open        *)
(* together or one was not saved, and is on record as executed only when it was.     *)
THEOREM ConfirmationsAreAlwaysTrue == Spec => []ConfirmationsAreTrue
<1>1. IInv => ConfirmationsAreTrue
  BY DEF IInv, ActedInv, Beside, ExecutedInv, RefusedFlatten, ConfirmationsAreTrue, ConfirmedOnce, ExecutedIsTrue
<1> QED
  BY <1>1, OpenSessionsAreAccountedFor, PTL
============================================================================
