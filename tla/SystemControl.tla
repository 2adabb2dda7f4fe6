--------------------------- MODULE SystemControl ---------------------------
(***************************************************************************)
(* The kill switch, automatic trading and the emergency exits, from the    *)
(* web and from Telegram (app/services/system_control.py,                  *)
(* telegram_control.py, safety_policy.py, app/risk/engine.py), with the    *)
(* offline recovery (app/operations/recovery.py) and the review at start   *)
(* that refuses to serve while automation is saved as on.                  *)
(*                                                                         *)
(* A request is one database session.  It reads the settings row without a *)
(* lock and writes only the columns it changed, when its transaction       *)
(* flushes; from then to its commit it holds the rows it wrote.  A         *)
(* Telegram request flushes, sends its reply, and then commits: a reply    *)
(* that fails undoes what was not yet committed.                           *)
(***************************************************************************)
EXTENDS Integers, FiniteSets, Functions

CONSTANTS
  Requests,
  Tickers,     \* the positions the account may have
  Other,       \* whoever else keeps exit intents: the end-of-day flatten
  Kept,        \* where Other may keep an intent not yet sent
  Asks,        \* bound: what a request may ask for
  None

ASSUME OtherIsNoRequest == Other \notin Requests /\ None \notin Requests \cup {Other}

VARIABLES
  row,        \* app_settings: the kill switch and automatic trading
  blocked,    \* the receipt of the offline block
  serving,    \* whether the start-up review has admitted requests
  tele,       \* telegram_control_requests, by the request that queued each
  late,       \* the ones whose confirmation window has passed
  ask, pc,    \* each request: what it asks, where it is
  staged,     \* what its session will write: columns, and statuses of Telegram requests
  holds,      \* whether it holds the rows it wrote
  target,     \* the Telegram request it confirms
  todo, cur,  \* a flatten: the positions it has not come to, and the exit order at hand
  tally,      \* a flatten: what became of each position it read
  pos,        \* the broker's positions
  order,      \* exit orders, by maker and ticker
  taken,      \* the exit orders the broker took
  acted,      \* history: the confirmations that carried out each Telegram request
  lost,       \* history: the requests whose last transaction was not saved
  met,        \* history: the requests that were open at the same time as each
  unheeded    \* history: exits each request sent while the switch was saved as active

teleVars  == <<tele, late, target, acted>>
exitVars  == <<todo, cur, tally, pos, order, taken, unheeded>>
roleVars  == <<ask, met>>
vars == <<row, blocked, serving, teleVars, exitVars, roleVars, pc, staged, holds, lost>>

Ops == {"halt", "clear", "pause", "resume", "flatten", "block"}
Vias == {"web", "queue", "confirm", "drop"}
Makers == Requests \cup {Other}

Working == {"working", "unknown"}   \* may be with the broker
Final == {"filled", "error", "cancelled"}

Unasked == [via |-> "web", op |-> "none"]
NothingStaged == [cols |-> {}, tele |-> {}]

TypeOK ==
  /\ row \in [kill: BOOLEAN, auto: BOOLEAN]
  /\ blocked \in BOOLEAN /\ serving \in BOOLEAN
  /\ tele \in [Requests -> {"absent", "pending", "executed", "cancelled", "expired"}]
  /\ late \subseteq Requests /\ lost \subseteq Requests
  /\ ask \in [Requests -> Asks \cup {Unasked}]
  /\ pc \in [Requests -> {"new", "act", "halting", "flatten", "check", "send", "conclude",
                          "flush", "reply", "ended"}]
  /\ holds \subseteq {r \in Requests : pc[r] = "reply"}
  /\ \A r \in Requests : target[r] # None => tele[target[r]] # "absent"
  /\ pos \in [Tickers -> {"open", "closed"}]
  /\ order \in [Makers -> [Tickers -> {"absent", "pending"} \cup Working \cup Final]]
  /\ \A r \in Requests : cur[r] # None => cur[r] \in Makers \X Tickers
  /\ \A m \in Makers, t \in Tickers : order[m][t] = "filled" => pos[t] = "closed"

Init ==
  /\ row \in [kill: {FALSE}, auto: BOOLEAN]
  /\ blocked = FALSE
  /\ serving = ~row.auto
  /\ tele = [r \in Requests |-> "absent"]
  /\ late = {} /\ lost = {}
  /\ ask = [r \in Requests |-> Unasked]
  /\ pc = [r \in Requests |-> "new"]
  /\ staged = [r \in Requests |-> NothingStaged]
  /\ holds = {}
  /\ target = [r \in Requests |-> None]
  /\ todo = [r \in Requests |-> {}]
  /\ cur = [r \in Requests |-> None]
  /\ tally = [r \in Requests |-> [t \in Tickers |-> "none"]]
  /\ pos = [t \in Tickers |-> "open"]
  /\ \E kept \in SUBSET Kept :
       order = [m \in Makers |-> [t \in Tickers |->
                  IF m = Other /\ t \in kept THEN "pending" ELSE "absent"]]
  /\ taken = {}
  /\ acted = [r \in Requests |-> {}]
  /\ met = [r \in Requests |-> {}]
  /\ unheeded = [r \in Requests |-> 0]

-----------------------------------------------------------------------------
(* Sessions. *)

Go(r, step) == pc' = [pc EXCEPT ![r] = step]

Open == {r \in Requests : pc[r] \notin {"new", "ended"}}

Stage(r, cols, statuses) ==
  staged' = [staged EXCEPT ![r] = [cols |-> @.cols \cup cols, tele |-> @.tele \cup statuses]]

\* The rows a session is about to write are not held by another.
RowsFree(r) ==
  \A s \in holds \ {r} :
    /\ staged[r].cols = {} \/ staged[s].cols = {}
    /\ {w[1] : w \in staged[r].tele} \cap {w[1] : w \in staged[s].tele} = {}

\* What a session saves; a status written later in the session is the one that stays.
SaveCols(cols) ==
  row' = [kill |-> IF "kill on" \in cols THEN TRUE
                   ELSE IF "kill off" \in cols THEN FALSE ELSE row.kill,
          auto |-> IF "auto on" \in cols THEN TRUE
                   ELSE IF "auto off" \in cols THEN FALSE ELSE row.auto]

SaveTele(statuses) ==
  tele' = [q \in Requests |->
             IF \E w \in statuses : w[1] = q
               THEN (CHOOSE w \in statuses : w[1] = q)[2] ELSE tele[q]]

Save(r) ==
  /\ RowsFree(r)
  /\ SaveCols(staged[r].cols)
  /\ SaveTele(staged[r].tele)
  /\ staged' = [staged EXCEPT ![r] = NothingStaged]

\* The exits sent against the switch are counted from when it was saved.
HaltedAnew == IF row'.kill /\ ~row.kill THEN [s \in Requests |-> 0] ELSE unheeded

\* Its confirmation has had its effect on record or outside.
CarriedOut(r) ==
  acted' = IF target[r] = None THEN acted ELSE [acted EXCEPT ![target[r]] = @ \cup {r}]

Begin(r, a) ==
  /\ pc[r] = "new"
  /\ a.op = "block" \/ serving
  /\ ask' = [ask EXCEPT ![r] = a]
  /\ met' = [s \in Requests |-> IF s = r THEN Open
                                ELSE IF s \in Open THEN met[s] \cup {r} ELSE met[s]]

Loose == <<row, blocked, serving, exitVars, holds, lost>>

-----------------------------------------------------------------------------
(* Telegram: an action is queued, and carried out when its code comes back. *)

Pending == {q \in Requests : tele[q] = "pending"}

\* Every read of the pending requests first expires the late ones.
Expired == {<<q, "expired">> : q \in Pending \cap late}
Withdrawn == {<<q, "cancelled">> : q \in Pending \ late}

QueueConfirmation(r, a) ==
  /\ a.via = "queue"
  /\ Begin(r, a)
  /\ Stage(r, {}, Expired \cup Withdrawn \cup {<<r, "pending">>})
  /\ Go(r, "flush")
  /\ UNCHANGED <<Loose, teleVars>>

CancelPending(r, a) ==
  /\ a.via = "drop"
  /\ Begin(r, a)
  /\ Stage(r, {}, Expired \cup Withdrawn)
  /\ Go(r, "flush")
  /\ UNCHANGED <<Loose, teleVars>>

\* The code is the one of a request still pending; one that matches none changes nothing more.
Confirm(r, a) ==
  /\ a.via = "confirm"
  /\ Begin(r, a)
  /\ Stage(r, {}, Expired)
  /\ \/ \E q \in Pending \ late :
          /\ ask[q].op = a.op
          /\ target' = [target EXCEPT ![r] = q]
          /\ Go(r, "act")
     \/ target' = target /\ Go(r, "flush")
  /\ UNCHANGED <<Loose, tele, late, acted>>

\* What a message asks for: an action to be confirmed, a code, or to forget the action.
Dispatch(r, a) == QueueConfirmation(r, a) \/ Confirm(r, a) \/ CancelPending(r, a)

WindowPasses(q) ==
  /\ tele[q] = "pending" /\ q \notin late
  /\ late' = late \cup {q}
  /\ UNCHANGED <<row, blocked, serving, tele, target, acted, exitVars, roleVars, pc, staged,
                 holds, lost>>

\* A control from the web acts at once.
FromTheWeb(r, a) ==
  /\ a.via = "web" /\ a.op # "block"
  /\ Begin(r, a)
  /\ Go(r, "act")
  /\ UNCHANGED <<Loose, teleVars, staged>>

-----------------------------------------------------------------------------
(* The switches. *)

\* The end of the control's own work: the Telegram request is marked, the web request is done.
Conclude(r, cols, status) ==
  /\ Stage(r, cols, IF target[r] = None THEN {} ELSE {<<target[r], status>>})
  /\ Go(r, "flush")

PauseAutoTrading(r) ==
  /\ pc[r] = "act" /\ ask[r].op = "pause"
  /\ Conclude(r, IF row.auto THEN {"auto off"} ELSE {}, "executed")
  /\ UNCHANGED <<Loose, teleVars, roleVars>>

\* Mutant: the switch is not looked at.
ResumeWhateverTheSwitch(r) ==
  /\ pc[r] = "act" /\ ask[r].op = "resume"
  /\ Conclude(r, IF row.auto THEN {} ELSE {"auto on"}, "executed")
  /\ UNCHANGED <<Loose, teleVars, roleVars>>

ResumeAutoTrading(r) ==
  /\ pc[r] = "act" /\ ask[r].op = "resume"
  /\ IF row.kill THEN Conclude(r, {}, "cancelled")
     ELSE Conclude(r, IF row.auto THEN {} ELSE {"auto on"}, "executed")
  /\ UNCHANGED <<Loose, teleVars, roleVars>>

\* Only a column whose value differs from the one read is written.
ReadForHalt(r) ==
  /\ pc[r] = "act" /\ ask[r].op = "halt"
  /\ Stage(r, (IF row.kill THEN {} ELSE {"kill on"}) \cup (IF row.auto THEN {"auto off"} ELSE {}),
           {})
  /\ Go(r, "halting")
  /\ UNCHANGED <<Loose, teleVars, roleVars>>

\* activate_kill_switch commits itself, before anything else is done.
CommitHalt(r) ==
  /\ pc[r] = "halting"
  /\ Save(r)
  /\ unheeded' = HaltedAnew
  /\ CarriedOut(r)
  /\ Go(r, "conclude")
  /\ UNCHANGED <<blocked, serving, late, target, todo, cur, tally, pos, order, taken, roleVars,
                 holds, lost>>

ConcludeHalt(r) ==
  /\ pc[r] = "conclude" /\ ask[r].op = "halt"
  /\ Conclude(r, {}, "executed")
  /\ UNCHANGED <<Loose, teleVars, roleVars>>

DeactivateKillSwitch(r) ==
  /\ pc[r] = "act" /\ ask[r].op = "clear"
  /\ Stage(r, IF row.kill THEN {"kill off"} ELSE {}, {})
  /\ Go(r, "flush")
  /\ UNCHANGED <<Loose, teleVars, roleVars>>

\* The offline block takes the whole table, so it waits for whoever wrote the row; run again with
\* its identity it writes nothing, and is refused if the controls have changed since.
BlockControls(r, a) ==
  /\ a.op = "block"
  /\ Begin(r, a)
  /\ \A s \in holds : staged[s].cols = {}
  /\ IF blocked THEN UNCHANGED <<row, unheeded>>
     ELSE /\ row' = [kill |-> TRUE, auto |-> FALSE]
          /\ unheeded' = IF row.kill THEN unheeded ELSE [s \in Requests |-> 0]
  /\ blocked' = TRUE
  /\ Go(r, "ended")
  /\ UNCHANGED <<serving, teleVars, todo, cur, tally, pos, order, taken, staged, holds, lost>>

-----------------------------------------------------------------------------
(* Closing every position. *)

ReadPositions(r) ==
  /\ pc[r] = "act" /\ ask[r].op = "flatten"
  /\ todo' = [todo EXCEPT ![r] = {t \in Tickers : pos[t] = "open"}]
  /\ tally' = [tally EXCEPT ![r] =
                 [t \in Tickers |-> IF pos[t] = "open" THEN "unread" ELSE "none"]]
  /\ Go(r, "flatten")
  /\ UNCHANGED <<row, blocked, serving, teleVars, cur, pos, order, taken, unheeded, roleVars,
                 staged, holds, lost>>

Count(r, t, as) ==
  /\ tally' = [tally EXCEPT ![r][t] = as]
  /\ todo' = [todo EXCEPT ![r] = @ \ {t}]
  /\ cur' = [cur EXCEPT ![r] = None]
  /\ Go(r, "flatten")

\* An exit that stands for the same order is taken up instead of a new one: one that is unknown
\* always, one that is open only if it was made lately.
FindStanding(r, t) ==
  /\ pc[r] = "flatten" /\ t \in todo[r]
  /\ \E m \in Makers :
       /\ order[m][t] \in {"pending"} \cup Working
       /\ IF order[m][t] = "pending"
            THEN /\ cur' = [cur EXCEPT ![r] = <<m, t>>]
                 /\ Go(r, "check")
                 /\ UNCHANGED <<todo, tally>>
            ELSE Count(r, t, IF order[m][t] = "unknown" THEN "unconfirmed" ELSE "already open")
  /\ UNCHANGED <<row, blocked, serving, teleVars, pos, order, taken, unheeded, roleVars, staged,
                 holds, lost>>

\* The new intent is not saved before its dispatch.
CreateIntent(r, t) ==
  /\ pc[r] = "flatten" /\ t \in todo[r]
  /\ \A m \in Makers : order[m][t] # "unknown"
  /\ cur' = [cur EXCEPT ![r] = <<r, t>>]
  /\ Go(r, "check")
  /\ UNCHANGED <<row, blocked, serving, teleVars, todo, tally, pos, order, taken, unheeded,
                 roleVars, staged, holds, lost>>

\* Mutant: the settings row the session first read is used again.
AllowedUnlessHaltedBefore(r) ==
  /\ pc[r] = "check"
  /\ ~row.kill \/ \E t \in Tickers : tally[r][t] = "flattened"
  /\ Go(r, "send")
  /\ UNCHANGED <<Loose, teleVars, roleVars, staged>>

\* The last gate reads the row anew for every order.
SubmissionAllowed(r) ==
  /\ pc[r] = "check"
  /\ ~row.kill
  /\ Go(r, "send")
  /\ UNCHANGED <<Loose, teleVars, roleVars, staged>>

\* Mutant: the intent at hand is closed whoever made it.
RefuseAndCloseAny(r) ==
  /\ pc[r] = "check"
  /\ row.kill
  /\ order' = [order EXCEPT ![cur[r][1]][cur[r][2]] = "cancelled"]
  /\ tally' = [tally EXCEPT ![r] = [t \in Tickers |-> IF t \in todo[r] THEN "left open" ELSE @[t]]]
  /\ todo' = [todo EXCEPT ![r] = {}]
  /\ cur' = [cur EXCEPT ![r] = None]
  /\ Go(r, "flatten")
  /\ UNCHANGED <<row, blocked, serving, teleVars, pos, taken, unheeded, roleVars, staged, holds,
                 lost>>

\* Refused: an intent of its own is closed, one that was there is left to its maker, and nothing
\* more is tried.
SubmissionRefused(r) ==
  /\ pc[r] = "check"
  /\ row.kill
  /\ order' = IF cur[r][1] = r THEN [order EXCEPT ![r][cur[r][2]] = "cancelled"] ELSE order
  /\ tally' = [tally EXCEPT ![r] = [t \in Tickers |-> IF t \in todo[r] THEN "left open" ELSE @[t]]]
  /\ todo' = [todo EXCEPT ![r] = {}]
  /\ cur' = [cur EXCEPT ![r] = None]
  /\ Go(r, "flatten")
  /\ UNCHANGED <<row, blocked, serving, teleVars, pos, taken, unheeded, roleVars, staged, holds,
                 lost>>

\* Mutant: an exit nobody answered for is counted as accepted.
CountAccepted(status) ==
  CASE status = "error" -> "failed"
    [] OTHER -> "flattened"

CountAs(status) ==
  CASE status = "unknown" -> "unconfirmed"
    [] status = "error" -> "failed"
    [] OTHER -> "flattened"

\* What the broker did with an exit and what was heard of it; it does not sell what is not held.
Outcomes(t) ==
  {[status |-> "error", took |-> FALSE], [status |-> "unknown", took |-> FALSE]} \cup
  (IF pos[t] = "closed" THEN {}
   ELSE {[status |-> s, took |-> TRUE] : s \in {"working", "unknown"}})

\* The dispatch saves the session and sends.
SubmitExit(r) ==
  /\ pc[r] = "send"
  /\ LET m == cur[r][1]  t == cur[r][2] IN
       /\ m = r \/ order[m][t] = "pending"
       /\ Save(r)
       /\ \E o \in Outcomes(t) :
            /\ order' = [order EXCEPT ![m][t] = o.status]
            /\ taken' = IF o.took THEN taken \cup {<<m, t>>} ELSE taken
            /\ Count(r, t, CountAs(o.status))
  /\ unheeded' = IF row.kill THEN [unheeded EXCEPT ![r] = @ + 1] ELSE unheeded
  /\ CarriedOut(r)
  /\ UNCHANGED <<blocked, serving, late, target, pos, roleVars, holds, lost>>

\* The report of a flatten.
Refused(r) == \E t \in Tickers : tally[r][t] = "left open"
NothingWentOut(r) ==
  \A t \in Tickers : tally[r][t] \notin {"flattened", "unconfirmed", "failed"}
Complete(r) ==
  ~Refused(r) /\ \A t \in Tickers : tally[r][t] \notin {"failed", "unconfirmed"}

\* Mutant: a flatten that was refused is recorded as carried out.
FlattenedWhateverCame(r) ==
  /\ pc[r] = "flatten" /\ todo[r] = {}
  /\ Conclude(r, {}, "executed")
  /\ UNCHANGED <<Loose, teleVars, roleVars>>

Flattened(r) ==
  /\ pc[r] = "flatten" /\ todo[r] = {}
  /\ Conclude(r, {}, IF Refused(r) /\ NothingWentOut(r) THEN "cancelled" ELSE "executed")
  /\ UNCHANGED <<Loose, teleVars, roleVars>>

\* External: an exit with the broker fills, and the row is told.
BrokerFills(m, t) ==
  /\ <<m, t>> \in taken /\ order[m][t] \in Working /\ pos[t] = "open"
  /\ order' = [order EXCEPT ![m][t] = "filled"]
  /\ pos' = [pos EXCEPT ![t] = "closed"]
  /\ UNCHANGED <<row, blocked, serving, teleVars, todo, cur, tally, taken, unheeded, roleVars, pc,
                 staged, holds, lost>>

-----------------------------------------------------------------------------
(* How a request ends. *)

\* Mutant: the confirmed request is not marked before the answer goes out.
FlushWithoutMark(r) ==
  /\ pc[r] = "flush" /\ ask[r].via # "web"
  /\ RowsFree(r)
  /\ staged' = [staged EXCEPT ![r].tele = {w \in @ : w[1] # target[r]}]
  /\ holds' = holds \cup {r}
  /\ Go(r, "reply")
  /\ UNCHANGED <<row, blocked, serving, teleVars, exitVars, roleVars, lost>>

Flush(r) ==
  /\ pc[r] = "flush" /\ ask[r].via # "web"
  /\ RowsFree(r)
  /\ holds' = holds \cup {r}
  /\ Go(r, "reply")
  /\ UNCHANGED <<row, blocked, serving, teleVars, exitVars, roleVars, staged, lost>>

Commit(r) ==
  /\ pc[r] = IF ask[r].via = "web" THEN "flush" ELSE "reply"
  /\ Save(r)
  /\ unheeded' = HaltedAnew
  /\ IF <<target[r], "executed">> \in staged[r].tele THEN CarriedOut(r) ELSE acted' = acted
  /\ holds' = holds \ {r}
  /\ Go(r, "ended")
  /\ UNCHANGED <<blocked, serving, late, target, todo, cur, tally, pos, order, taken, roleVars,
                 lost>>

\* Mutant: the rows a failed session wrote stay locked.
LoseKeepingRows(S) ==
  /\ staged' = [s \in Requests |-> IF s \in S THEN NothingStaged ELSE staged[s]]
  /\ holds' = holds
  /\ lost' = lost \cup S
  /\ cur' = [s \in Requests |-> IF s \in S THEN None ELSE cur[s]]
  /\ pc' = [s \in Requests |-> IF s \in S THEN "ended" ELSE pc[s]]

\* The session rolls back: what it had not committed is gone.
Lose(S) ==
  /\ staged' = [s \in Requests |-> IF s \in S THEN NothingStaged ELSE staged[s]]
  /\ holds' = holds \ S
  /\ lost' = lost \cup S
  /\ cur' = [s \in Requests |-> IF s \in S THEN None ELSE cur[s]]
  /\ pc' = [s \in Requests |-> IF s \in S THEN "ended" ELSE pc[s]]

\* The reply cannot be sent; the database or the process fails; or the exit at hand has been
\* sent by someone else since it was read, which the row's version shows at the commit.
Fails(r) ==
  /\ r \in Open
  /\ Lose({r})
  /\ UNCHANGED <<row, blocked, serving, teleVars, todo, tally, pos, order, taken, unheeded,
                 roleVars>>

\* The process starts again.  Its start-up review refuses to serve while automation is saved.
Restart ==
  /\ ~serving \/ Open # {}
  /\ Lose(Open)
  /\ serving' = ~row.auto
  /\ UNCHANGED <<row, blocked, teleVars, todo, tally, pos, order, taken, unheeded, roleVars>>

-----------------------------------------------------------------------------
Next ==
  \/ \E r \in Requests :
       \/ \E a \in Asks : Dispatch(r, a) \/ FromTheWeb(r, a) \/ BlockControls(r, a)
       \/ WindowPasses(r)
       \/ PauseAutoTrading(r) \/ ResumeAutoTrading(r)
       \/ ReadForHalt(r) \/ CommitHalt(r) \/ ConcludeHalt(r)
       \/ DeactivateKillSwitch(r)
       \/ ReadPositions(r)
       \/ \E t \in Tickers : FindStanding(r, t) \/ CreateIntent(r, t)
       \/ SubmissionAllowed(r) \/ SubmissionRefused(r) \/ SubmitExit(r) \/ Flattened(r)
       \/ Flush(r) \/ Commit(r) \/ Fails(r)
  \/ \E m \in Makers, t \in Tickers : BrokerFills(m, t)
  \/ Restart

Spec == Init /\ [][Next]_vars

-----------------------------------------------------------------------------
(* Properties. *)

\* Automatic trading is saved as on beside an active switch only when a request to resume it was
\* open together with the halt: the resume read the row before the halt was saved, or saved its
\* column where the halt had read it as off already.  Otherwise a halt leaves it off, and clearing
\* the switch does not bring it back (activate_kill_switch, resume_auto_trading).
AutomationUnderHaltIsARace ==
  row.kill /\ row.auto =>
    \E h, s \in Requests : /\ ask[h].op \in {"halt", "block"}
                           /\ ask[s].op = "resume"
                           /\ s \in met[h]

\* Once the switch is saved, a flatten under way sends no more than the one exit whose gate it
\* had already passed (require_order_submission_allowed before every order).
AtMostOneExitUnheeded == \A r \in Requests : unheeded[r] <= 1

\* What a halt can be too late for: a resume beside it, and one exit of each flatten.
HaltIsHeeded == TypeOK /\ AutomationUnderHaltIsARace /\ AtMostOneExitUnheeded

\* An exit intent that was there before is never closed by a flatten that is refused
\* (_created_since).
OthersIntentsAreKept == \A t \in Tickers : order[Other][t] # "cancelled"

\* A flatten closes no intent but its own, and one that reports itself complete has, for every position it read, an exit that reached
\* the broker (the counts of flatten_all_summary).
CompleteIsTrue ==
  /\ OthersIntentsAreKept
  /\ \A r \in Requests :
    /\ ask[r].op = "flatten" /\ pc[r] \in {"flush", "reply", "ended"} /\ r \notin lost
    /\ tally[r] # [t \in Tickers |-> "none"]
    /\ Complete(r)
    => \A t \in Tickers :
         tally[r][t] # "none" => \E m \in Makers : <<m, t>> \in taken

\* Two confirmations that both carried out one Telegram request were open at the same time, or
\* one of them could not save or answer: a confirmation delivered again later does nothing
\* (_confirm).
ConfirmedOnce ==
  \A q \in Requests : \A r, s \in acted[q] :
    r = s \/ s \in met[r] \/ {r, s} \cap lost # {}

\* A Telegram request recorded as executed was carried out by a confirmation that was not refused
\* before anything went out (the check after flatten_all_summary).
ExecutedIsTrue ==
  \A q \in Requests : tele[q] = "executed" =>
    \E r \in acted[q] : ~(ask[r].op = "flatten" /\ Refused(r) /\ NothingWentOut(r))

\* A Telegram request is carried out once, and what is on record of it is true.
ConfirmationsAreTrue == ConfirmedOnce /\ ExecutedIsTrue
=============================================================================
