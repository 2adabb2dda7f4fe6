---------------------------- MODULE OrderStates ----------------------------
(***************************************************************************)
(* The order lifecycle of app/execution/state_machine.py: the statuses an  *)
(* order row can hold, which of them are final, and the moves the guard    *)
(* transition_order_status allows.                                         *)
(***************************************************************************)

TERMINAL_ORDER_STATUSES == {"filled", "cancelled", "rejected", "error"}

ACTIVE_ORDER_STATUSES ==
  {"pending_intent", "submitted", "submission_unknown", "accepted", "partially_filled"}

KNOWN_ORDER_STATUSES == ACTIVE_ORDER_STATUSES \cup TERMINAL_ORDER_STATUSES

\* Once a request may have reached the broker, every ending is still possible.
AfterSubmission == TERMINAL_ORDER_STATUSES \cup {"accepted", "partially_filled"}

ORDER_STATUS_TRANSITIONS ==
  [s \in KNOWN_ORDER_STATUSES |->
     CASE s = "pending_intent" ->
            {"submitted", "submission_unknown", "rejected", "cancelled", "error"}
       [] s \in {"submitted", "submission_unknown"} -> AfterSubmission
       [] s = "accepted"         -> AfterSubmission \ {"accepted"}
       [] s = "partially_filled" -> TERMINAL_ORDER_STATUSES
       [] OTHER                  -> {}]

\* A status the code does not know never moves; staying put is always allowed.
can_transition_order_status(from, to) ==
  /\ from \in KNOWN_ORDER_STATUSES
  /\ to \in KNOWN_ORDER_STATUSES
  /\ from = to \/ to \in ORDER_STATUS_TRANSITIONS[from]
============================================================================
