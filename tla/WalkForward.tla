----------------------------- MODULE WalkForward -----------------------------
(***************************************************************************)
(* Walk-forward validation (WalkForwardValidator of backtest/engine.py):   *)
(* the sessions of a bar series are cut into windows of a training, a      *)
(* validation and a test part, each of whole sessions with at least so     *)
(* many bars.  Parameters are chosen on the first two and tried once on    *)
(* the third.  Every part is read together with the session before it,     *)
(* which warms the indicators up.                                          *)
(***************************************************************************)
EXTENDS Naturals, Sequences, FiniteSetsExt

CONSTANTS
    Sizes,          \* bars a session may have
    MaxSessions,
    in_sample_bars, out_sample_bars, step_bars,
    None

VARIABLES
    session_groups, \* the number of bars of each session
    warmup_group,   \* the session before the next window, 0 when not begun
    windows         \* what was done, [train, validation, test, params]

vars == <<session_groups, warmup_group, windows>>

Init ==
    /\ session_groups = <<>>
    /\ warmup_group = 0
    /\ windows = <<>>

Sessions == DOMAIN session_groups
BarsOf(group) == MapThenSumSet(LAMBDA g : session_groups[g], group)
Bars(first, after) == BarsOf({g \in Sessions : first <= g /\ g < after})

(* take_complete_sessions: the session after the part that begins at start. *)
take_complete_sessions(start, minimum) ==
    LET ends == {e \in start + 1 .. Len(session_groups) + 1 : Bars(start, e) >= minimum}
    IN  IF ends = {} THEN None ELSE Min(ends)

Load(sizes) ==
    /\ session_groups = <<>>
    /\ session_groups' = sizes
    /\ warmup_group' = 1
    /\ UNCHANGED windows

(* The session before the next window: at least step_bars on, and never     *)
(* before the end of this one.                                             *)
NextWarmup(train, after) ==
    LET groups == {g \in after .. Len(session_groups) + 1 : Bars(train, g) >= step_bars}
    IN  IF groups = {} THEN Len(session_groups) ELSE Min(groups) - 1

(* One window; a candidate is chosen, or none is eligible.                 *)
Window(params) ==
    /\ warmup_group > 0 /\ warmup_group + 1 \in Sessions
    /\ LET train == warmup_group + 1
           validation == take_complete_sessions(train, in_sample_bars)
           test == IF validation = None THEN None
                   ELSE take_complete_sessions(validation, out_sample_bars)
           after == IF test = None THEN None ELSE take_complete_sessions(test, out_sample_bars)
       IN  /\ after # None
           /\ windows' = Append(windows, [train |-> train, validation |-> validation,
                                          test |-> test, after |-> after, params |-> params])
           /\ warmup_group' = NextWarmup(train, after)
    /\ UNCHANGED session_groups

Next ==
    \/ \E n \in 2 .. MaxSessions : \E sizes \in [1 .. n -> Sizes] : Load(sizes)
    \/ \E params \in {"selected", "no_eligible_candidate"} : Window(params)

Spec == Init /\ [][Next]_vars

(***************************************************************************)
(* Properties.                                                             *)
(***************************************************************************)
(* The sessions a part's back-test is given: its own and the one before.    *)
Read(first, after) == first - 1 .. after - 1

(* The type invariant.                                                     *)
TypeOK ==
    /\ session_groups \in Seq(Sizes) /\ warmup_group \in 0 .. Len(session_groups)
    /\ \A w \in DOMAIN windows :
          /\ windows[w].train < windows[w].validation
          /\ windows[w].validation < windows[w].test
          /\ windows[w].test < windows[w].after
          /\ windows[w].after <= Len(session_groups) + 1

(* What chooses a window's parameters reads nothing of its test, tests do   *)
(* not overlap, and a window reads of an earlier one no more than the last  *)
(* session, as warm-up.                                                    *)
TestsAreHeldOut ==
    \A w \in DOMAIN windows :
        /\ Read(windows[w].train, windows[w].test)
              \intersect (windows[w].test .. windows[w].after - 1) = {}
        /\ \A v \in 1 .. w - 1 :
              Read(windows[w].train, windows[w].after)
                 \intersect Read(windows[v].train, windows[v].after)
              \subseteq {windows[v].after - 1}

(* Windows begin at least step_bars apart, and each part is as long as was  *)
(* asked for.                                                              *)
WindowsAreLongEnough ==
    \A w \in DOMAIN windows :
        /\ Bars(windows[w].train, windows[w].validation) >= in_sample_bars
        /\ Bars(windows[w].validation, windows[w].test) >= out_sample_bars
        /\ Bars(windows[w].test, windows[w].after) >= out_sample_bars
        /\ w > 1 => Bars(windows[w - 1].train, windows[w].train) >= step_bars

(* No window is chosen on what it, or another one, is tested on.            *)
WindowsAreApart == TypeOK /\ TestsAreHeldOut /\ WindowsAreLongEnough
=============================================================================
