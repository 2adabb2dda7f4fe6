--------------------------- MODULE LivePermission ---------------------------
(***************************************************************************)
(* What the live-readiness evidence promises, without saying how it is     *)
(* stored: a grant is made by an action of its owner, is then only ever    *)
(* lost, and only one owner holds any.                                     *)
(***************************************************************************)
CONSTANTS
    Owners,     \* the administrators with a live account
    FIELDS,     \* the readiness actions that leave evidence
    Unlock      \* the action that unlocks live trading

VARIABLE
    granted     \* for every owner, the evidence that counts now

Init == granted = [w \in Owners |-> {}]

(* An owner's action grants itself. What the owner held may stay, the      *)
(* unlock excepted, and what anybody else held is gone.                    *)
Record(w, a) ==
    /\ a = Unlock => FIELDS \ {Unlock} \subseteq granted[w]
    /\ granted'[w] \subseteq (granted[w] \ {Unlock}) \union {a}
    /\ \A v \in Owners \ {w} : granted'[v] = {}

(* A lock, a new connection, a test, a disconnection and the passing of    *)
(* time only take away.                                                    *)
Revoke == \A w \in Owners : granted'[w] \subseteq granted[w]

Next ==
    /\ DOMAIN granted' = Owners
    /\ Revoke \/ \E w \in Owners, a \in FIELDS : Record(w, a)

Spec == Init /\ [][Next]_granted
=============================================================================
