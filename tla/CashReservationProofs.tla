----------------------- MODULE CashReservationProofs -----------------------
(***************************************************************************)
(* PromisesAreCovered, for any accounts, runs, orders, costs, funds and    *)
(* any clock tolerance that covers the clocks and a slow read.             *)
(*                                                                         *)
(* The argument: what a run's figure no longer shows is exactly the coins  *)
(* taken since it was read (unseen), and every order that took one of them *)
(* is among the orders an admission counts, because the last time stamped  *)
(* on it is later than the reading less the tolerance.  So the counted     *)
(* orders' coins include both what is outstanding and what is unseen, and  *)
(* these do not overlap.                                                   *)
(***************************************************************************)
EXTENDS CashReservation, FiniteSetTheorems, FunctionTheorems, TLAPS

\* The turn protects the rows of an open transaction.
TurnsExclude ==
  /\ \A r \in Runs : staged[r] # {} \/ pc[r] = "turn" => turn = r
  /\ \A r \in Runs : pc[r] \in {"waiting", "turn"} => wants[r] \notin staged[r]
  /\ \A r \in Runs : pc[r] = "idle" => staged[r] = {}

\* A row that was never inserted has no account; one that was has one, and says so or
\* says nothing.
RowsAreWhole ==
  \A k \in Keys :
    /\ row[k] = "none" => ~over[k] /\ paid[k] = 0
    /\ row[k] = "none" /\ (\A r \in Runs : k \notin staged[r]) => account[k] = None
    /\ row[k] # "none" => account[k] \in Accounts
    /\ \A r \in Runs : k \in staged[r] => row[k] = "none" /\ account[k] \in Accounts
    /\ scope[k] \in {account[k], None}
    /\ paid[k] <= Cost[k]

\* An order that was ended here is over at the broker, and its time says when.
EndsAreStamped ==
  \A k \in Keys :
    /\ lastPaid[k] <= now
    /\ row[k] = "ended" => over[k] /\ endedAt[k] >= lastPaid[k] - ReadLag

\* A figure errs by no more than the coins taken since it was read.
FiguresAreExplained ==
  \A r \in Runs : pc[r] # "idle" =>
    /\ figure[r].scope \in {figure[r].of, None}
    /\ figure[r].amount <= cash[figure[r].of] + Cardinality(unseen[r])
    /\ figure[r].readAt <= now
    /\ figure[r].stamp # None => figure[r].stamp <= figure[r].readAt + Skew
    /\ figure[r].stamp = None => now - figure[r].readAt <= UndatedAge

UnseenIsRecent ==
  \A r \in Runs : \A coin \in unseen[r] :
    LET k == coin[1] IN
    /\ pc[r] # "idle"
    /\ row[k] # "none"
    /\ account[k] = figure[r].of
    /\ coin[2] <= paid[k]
    /\ lastPaid[k] >= figure[r].readAt

IInv ==
  /\ TypeOK /\ TurnsExclude /\ RowsAreWhole /\ EndsAreStamped
  /\ FiguresAreExplained /\ UnseenIsRecent /\ PromisesAreCovered
-----------------------------------------------------------------------------
(* Counting coins. *)

LEMMA AllCoinsAreFinite ==
  /\ IsFiniteSet(AllCoins)
  /\ \A S : S \subseteq AllCoins => IsFiniteSet(S) /\ Cardinality(S) \in Nat
<1>1. IsFiniteSet(1..Highest)
  BY FS_Interval, CostsAreBounded
<1>2. IsFiniteSet(AllCoins)
  BY <1>1, FS_Product, CostsAreBounded DEF AllCoins
<1> QED
  BY <1>2, FS_Subset, FS_CardinalityType

LEMMA CoinsAreCoins ==
  /\ \A S : S \subseteq Keys => CoinsOf(S) \subseteq AllCoins
  /\ \A a : Outstanding(a) \subseteq AllCoins
  BY DEF CoinsOf, AllCoins, Outstanding, MayStillCost

\* An order has as many coins as it costs.
LEMMA CoinsOfOne ==
  ASSUME NEW k \in Keys
  PROVE  Cardinality(CoinsOf({k})) = Cost[k]
<1> DEFINE f == [i \in 1..Cost[k] |-> <<k, i>>]
<1>1. Cost[k] \in Nat /\ Cost[k] <= Highest /\ Highest \in Nat
  BY CostsAreBounded
<1>2. IsFiniteSet(1..Cost[k]) /\ Cardinality(1..Cost[k]) = Cost[k]
  <2>1. \A n \in Nat : Cardinality(1..n) = IF 1 > n THEN 0 ELSE n - 1 + 1
    BY FS_Interval
  <2>2. \A n \in Nat : IsFiniteSet(1..n)
    BY FS_Interval
  <2>3. \A n \in Nat : (IF 1 > n THEN 0 ELSE n - 1 + 1) = n
    OBVIOUS
  <2> QED
    BY <1>1, <2>1, <2>2, <2>3
<1>3. \A coin \in CoinsOf({k}) : coin[2] \in 1..Cost[k] /\ f[coin[2]] = coin
  BY <1>1 DEF CoinsOf
<1>4. \A i \in 1..Cost[k] : <<k, i>> \in CoinsOf({k})
  BY <1>1 DEF CoinsOf
<1>5. f \in Bijection(1..Cost[k], CoinsOf({k}))
  <2>1. f \in [1..Cost[k] -> CoinsOf({k})]
    BY <1>4
  <2>2. \A i, j \in 1..Cost[k] : f[i] = f[j] => i = j
    OBVIOUS
  <2>3. \A coin \in CoinsOf({k}) : \E i \in 1..Cost[k] : f[i] = coin
    BY <1>3
  <2> HIDE DEF f
  <2> QED
    BY <2>1, <2>2, <2>3, Fun_IsBij
<1> QED
  BY <1>2, <1>5, FS_Bijection DEF ExistsBijection

\* Two sets of coins that do not overlap, within a third one.
LEMMA TwoWithinOne ==
  ASSUME NEW S, NEW T, NEW U, U \subseteq AllCoins, S \subseteq U, T \subseteq U, S \cap T = {}
  PROVE  Cardinality(S) + Cardinality(T) <= Cardinality(U)
<1>1. IsFiniteSet(S) /\ IsFiniteSet(T) /\ IsFiniteSet(U)
  BY AllCoinsAreFinite
<1>2. Cardinality(S \cup T) = Cardinality(S) + Cardinality(T) - Cardinality(S \cap T)
  BY <1>1, FS_Union
<1>3. Cardinality(S \cap T) = 0
  BY FS_EmptySet
<1>4. Cardinality(S \cup T) <= Cardinality(U)
  BY <1>1, FS_Subset
<1>5. Cardinality(S) \in Nat /\ Cardinality(T) \in Nat /\ Cardinality(U) \in Nat
  BY <1>1, FS_CardinalityType
<1> QED
  BY <1>2, <1>3, <1>4, <1>5

\* The heart of it: an order that fits the figure fits the cash there really is.
LEMMA AdmissionFits ==
  ASSUME IInv, NEW r \in Runs, pc[r] = "turn", NEW present \in now..(now + Skew),
         Fits(r, present)
  PROVE  LET a == figure[r].of IN
         Cost[wants[r]] + Cardinality(Outstanding(a)) <= cash[a]
<1> DEFINE a == figure[r].of
           P == PromisedElsewhere(r, present)
<1>1. /\ figure[r] \in Figure /\ a \in Accounts /\ a # None /\ turn = r
      /\ now \in Nat /\ present \in Int /\ now <= present /\ present <= now + Skew
      /\ figure[r].amount \in Int /\ figure[r].readAt \in Nat /\ cash[a] \in Int
      /\ figure[r].stamp # None => figure[r].stamp \in Nat
      /\ figure[r].scope \in {a, None}
  BY NoneIsApart, TimesAreBounded DEF IInv, TypeOK, TurnsExclude, FiguresAreExplained, Figure
<1>2. \A k \in Keys : account[k] = a => SameAccount(r, k)
  BY <1>1 DEF IInv, RowsAreWhole, SameAccount
<1>3. Outstanding(a) \subseteq CoinsOf(P)
  <2>1. \A k \in MayStillCost(a) : k \in P
    <3> SUFFICES ASSUME NEW k \in Keys, account[k] = a, row[k] # "ended" PROVE k \in P
      BY DEF MayStillCost
    <3>1. CASE row[k] = "active"
      BY <3>1, <1>2 DEF PromisedElsewhere, NotShown
    <3>2. CASE row[k] = "none"
      <4>1. PICK q \in Runs : k \in staged[q]
        BY <3>2, <1>1 DEF IInv, RowsAreWhole
      <4>2. q = r
        BY <4>1, <1>1 DEF IInv, TurnsExclude
      <4> QED
        BY <4>1, <4>2, <1>2 DEF PromisedElsewhere, NotShown
    <3> QED
      BY <3>1, <3>2 DEF IInv, TypeOK
  <2> QED
    BY <2>1 DEF Outstanding, CoinsOf
<1>4. unseen[r] \subseteq CoinsOf(P)
  <2> SUFFICES ASSUME NEW coin \in unseen[r] PROVE coin \in CoinsOf(P)
    OBVIOUS
  <2> DEFINE k == coin[1]
  <2>1. /\ coin \in AllCoins /\ k \in Keys /\ coin[2] \in 1..Highest
        /\ row[k] \in {"active", "ended"} /\ account[k] = a
        /\ coin[2] <= paid[k] /\ paid[k] <= Cost[k]
        /\ paid[k] \in Nat /\ Cost[k] \in Nat
    BY CostsAreBounded DEF IInv, TypeOK, UnseenIsRecent, RowsAreWhole, AllCoins
  <2>2. ASSUME row[k] = "ended"
        PROVE  endedAt[k] >= ReadingTime(r, present) - Tolerance
    <3>1. /\ endedAt[k] >= lastPaid[k] - ReadLag /\ lastPaid[k] >= figure[r].readAt
          /\ endedAt[k] \in Int /\ lastPaid[k] \in Int
      BY <2>1, <2>2, TimesAreBounded DEF IInv, TypeOK, Times, EndsAreStamped, UnseenIsRecent
    <3>2. /\ figure[r].readAt <= now
          /\ figure[r].stamp # None => figure[r].stamp <= figure[r].readAt + Skew
          /\ figure[r].stamp = None => now - figure[r].readAt <= UndatedAge
      BY DEF IInv, FiguresAreExplained
    <3>3. ReadingTime(r, present) \in Int /\ ReadingTime(r, present) <= figure[r].readAt + Skew
      BY <1>1, <3>2, TimesAreBounded DEF ReadingTime
    <3> QED
      BY <1>1, <3>1, <3>3, TimesAreBounded
  <2>3. k \in P
    BY <1>2, <2>1, <2>2 DEF PromisedElsewhere, NotShown
  <2> QED
    BY <2>1, <2>3 DEF CoinsOf, AllCoins
<1>5. Outstanding(a) \cap unseen[r] = {}
  BY CostsAreBounded DEF Outstanding, CoinsOf, MayStillCost, IInv, UnseenIsRecent, TypeOK, AllCoins
<1>6. CoinsOf(P) \subseteq AllCoins
  BY CoinsAreCoins DEF PromisedElsewhere
<1>7. Cardinality(Outstanding(a)) + Cardinality(unseen[r]) <= Cardinality(CoinsOf(P))
  BY <1>3, <1>4, <1>5, <1>6, TwoWithinOne
<1>8. /\ Cardinality(Outstanding(a)) \in Nat /\ Cardinality(unseen[r]) \in Nat
      /\ Cardinality(CoinsOf(P)) \in Nat
  BY <1>3, <1>4, <1>6, AllCoinsAreFinite
<1>9. /\ Cost[wants[r]] + Cardinality(CoinsOf(P)) <= figure[r].amount
      /\ figure[r].amount <= cash[a] + Cardinality(unseen[r])
  BY DEF Fits, IInv, FiguresAreExplained
<1>10. Cost[wants[r]] \in Nat
  BY CostsAreBounded DEF IInv, TypeOK
<1> QED
  BY <1>1, <1>7, <1>8, <1>9, <1>10
-----------------------------------------------------------------------------
(* The steps. *)

LEMMA InvInit == Init => IInv
<1> SUFFICES ASSUME Init PROVE IInv
  OBVIOUS
<1>1. TypeOK /\ TurnsExclude /\ RowsAreWhole /\ EndsAreStamped /\ FiguresAreExplained /\ UnseenIsRecent
  BY NoneIsApart, CostsAreBounded, TimesAreBounded
  DEF Init, TypeOK, TurnsExclude, RowsAreWhole, EndsAreStamped, FiguresAreExplained,
      UnseenIsRecent, Times
<1>2. \A a \in Accounts : Outstanding(a) = {}
  BY NoneIsApart DEF Init, Outstanding, CoinsOf, MayStillCost
<1>3. PromisesAreCovered
  BY <1>2, FS_EmptySet, CostsAreBounded DEF Init, PromisesAreCovered
<1> QED
  BY <1>1, <1>3 DEF IInv

\* What takes no cash and makes no order dearer leaves the promises covered.
LEMMA StillCovered ==
  ASSUME TypeOK, PromisesAreCovered, UNCHANGED cash,
         \A a \in Accounts : Outstanding(a)' \subseteq Outstanding(a)
  PROVE  PromisesAreCovered'
<1> SUFFICES ASSUME NEW a \in Accounts PROVE Cardinality(Outstanding(a)') <= cash[a]
  BY DEF PromisesAreCovered
<1>1. /\ IsFiniteSet(Outstanding(a)) /\ Cardinality(Outstanding(a)) \in Nat
  BY AllCoinsAreFinite, CoinsAreCoins
<1>2. Cardinality(Outstanding(a)') <= Cardinality(Outstanding(a)) /\ IsFiniteSet(Outstanding(a)')
  BY <1>1, FS_Subset
<1>3. Cardinality(Outstanding(a)') \in Nat
  BY <1>2, FS_CardinalityType
<1>4. Cardinality(Outstanding(a)) <= cash[a] /\ cash[a] \in Int
  BY DEF PromisesAreCovered, TypeOK
<1> QED
  BY <1>1, <1>2, <1>3, <1>4

LEMMA QuietRun ==
  ASSUME IInv, NEW r \in Runs,
         \/ \E k \in Keys : Ask(r, k)
         \/ TakeTurn(r) \/ GiveUp(r) \/ FindStanding(r) \/ Refuse(r)
  PROVE  IInv'
<1>1. TypeOK' /\ TurnsExclude'
  BY NoneIsApart DEF IInv, TypeOK, TurnsExclude, Ask, TakeTurn, GiveUp, FindStanding, Refuse, Decided,
     Answered, TurnAfterSavepoint, brokerVars, rowVars
<1>2. /\ UNCHANGED <<now, brokerVars, rowVars, figure, staged, unseen>>
      /\ pc' = [pc EXCEPT ![r] = pc'[r]] /\ pc[r] # "idle" /\ pc'[r] # "idle"
  BY DEF IInv, TypeOK, Ask, TakeTurn, GiveUp, FindStanding, Refuse, Decided, Answered
<1>3. RowsAreWhole' /\ EndsAreStamped' /\ FiguresAreExplained' /\ UnseenIsRecent'
  BY <1>2 DEF IInv, TypeOK, RowsAreWhole, EndsAreStamped, FiguresAreExplained, UnseenIsRecent,
     brokerVars, rowVars
<1>4. \A a \in Accounts : Outstanding(a)' = Outstanding(a)
  BY <1>2 DEF Outstanding, CoinsOf, MayStillCost, brokerVars, rowVars
<1>5. PromisesAreCovered'
  BY <1>2, <1>4, StillCovered DEF IInv, brokerVars
<1> QED
  BY <1>1, <1>3, <1>5 DEF IInv

LEMMA ReadingKeeps ==
  ASSUME IInv, NEW r \in Runs, NEW a \in Accounts, ReadCash(r, a)
  PROVE  IInv'
<1>1. PICK known \in {a, None}, amount \in FreeCash(a), stamp \in (now..(now + Skew)) \cup {None} :
        figure' = [figure EXCEPT ![r] =
          [of |-> a, scope |-> known, amount |-> amount, readAt |-> now, stamp |-> stamp]]
  BY DEF ReadCash
<1>2. Cardinality(Outstanding(a)) \in Nat /\ cash[a] \in Int
  BY AllCoinsAreFinite, CoinsAreCoins DEF IInv, TypeOK
<1>3. amount \in Int /\ amount <= cash[a]
  BY <1>2 DEF FreeCash
<1>4. /\ now \in Nat /\ now <= MaxNow
      /\ stamp # None => stamp \in 0..(MaxNow + Skew) /\ stamp <= now + Skew
  BY TimesAreBounded DEF IInv, TypeOK
<1>5. /\ UNCHANGED <<now, brokerVars, rowVars, turn, wants, staged, unseen>>
      /\ pc[r] = "idle" /\ pc' = [pc EXCEPT ![r] = "ready"]
  BY DEF ReadCash
<1>6. [of |-> a, scope |-> known, amount |-> amount, readAt |-> now, stamp |-> stamp] \in Figure
  BY <1>3, <1>4 DEF Figure
<1>7. TypeOK' /\ TurnsExclude'
  BY <1>1, <1>5, <1>6 DEF IInv, TypeOK, TurnsExclude, brokerVars, rowVars
<1>8. unseen[r] = {}
  BY <1>5 DEF IInv, UnseenIsRecent
<1>9. RowsAreWhole' /\ EndsAreStamped' /\ UnseenIsRecent'
  BY <1>1, <1>5, <1>8 DEF IInv, TypeOK, RowsAreWhole, EndsAreStamped, UnseenIsRecent, brokerVars, rowVars
<1>10. FiguresAreExplained'
  <2> SUFFICES ASSUME NEW q \in Runs, pc'[q] # "idle"
               PROVE  /\ figure'[q].scope \in {figure'[q].of, None}
                      /\ figure'[q].amount <= cash[figure'[q].of] + Cardinality(unseen[q])
                      /\ figure'[q].readAt <= now
                      /\ figure'[q].stamp # None => figure'[q].stamp <= figure'[q].readAt + Skew
                      /\ figure'[q].stamp = None => now - figure'[q].readAt <= UndatedAge
    BY <1>5 DEF FiguresAreExplained, brokerVars
  <2>1. CASE q = r
    <3>1. figure'[r] = [of |-> a, scope |-> known, amount |-> amount, readAt |-> now, stamp |-> stamp]
      BY <1>1 DEF IInv, TypeOK
    <3>2. Cardinality(unseen[r]) = 0
      BY <1>8, FS_EmptySet
    <3> QED
      BY <2>1, <3>1, <3>2, <1>2, <1>3, <1>4, TimesAreBounded
  <2>2. CASE q # r
    <3>1. figure'[q] = figure[q] /\ pc[q] # "idle"
      BY <1>1, <1>5, <2>2 DEF IInv, TypeOK
    <3> QED
      BY <3>1 DEF IInv, FiguresAreExplained
  <2> QED
    BY <2>1, <2>2
<1>11. \A b \in Accounts : Outstanding(b)' = Outstanding(b)
  BY <1>5 DEF Outstanding, CoinsOf, MayStillCost, brokerVars, rowVars
<1>12. PromisesAreCovered'
  BY <1>5, <1>11, StillCovered DEF IInv, brokerVars
<1> QED
  BY <1>7, <1>9, <1>10, <1>12 DEF IInv
LEMMA AdmittingKeeps ==
  ASSUME IInv, NEW r \in Runs, Admit(r)
  PROVE  IInv'
<1>0. PICK k \in Keys, a \in Accounts : k = wants[r] /\ a = figure[r].of
  BY DEF IInv, TypeOK, Figure, Admit, Decided
<1>1. /\ k \in Keys /\ pc[r] = "turn" /\ row[k] = "none" /\ turn = r /\ k \notin staged[r]
      /\ figure[r] \in Figure /\ a \in Accounts /\ a # None
      /\ figure[r].scope \in {a, None}
  BY <1>0, NoneIsApart DEF IInv, TypeOK, TurnsExclude, FiguresAreExplained, Figure, Admit, Decided
<1>2. /\ staged' = [staged EXCEPT ![r] = @ \cup {k}]
      /\ account' = [account EXCEPT ![k] = a]
      /\ scope' = [scope EXCEPT ![k] = figure[r].scope]
      /\ pc' = [pc EXCEPT ![r] = "ready"] /\ wants' = [wants EXCEPT ![r] = None]
      /\ UNCHANGED <<now, brokerVars, row, endedAt, turn, figure, unseen>>
  BY <1>0 DEF Admit, Decided, Answered
<1>3. \A q \in Runs : k \notin staged[q]
  BY <1>1 DEF IInv, TurnsExclude
<1>4. account[k] = None
  BY <1>1, <1>3 DEF IInv, RowsAreWhole
<1>5. TypeOK'
  BY <1>1, <1>2 DEF IInv, TypeOK, Figure, brokerVars
<1>6. TurnsExclude'
  BY <1>1, <1>2 DEF IInv, TypeOK, TurnsExclude
<1>7. RowsAreWhole'
  BY <1>1, <1>2, <1>3 DEF IInv, TypeOK, RowsAreWhole, brokerVars
<1>8. EndsAreStamped' /\ FiguresAreExplained'
  BY <1>1, <1>2 DEF IInv, TypeOK, EndsAreStamped, FiguresAreExplained, brokerVars
<1>9. UnseenIsRecent'
  <2> SUFFICES ASSUME NEW q \in Runs, NEW coin \in unseen[q]
               PROVE  /\ pc'[q] # "idle" /\ row[coin[1]] # "none"
                      /\ account'[coin[1]] = figure[q].of
                      /\ coin[2] <= paid[coin[1]] /\ lastPaid[coin[1]] >= figure[q].readAt
    BY <1>2 DEF UnseenIsRecent, brokerVars
  <2>1. /\ pc[q] # "idle" /\ row[coin[1]] # "none" /\ account[coin[1]] = figure[q].of
        /\ coin[2] <= paid[coin[1]] /\ lastPaid[coin[1]] >= figure[q].readAt
    BY DEF IInv, UnseenIsRecent
  <2>2. coin[1] # k /\ coin[1] \in Keys
    BY <1>1, <2>1 DEF IInv, TypeOK, AllCoins
  <2> QED
    BY <1>1, <1>2, <2>1, <2>2 DEF IInv, TypeOK
<1>10. PromisesAreCovered'
  <2> SUFFICES ASSUME NEW b \in Accounts PROVE Cardinality(Outstanding(b)') <= cash[b]
    BY <1>2 DEF PromisesAreCovered, brokerVars
  <2>1. CASE b = a
    <3>1. PICK present \in now..(now + Skew) : Fits(r, present)
      BY DEF Admit
    <3>2. Cost[k] + Cardinality(Outstanding(a)) <= cash[a]
      BY <1>0, <1>1, <3>1, AdmissionFits
    <3>3. Outstanding(a)' \subseteq Outstanding(a) \cup CoinsOf({k})
      BY <1>2 DEF Outstanding, CoinsOf, MayStillCost, brokerVars, IInv, TypeOK
    <3>4. /\ IsFiniteSet(Outstanding(a)) /\ IsFiniteSet(CoinsOf({k}))
          /\ Cardinality(Outstanding(a)) \in Nat
      BY <1>1, AllCoinsAreFinite, CoinsAreCoins
    <3>5. Cardinality(Outstanding(a) \cup CoinsOf({k})) <= Cardinality(Outstanding(a)) + Cost[k]
      <4>1. Cardinality(Outstanding(a) \cup CoinsOf({k})) =
              Cardinality(Outstanding(a)) + Cardinality(CoinsOf({k}))
                - Cardinality(Outstanding(a) \cap CoinsOf({k}))
        BY <3>4, FS_Union
      <4>2. Cardinality(Outstanding(a) \cap CoinsOf({k})) \in Nat
        BY <3>4, FS_Intersection, FS_CardinalityType
      <4>3. Cardinality(CoinsOf({k})) = Cost[k] /\ Cost[k] \in Nat
        BY <1>1, CoinsOfOne, CostsAreBounded
      <4> QED
        BY <3>4, <4>1, <4>2, <4>3
    <3>6. IsFiniteSet(Outstanding(a) \cup CoinsOf({k}))
      BY <3>4, FS_Union
    <3>7. /\ Cardinality(Outstanding(a)') <= Cardinality(Outstanding(a) \cup CoinsOf({k}))
          /\ Cardinality(Outstanding(a)') \in Nat
          /\ Cardinality(Outstanding(a) \cup CoinsOf({k})) \in Nat
      BY <3>3, <3>6, FS_Subset, FS_CardinalityType
    <3>8. cash[a] \in Int /\ Cost[k] \in Nat
      BY <1>1, CostsAreBounded DEF IInv, TypeOK
    <3> QED
      BY <2>1, <3>2, <3>4, <3>5, <3>7, <3>8
  <2>2. CASE b # a
    <3>1. Outstanding(b)' = Outstanding(b)
      BY <1>1, <1>2, <1>4, <2>2, NoneIsApart DEF Outstanding, CoinsOf, MayStillCost, brokerVars, IInv, TypeOK
    <3> QED
      BY <3>1 DEF IInv, PromisesAreCovered
  <2> QED
    BY <2>1, <2>2
<1> QED
  BY <1>5, <1>6, <1>7, <1>8, <1>9, <1>10 DEF IInv

LEMMA CommitKeeps ==
  ASSUME IInv, NEW r \in Runs, Commit(r)
  PROVE  IInv'
<1>1. /\ pc[r] = "ready" /\ turn = r
      /\ \A q \in Runs : q # r => staged[q] = {} /\ pc[q] # "turn"
  BY DEF IInv, TurnsExclude, Commit
<1>2. /\ row' = [k \in Keys |-> IF k \in staged[r] THEN "active" ELSE row[k]]
      /\ staged' = [staged EXCEPT ![r] = {}] /\ turn' = None
      /\ UNCHANGED <<now, brokerVars, account, scope, endedAt, pc, figure, wants, unseen>>
  BY DEF Commit
<1>3. TypeOK' /\ TurnsExclude'
  BY <1>1, <1>2 DEF IInv, TypeOK, TurnsExclude, brokerVars
<1>4. RowsAreWhole' /\ EndsAreStamped'
  BY <1>1, <1>2 DEF IInv, TypeOK, RowsAreWhole, EndsAreStamped, brokerVars
<1>5. FiguresAreExplained'
  BY <1>2 DEF IInv, FiguresAreExplained, brokerVars
<1>6. UnseenIsRecent'
  BY <1>2 DEF IInv, TypeOK, AllCoins, UnseenIsRecent, brokerVars
<1>7. \A a \in Accounts : Outstanding(a)' = Outstanding(a)
  BY <1>2 DEF IInv, TypeOK, RowsAreWhole, Outstanding, CoinsOf, MayStillCost, brokerVars
<1>8. PromisesAreCovered'
  BY <1>2, <1>7, StillCovered DEF IInv, brokerVars
<1> QED
  BY <1>3, <1>4, <1>5, <1>6, <1>8 DEF IInv

LEMMA LeavingKeeps ==
  ASSUME IInv, NEW r \in Runs, Leave(r)
  PROVE  IInv'
<1>1. /\ pc' = [pc EXCEPT ![r] = "idle"] /\ figure' = [figure EXCEPT ![r] = None]
      /\ wants' = [wants EXCEPT ![r] = None]
      /\ account' = [k \in Keys |-> IF k \in staged[r] THEN None ELSE account[k]]
      /\ scope' = [k \in Keys |-> IF k \in staged[r] THEN None ELSE scope[k]]
      /\ staged' = [staged EXCEPT ![r] = {}]
      /\ turn' = IF turn = r THEN None ELSE turn
      /\ unseen' = [unseen EXCEPT ![r] = {}]
      /\ UNCHANGED <<now, brokerVars, row, endedAt>>
  BY DEF Leave
<1>2. TypeOK' /\ TurnsExclude'
  BY <1>1 DEF IInv, TypeOK, TurnsExclude, brokerVars
<1>3. \A q \in Runs : q # r => staged[q] = {} \/ staged[r] = {}
  BY DEF IInv, TurnsExclude
<1>4. RowsAreWhole'
  <2> SUFFICES ASSUME NEW k \in Keys
               PROVE /\ row[k] = "none" => ~over[k] /\ paid[k] = 0
                     /\ row[k] = "none" /\ (\A q \in Runs : k \notin staged'[q]) => account'[k] = None
                     /\ row[k] # "none" => account'[k] \in Accounts
                     /\ \A q \in Runs : k \in staged'[q] => row[k] = "none" /\ account'[k] \in Accounts
                     /\ scope'[k] \in {account'[k], None}
                     /\ paid[k] <= Cost[k]
    BY <1>1 DEF RowsAreWhole, brokerVars
  <2>1. CASE k \in staged[r]
    BY <1>1, <1>3, <2>1 DEF IInv, TypeOK, RowsAreWhole
  <2>2. CASE k \notin staged[r]
    BY <1>1, <2>2 DEF IInv, TypeOK, RowsAreWhole
  <2> QED
    BY <2>1, <2>2
<1>5. EndsAreStamped'
  BY <1>1 DEF IInv, EndsAreStamped, brokerVars
<1>6. FiguresAreExplained'
  BY <1>1 DEF IInv, TypeOK, FiguresAreExplained, brokerVars
<1>7. UnseenIsRecent'
  BY <1>1 DEF IInv, TypeOK, AllCoins, UnseenIsRecent, RowsAreWhole, brokerVars
<1>8. \A a \in Accounts : Outstanding(a)' \subseteq Outstanding(a)
  BY <1>1, NoneIsApart DEF Outstanding, CoinsOf, MayStillCost, brokerVars
<1>9. PromisesAreCovered'
  BY <1>1, <1>8, StillCovered DEF IInv, brokerVars
<1> QED
  BY <1>2, <1>4, <1>5, <1>6, <1>7, <1>9 DEF IInv

LEMMA TakingCashKeeps ==
  ASSUME IInv, NEW k \in Keys, BrokerTakesCash(k)
  PROVE  IInv'
<1>0. PICK a \in Accounts, coin \in {<<k, paid[k] + 1>>} :
          a = account[k] /\ coin = <<k, paid[k] + 1>>
  <2>1. account[k] \in Accounts
    BY DEF IInv, RowsAreWhole, BrokerTakesCash
  <2> QED
    BY <2>1
<1>1. /\ row[k] = "active" /\ ~over[k] /\ paid[k] < Cost[k] /\ a \in Accounts
      /\ paid[k] \in Nat /\ Cost[k] \in Nat /\ Cost[k] <= Highest /\ Highest \in Nat
      /\ coin \in AllCoins /\ now \in Nat
  <2>1. /\ row[k] = "active" /\ ~over[k] /\ paid[k] < Cost[k] /\ now \in Nat
        /\ paid[k] \in Nat /\ Cost[k] \in Nat /\ Cost[k] <= Highest /\ Highest \in Nat
    <3>1. /\ row[k] = "active" /\ ~over[k] /\ paid[k] < Cost[k]
      BY DEF BrokerTakesCash
    <3>2. Cost[k] \in Nat /\ Cost[k] <= Highest /\ Highest \in Nat
      BY CostsAreBounded
    <3>3. paid[k] \in Nat /\ now \in Nat
      BY <3>2 DEF IInv, TypeOK
    <3> QED
      BY <3>1, <3>2, <3>3
  <2>2. paid[k] + 1 \in 1..Highest
    BY <2>1
  <2> QED
    BY <1>0, <2>1, <2>2 DEF AllCoins
<1>2. /\ paid' = [paid EXCEPT ![k] = @ + 1]
      /\ lastPaid' = [lastPaid EXCEPT ![k] = now]
      /\ cash' = [cash EXCEPT ![a] = @ - 1]
      /\ unseen' = [r \in Runs |->
           IF pc[r] # "idle" /\ figure[r].of = a THEN unseen[r] \cup {coin} ELSE unseen[r]]
      /\ UNCHANGED <<now, over, rowVars, runVars>>
  BY <1>0 DEF BrokerTakesCash
<1>3. TypeOK'
  BY <1>1, <1>2 DEF IInv, TypeOK, rowVars, runVars
<1>4. TurnsExclude' /\ EndsAreStamped'
  BY <1>1, <1>2 DEF IInv, TypeOK, TurnsExclude, EndsAreStamped, rowVars, runVars
<1>5. RowsAreWhole'
  BY <1>1, <1>2, CostsAreBounded DEF IInv, TypeOK, RowsAreWhole, rowVars, runVars
<1>6. UnseenIsRecent'
  <2> SUFFICES ASSUME NEW r \in Runs, NEW c \in unseen'[r]
               PROVE  /\ pc[r] # "idle" /\ row[c[1]] # "none"
                      /\ account[c[1]] = figure[r].of
                      /\ c[2] <= paid'[c[1]] /\ lastPaid'[c[1]] >= figure[r].readAt
    BY <1>2 DEF UnseenIsRecent, rowVars, runVars
  <2>1. CASE c = coin /\ pc[r] # "idle" /\ figure[r].of = a
    BY <1>0, <1>1, <1>2, <2>1 DEF IInv, TypeOK, FiguresAreExplained, Figure
  <2>2. CASE c \in unseen[r]
    <3>1. /\ pc[r] # "idle" /\ row[c[1]] # "none" /\ account[c[1]] = figure[r].of
          /\ c[2] <= paid[c[1]] /\ lastPaid[c[1]] >= figure[r].readAt
          /\ c[1] \in Keys /\ c[2] \in Nat /\ figure[r] \in Figure
      BY <2>2, <1>1 DEF IInv, TypeOK, UnseenIsRecent, AllCoins
    <3>2. figure[r].readAt <= now /\ figure[r].readAt \in Nat
      BY <3>1 DEF IInv, FiguresAreExplained, Figure
    <3> QED
      BY <1>1, <1>2, <3>1, <3>2 DEF IInv, TypeOK
  <2> QED
    BY <1>2, <2>1, <2>2
<1>7. FiguresAreExplained'
  <2> SUFFICES ASSUME NEW r \in Runs, pc[r] # "idle"
               PROVE  figure[r].amount <= cash'[figure[r].of] + Cardinality(unseen'[r])
    BY <1>2 DEF IInv, FiguresAreExplained, rowVars, runVars
  <2>1. /\ figure[r].amount <= cash[figure[r].of] + Cardinality(unseen[r])
        /\ figure[r].amount \in Int /\ figure[r].of \in Accounts /\ cash[figure[r].of] \in Int
        /\ unseen[r] \subseteq AllCoins
    BY DEF IInv, TypeOK, FiguresAreExplained, Figure
  <2>2. IsFiniteSet(unseen[r]) /\ Cardinality(unseen[r]) \in Nat
    BY <2>1, AllCoinsAreFinite
  <2>3. CASE figure[r].of = a
    <3>1. coin \notin unseen[r]
      BY <1>0, <1>1 DEF IInv, UnseenIsRecent
    <3>2. Cardinality(unseen[r] \cup {coin}) = Cardinality(unseen[r]) + 1
      BY <2>2, <3>1, FS_AddElement
    <3>3. unseen'[r] = unseen[r] \cup {coin} /\ cash'[a] = cash[a] - 1
      BY <1>1, <1>2, <2>3 DEF IInv, TypeOK
    <3> QED
      BY <2>1, <2>2, <2>3, <3>2, <3>3
  <2>4. CASE figure[r].of # a
    BY <1>1, <1>2, <2>1, <2>4 DEF IInv, TypeOK
  <2> QED
    BY <2>3, <2>4
<1>8. PromisesAreCovered'
  <2> SUFFICES ASSUME NEW b \in Accounts PROVE Cardinality(Outstanding(b)') <= cash'[b]
    BY DEF PromisesAreCovered
  <2>1. /\ IsFiniteSet(Outstanding(b)) /\ Cardinality(Outstanding(b)) \in Nat
        /\ Cardinality(Outstanding(b)) <= cash[b] /\ cash[b] \in Int
    BY AllCoinsAreFinite, CoinsAreCoins DEF IInv, TypeOK, PromisesAreCovered
  <2>2. CASE b = a
    <3>1. coin \in Outstanding(a)
      BY <1>0, <1>1 DEF Outstanding, CoinsOf, MayStillCost, AllCoins
    <3>2. Outstanding(a)' = Outstanding(a) \ {coin}
      <4>1. MayStillCost(a)' = MayStillCost(a)
        BY <1>2 DEF MayStillCost, rowVars
      <4>2. \A c \in CoinsOf(MayStillCost(a)) : c[2] > paid'[c[1]] <=> c[2] > paid[c[1]] /\ c # coin
        <5> SUFFICES ASSUME NEW j \in MayStillCost(a), NEW i \in 1..Highest
                     PROVE  i > paid'[j] <=> i > paid[j] /\ <<j, i>> # coin
          BY DEF CoinsOf
        <5> QED
          <6>1. j \in Keys /\ paid[j] \in Nat /\ i \in Nat
            BY DEF IInv, TypeOK, MayStillCost
          <6>2. CASE j = k
            BY <1>0, <1>1, <1>2, <6>1, <6>2 DEF IInv, TypeOK
          <6>3. CASE j # k
            BY <1>0, <1>2, <6>1, <6>3 DEF IInv, TypeOK
          <6> QED
            BY <6>2, <6>3
      <4>3. Outstanding(a)' = {c \in CoinsOf(MayStillCost(a)) : c[2] > paid'[c[1]]}
        BY <4>1 DEF Outstanding, CoinsOf
      <4> QED
        BY <4>2, <4>3 DEF Outstanding
    <3>3. Cardinality(Outstanding(a) \ {coin}) = Cardinality(Outstanding(a)) - 1
      BY <2>1, <2>2, <3>1, FS_RemoveElement
    <3>4. cash'[a] = cash[a] - 1
      BY <1>1, <1>2 DEF IInv, TypeOK
    <3> QED
      BY <2>1, <2>2, <3>2, <3>3, <3>4
  <2>3. CASE b # a
    <3>1. Outstanding(b)' = Outstanding(b)
      <4>1. MayStillCost(b)' = MayStillCost(b) /\ k \notin MayStillCost(b)
        BY <1>0, <1>2, <2>3 DEF MayStillCost, rowVars
      <4>2. \A j \in MayStillCost(b) : paid'[j] = paid[j]
        BY <1>2, <4>1 DEF MayStillCost, IInv, TypeOK
      <4> QED
        BY <4>1, <4>2 DEF Outstanding, CoinsOf
    <3> QED
      BY <1>2, <2>1, <2>3, <3>1 DEF IInv, TypeOK
  <2> QED
    BY <2>2, <2>3
<1> QED
  BY <1>3, <1>4, <1>5, <1>6, <1>7, <1>8 DEF IInv

LEMMA EndingKeeps ==
  ASSUME IInv, NEW k \in Keys, BrokerIsDone(k) \/ RecordEnd(k)
  PROVE  IInv'
<1>1. CASE BrokerIsDone(k)
  <2>1. /\ TypeOK' /\ TurnsExclude' /\ RowsAreWhole' /\ EndsAreStamped'
        /\ FiguresAreExplained' /\ UnseenIsRecent'
    BY <1>1 DEF BrokerIsDone, IInv, TypeOK, TurnsExclude, RowsAreWhole, EndsAreStamped,
       FiguresAreExplained, UnseenIsRecent, rowVars, runVars
  <2>2. \A a \in Accounts : Outstanding(a)' \subseteq Outstanding(a)
    BY <1>1 DEF BrokerIsDone, IInv, TypeOK, Outstanding, CoinsOf, MayStillCost, rowVars
  <2>3. PromisesAreCovered'
    BY <1>1, <2>2, StillCovered DEF BrokerIsDone, IInv
  <2> QED
    BY <2>1, <2>3 DEF IInv
<1>2. CASE RecordEnd(k)
  <2>1. PICK at \in (lastPaid[k] - ReadLag)..(now + Skew) : endedAt' = [endedAt EXCEPT ![k] = at]
    BY <1>2 DEF RecordEnd
  <2>2. /\ at \in Times /\ at >= lastPaid[k] - ReadLag
    BY TimesAreBounded DEF IInv, TypeOK, Times
  <2>3. /\ row[k] = "active" /\ over[k] /\ row' = [row EXCEPT ![k] = "ended"]
        /\ UNCHANGED <<now, brokerVars, account, scope, runVars, unseen>>
    BY <1>2 DEF RecordEnd
  <2>4. TypeOK' /\ TurnsExclude'
    BY <2>1, <2>2, <2>3 DEF IInv, TypeOK, TurnsExclude, brokerVars, runVars
  <2>5. RowsAreWhole' /\ EndsAreStamped'
    BY <2>1, <2>2, <2>3 DEF IInv, TypeOK, RowsAreWhole, EndsAreStamped, brokerVars, runVars
  <2>6. FiguresAreExplained' /\ UnseenIsRecent'
    BY <2>3 DEF IInv, TypeOK, FiguresAreExplained, UnseenIsRecent, AllCoins, brokerVars, runVars
  <2>7. \A a \in Accounts : Outstanding(a)' \subseteq Outstanding(a)
    BY <2>3 DEF IInv, TypeOK, Outstanding, CoinsOf, MayStillCost, brokerVars
  <2>8. PromisesAreCovered'
    BY <2>3, <2>7, StillCovered DEF IInv, brokerVars
  <2> QED
    BY <2>4, <2>5, <2>6, <2>8 DEF IInv
<1> QED
  BY <1>1, <1>2

LEMMA TickKeeps ==
  ASSUME IInv, Tick
  PROVE  IInv'
<1>1. now < MaxNow /\ now' = now + 1 /\ UNCHANGED <<brokerVars, rowVars, runVars, unseen>>
  BY DEF Tick
<1>2. now \in Nat /\ MaxNow \in Nat
  BY TimesAreBounded DEF IInv, TypeOK
<1>3. TypeOK' /\ TurnsExclude' /\ RowsAreWhole' /\ UnseenIsRecent'
  BY <1>1, <1>2 DEF IInv, TypeOK, TurnsExclude, RowsAreWhole, UnseenIsRecent, brokerVars, rowVars, runVars
<1>4. EndsAreStamped'
  BY <1>1, <1>2 DEF IInv, TypeOK, EndsAreStamped, brokerVars, rowVars
<1>5. FiguresAreExplained'
  <2>0. UNCHANGED <<cash, pc, figure, unseen>>
    BY <1>1 DEF brokerVars, runVars
  <2> SUFFICES ASSUME NEW r \in Runs, pc[r] # "idle"
               PROVE  /\ figure[r].readAt <= now'
                      /\ figure[r].stamp = None => now' - figure[r].readAt <= UndatedAge
    BY <2>0 DEF IInv, FiguresAreExplained
  <2>1. figure[r].readAt <= now /\ figure[r].readAt \in Nat
    BY DEF IInv, TypeOK, Figure, FiguresAreExplained
  <2>2. figure[r].stamp = None => now - figure[r].readAt < UndatedAge
    BY DEF Tick
  <2> QED
    BY <1>1, <1>2, <2>1, <2>2, TimesAreBounded
<1>6. \A a \in Accounts : Outstanding(a)' = Outstanding(a)
  BY <1>1 DEF Outstanding, CoinsOf, MayStillCost, brokerVars, rowVars
<1>7. PromisesAreCovered'
  BY <1>1, <1>6, StillCovered DEF IInv, brokerVars
<1> QED
  BY <1>3, <1>4, <1>5, <1>7 DEF IInv

LEMMA InvStep == IInv /\ [Next]_vars => IInv'
<1> SUFFICES ASSUME IInv, [Next]_vars PROVE IInv'
  OBVIOUS
<1>1. CASE Tick
  BY <1>1, TickKeeps
<1>2. ASSUME NEW r \in Runs, RunStep(r) PROVE IInv'
  BY <1>2, QuietRun, ReadingKeeps, AdmittingKeeps, CommitKeeps, LeavingKeeps DEF RunStep
<1>3. ASSUME NEW k \in Keys, OrderStep(k) PROVE IInv'
  BY <1>3, TakingCashKeeps, EndingKeeps DEF OrderStep
<1>4. CASE UNCHANGED vars
  <2>1. \A a \in Accounts : Outstanding(a)' = Outstanding(a)
    BY <1>4 DEF vars, Outstanding, CoinsOf, MayStillCost, brokerVars, rowVars
  <2>2. PromisesAreCovered'
    BY <1>4, <2>1, StillCovered DEF IInv, vars, brokerVars
  <2> QED
    BY <1>4, <2>2 DEF IInv, TypeOK, TurnsExclude, RowsAreWhole, EndsAreStamped,
       FiguresAreExplained, UnseenIsRecent, vars, brokerVars, rowVars, runVars
<1> QED
  BY <1>1, <1>2, <1>3, <1>4 DEF Next

\* The invariant that explains every figure and every time stamp holds throughout.
THEOREM FiguresStayExplained == Spec => []IInv
<1>1. IInv /\ [Next]_vars => IInv'
  BY InvStep
<1> QED
  BY <1>1, InvInit, PTL DEF Spec

\* An account's cash always covers what its open buys may still cost: no two orders
\* are admitted against the same cash, however the runs of _admit_against_cash overlap.
THEOREM CashIsNeverPromisedTwice == Spec => []PromisesAreCovered
<1>1. IInv => PromisesAreCovered
  BY DEF IInv
<1> QED
  BY <1>1, FiguresStayExplained, PTL
-----------------------------------------------------------------------------
(* The turn of an admission. *)

LEMMA TurnStep ==
  ASSUME IInv, TurnIsKeptForARow, [Next]_vars
  PROVE  TurnIsKeptForARow'
<1>1. CASE Tick \/ UNCHANGED vars \/ \E k \in Keys : OrderStep(k)
  BY <1>1 DEF Tick, OrderStep, BrokerTakesCash, BrokerIsDone, RecordEnd, vars, runVars,
     TurnIsKeptForARow
<1>2. ASSUME NEW r \in Runs, RunStep(r) PROVE TurnIsKeptForARow'
  <2>1. /\ pc \in [Runs -> {"idle", "ready", "waiting", "turn"}]
        /\ staged \in [Runs -> SUBSET Keys]
        /\ turn \in Runs \cup {None} /\ None \notin Runs
        /\ \A q \in Runs : staged[q] # {} \/ pc[q] = "turn" => turn = q
        /\ \A q \in Runs : pc[q] = "idle" => staged[q] = {}
    BY NoneIsApart DEF IInv, TypeOK, TurnsExclude
  <2>2. CASE \E a \in Accounts : ReadCash(r, a)
    BY <2>1, <2>2 DEF ReadCash, TurnIsKeptForARow
  <2>3. CASE \E k \in Keys : Ask(r, k)
    BY <2>1, <2>3 DEF Ask, TurnIsKeptForARow
  <2>4. CASE TakeTurn(r) \/ GiveUp(r)
    BY <2>1, <2>4 DEF TakeTurn, GiveUp, Answered, TurnIsKeptForARow
  <2>5. CASE FindStanding(r) \/ Refuse(r)
    BY <2>1, <2>5 DEF FindStanding, Refuse, Decided, Answered, TurnAfterSavepoint,
       TurnIsKeptForARow
  <2>6. CASE Admit(r)
    BY <2>1, <2>6 DEF Admit, Decided, Answered, TurnIsKeptForARow
  <2>7. CASE Commit(r)
    BY <2>7 DEF Commit, TurnIsKeptForARow
  <2>8. CASE Leave(r)
    BY <2>1, <2>8 DEF Leave, TurnIsKeptForARow
  <2> QED
    BY <1>2, <2>2, <2>3, <2>4, <2>5, <2>6, <2>7, <2>8 DEF RunStep
<1> QED
  BY <1>1, <1>2 DEF Next

\* Between the statements of create_order_intent the turn of an account is only ever
\* kept for a row that awaits its commit, whatever is refused, repeated or rolled back.
THEOREM TurnIsNeverLeftBehind == Spec => []TurnIsKeptForARow
<1>1. Init => TurnIsKeptForARow
  BY DEF Init, TurnIsKeptForARow
<1>2. IInv /\ TurnIsKeptForARow /\ [Next]_vars => TurnIsKeptForARow'
  BY TurnStep
<1> QED
  BY <1>1, <1>2, FiguresStayExplained, PTL DEF Spec
============================================================================
