------------------------ MODULE PaperOperationsProofs ------------------------
(***************************************************************************)
(* Proofs about PaperOperations, for any number of requests, any operation *)
(* identities, commands, prices and fees: there is one account, no halt    *)
(* lets a fill through, a refusal is on record before it is told, the      *)
(* ledger adds up, and the identified commands implement PaperOnce.        *)
(***************************************************************************)
EXTENDS PaperOperations, FiniteSetTheorems, WellFoundedInduction, TLAPS

(***************************************************************************)
(* The sum of the values of a function with a finite domain, as Functions  *)
(* of the community modules folds it: it is an integer, it changes by what *)
(* one value changes, and it is 0 when every value is.                     *)
(*                                                                         *)
(* The fold is a recursive function over the subsets of the domain.  That  *)
(* it exists, and that the order it takes the elements in does not matter, *)
(* is shown by induction on the size of the subset, which is itself the    *)
(* least-element principle of the natural numbers.                         *)
(***************************************************************************)
(* Every inhabited set of natural numbers has a least element. *)
LEMMA LeastOfASet ==
  ASSUME NEW T \in SUBSET Nat, T # {}
  PROVE  \E x \in T : \A y \in T : x <= y
<1>1. PICK R : R = OpToRel(<, Nat)
  OBVIOUS
<1>2. IsWellFoundedOn(R, Nat)
  BY <1>1, NatLessThanWellFounded
<1>3. PICK x \in T : \A y \in T : ~ (<<y, x>> \in R)
  BY <1>2, WFMin
<1>4. \A a, b \in Nat : a < b => <<a, b>> \in R
  BY <1>1 DEF OpToRel
<1>5. ASSUME NEW y \in T PROVE x <= y
  <2>1. ~(y < x)
    BY <1>3, <1>4, Zenon
  <2> QED
    BY <2>1
<1> QED
  BY <1>3, <1>5

(* Induction, over the set of the numbers that have the property. *)
LEMMA InductionOverASet ==
  ASSUME NEW P \in SUBSET Nat, 0 \in P, \A n \in P : n + 1 \in P
  PROVE  P = Nat
<1> SUFFICES ASSUME Nat \ P # {} PROVE FALSE
  OBVIOUS
<1>1. PICK x \in Nat \ P : \A y \in Nat \ P : x <= y
  BY LeastOfASet
<1>2. x # 0
  BY <1>1
<1>3. x - 1 \in Nat /\ x - 1 \in P
  BY <1>1, <1>2
<1> QED
  BY <1>3

(* The subsets of S of at most n elements. *)
UpTo(S, n) == {s \in SUBSET S : Cardinality(s) <= n}

\* The element the fold takes first.
First(s) == CHOOSE x \in s : TRUE

\* A function on some subsets that sums f there, taking one element after another.
SumsOn(g, D, f) ==
  g = [s \in D |-> IF s = {} THEN 0 ELSE f[First(s)] + g[s \ {First(s)}]]

(* What is left of a set after the element the fold takes first is smaller by one. *)
LEMMA OneLess ==
  ASSUME NEW S, IsFiniteSet(S), NEW s \in SUBSET S, NEW x \in s
  PROVE  /\ s \ {x} \in SUBSET S
         /\ Cardinality(s) \in Nat /\ Cardinality(s \ {x}) \in Nat
         /\ Cardinality(s) = Cardinality(s \ {x}) + 1
<1>1. IsFiniteSet(s)
  BY FS_Subset
<1>2. Cardinality(s) \in Nat /\ Cardinality(s \ {x}) = Cardinality(s) - 1 /\ IsFiniteSet(s \ {x})
  BY <1>1, FS_RemoveElement, FS_CardinalityType
<1>3. Cardinality(s \ {x}) \in Nat
  BY <1>2, FS_CardinalityType
<1> QED
  BY <1>2, <1>3

(* The element taken first is one of the set's, and the rest is smaller. *)
LEMMA FirstIsTaken ==
  ASSUME NEW S, IsFiniteSet(S), NEW n \in Nat, NEW s \in UpTo(S, n + 1), s # {}
  PROVE  First(s) \in s /\ s \ {First(s)} \in UpTo(S, n)
<1>1. First(s) \in s
  BY DEF First
<1>2. s \in SUBSET S /\ Cardinality(s) <= n + 1
  BY DEF UpTo
<1>3. /\ s \ {First(s)} \in SUBSET S
      /\ Cardinality(s) \in Nat /\ Cardinality(s \ {First(s)}) \in Nat
      /\ Cardinality(s) = Cardinality(s \ {First(s)}) + 1
  BY <1>1, <1>2, OneLess
<1>4. Cardinality(s \ {First(s)}) <= n
  BY <1>2, <1>3
<1> QED
  BY <1>1, <1>3, <1>4 DEF UpTo

(* Sums over the subsets of at most n elements extend to those of n + 1. *)
LEMMA OneSizeMore ==
  ASSUME NEW S, IsFiniteSet(S), NEW f, NEW n \in Nat, NEW g, SumsOn(g, UpTo(S, n), f)
  PROVE  \E h : SumsOn(h, UpTo(S, n + 1), f)
<1>1. PICK h : h = [s \in UpTo(S, n + 1) |->
                      IF s = {} THEN 0 ELSE f[First(s)] + g[s \ {First(s)}]]
  OBVIOUS
<1>2. \A s \in UpTo(S, n + 1) : s # {} => s \ {First(s)} \in UpTo(S, n)
  BY FirstIsTaken
<1>3. \A s \in UpTo(S, n) : s \in UpTo(S, n + 1)
  <2> SUFFICES ASSUME NEW s \in UpTo(S, n) PROVE s \in UpTo(S, n + 1)
    OBVIOUS
  <2>1. s \in SUBSET S /\ Cardinality(s) <= n
    BY DEF UpTo
  <2>2. Cardinality(s) \in Nat
    BY <2>1, FS_Subset, FS_CardinalityType
  <2> QED
    BY <2>1, <2>2 DEF UpTo
<1>4. \A s \in UpTo(S, n) :
        g[s] = IF s = {} THEN 0 ELSE f[First(s)] + g[s \ {First(s)}]
  BY DEF SumsOn
<1>5. \A s \in UpTo(S, n) : h[s] = g[s]
  BY <1>1, <1>3, <1>4
<1>6. \A s \in UpTo(S, n + 1) :
        s # {} => h[s \ {First(s)}] = g[s \ {First(s)}]
  BY <1>2, <1>5
<1>7. h = [s \in UpTo(S, n + 1) |-> IF s = {} THEN 0 ELSE f[First(s)] + h[s \ {First(s)}]]
  BY <1>1, <1>6
<1> QED
  BY <1>7 DEF SumsOn

(* Sums over all subsets of a finite set exist. *)
LEMMA SumsExist ==
  ASSUME NEW S, IsFiniteSet(S), NEW f
  PROVE  \E g : SumsOn(g, SUBSET S, f)
<1>1. PICK P \in SUBSET Nat : P = {n \in Nat : \E g : SumsOn(g, UpTo(S, n), f)}
  OBVIOUS
<1>2. 0 \in P
  <2>1. PICK g : g = [s \in UpTo(S, 0) |-> 0]
    OBVIOUS
  <2>2. \A s \in UpTo(S, 0) : s = {}
    <3> SUFFICES ASSUME NEW s \in UpTo(S, 0) PROVE s = {}
      OBVIOUS
    <3>1. IsFiniteSet(s) /\ Cardinality(s) <= 0
      BY FS_Subset DEF UpTo
    <3>2. Cardinality(s) = 0
      BY <3>1, FS_CardinalityType
    <3> QED
      BY <3>1, <3>2, FS_EmptySet
  <2>3. SumsOn(g, UpTo(S, 0), f)
    BY <2>1, <2>2 DEF SumsOn
  <2> QED
    BY <1>1, <2>3
<1>3. \A n \in P : n + 1 \in P
  BY <1>1, OneSizeMore
<1>4. P = Nat
  BY <1>2, <1>3, InductionOverASet
<1>5. Cardinality(S) \in Nat
  BY FS_CardinalityType
<1>6. UpTo(S, Cardinality(S)) = SUBSET S
  <2> SUFFICES ASSUME NEW s \in SUBSET S PROVE Cardinality(s) <= Cardinality(S)
    BY DEF UpTo
  <2> QED
    BY FS_Subset
<1>7. Cardinality(S) \in P
  BY <1>4, <1>5
<1>8. \E g : SumsOn(g, UpTo(S, Cardinality(S)), f)
  BY <1>1, <1>7
<1> QED
  BY <1>6, <1>8

\* The sums of f over the subsets of its domain.
AllSums(f) == CHOOSE g : SumsOn(g, SUBSET DOMAIN f, f)

(* The fold of the community modules is this function, at the whole domain. *)
LEMMA TheFold ==
  ASSUME NEW f
  PROVE  SumFunction(f) = AllSums(f)[DOMAIN f]
BY DEF SumFunction, SumFunctionOnSet, FoldFunctionOnSet, MapThenFoldSet, AllSums, SumsOn, First

(* It sums f, one element after another. *)
LEMMA AllSumsRecurse ==
  ASSUME NEW S, IsFiniteSet(S), NEW f \in [S -> Int]
  PROVE  /\ AllSums(f)[{}] = 0
         /\ \A s \in SUBSET S : s # {} =>
              AllSums(f)[s] = f[First(s)] + AllSums(f)[s \ {First(s)}]
<1>1. DOMAIN f = S
  OBVIOUS
<1>2. SumsOn(AllSums(f), SUBSET S, f)
  BY <1>1, SumsExist DEF AllSums
<1> QED
  BY <1>2 DEF SumsOn

(* Induction over the subsets of a finite set: what holds of a set as soon as it holds of   *)
(* the set less any one element holds of all of them.                                       *)
LEMMA InductionOverSubsets ==
  ASSUME NEW S, IsFiniteSet(S), NEW Q \in SUBSET SUBSET S,
         \A s \in SUBSET S : (\A x \in s : s \ {x} \in Q) => s \in Q
  PROVE  Q = SUBSET S
<1>1. PICK P \in SUBSET Nat : P = {n \in Nat : UpTo(S, n) \subseteq Q}
  OBVIOUS
<1>2. 0 \in P
  <2> SUFFICES ASSUME NEW s \in UpTo(S, 0) PROVE s \in Q
    BY <1>1
  <2>1. IsFiniteSet(s) /\ Cardinality(s) <= 0 /\ s \in SUBSET S
    BY FS_Subset DEF UpTo
  <2>2. Cardinality(s) \in Nat
    BY <2>1, FS_CardinalityType
  <2>3. Cardinality(s) = 0
    BY <2>1, <2>2
  <2>4. s = {}
    BY <2>1, <2>3, FS_EmptySet
  <2> QED
    BY <2>1, <2>4
<1>3. \A n \in P : n + 1 \in P
  <2> SUFFICES ASSUME NEW n \in P, NEW s \in UpTo(S, n + 1) PROVE s \in Q
    BY <1>1
  <2>1. s \in SUBSET S /\ Cardinality(s) <= n + 1
    BY DEF UpTo
  <2>2. ASSUME NEW x \in s PROVE s \ {x} \in Q
    <3>1. s \ {x} \in SUBSET S /\ Cardinality(s \ {x}) <= n
      BY <2>1, OneLess
    <3> QED
      BY <1>1, <3>1 DEF UpTo
  <2> QED
    BY <2>1, <2>2
<1>4. P = Nat
  BY <1>2, <1>3, InductionOverASet
<1>5. Cardinality(S) \in P
  BY <1>4, FS_CardinalityType
<1>6. \A s \in SUBSET S : s \in UpTo(S, Cardinality(S))
  BY FS_Subset DEF UpTo
<1> QED
  BY <1>1, <1>5, <1>6

(* Its values are integers. *)
LEMMA AllSumsType ==
  ASSUME NEW S, IsFiniteSet(S), NEW f \in [S -> Int]
  PROVE  \A s \in SUBSET S : AllSums(f)[s] \in Int
<1>1. PICK Q \in SUBSET SUBSET S : Q = {s \in SUBSET S : AllSums(f)[s] \in Int}
  OBVIOUS
<1>2. ASSUME NEW s \in SUBSET S, \A x \in s : s \ {x} \in Q PROVE s \in Q
  <2>1. CASE s = {}
    BY <1>1, <2>1, AllSumsRecurse
  <2>2. CASE s # {}
    <3>1. First(s) \in s
      BY <2>2 DEF First
    <3>2. f[First(s)] \in Int /\ AllSums(f)[s \ {First(s)}] \in Int
      BY <1>1, <1>2, <3>1
    <3>3. AllSums(f)[s] = f[First(s)] + AllSums(f)[s \ {First(s)}]
      BY <2>2, AllSumsRecurse
    <3>4. AllSums(f)[s] \in Int
      BY <3>2, <3>3
    <3> QED
      BY <1>1, <3>4
  <2> QED
    BY <2>1, <2>2
<1>3. Q = SUBSET S
  BY <1>2, InductionOverSubsets
<1> QED
  BY <1>1, <1>3

(* Any element may be taken out first. *)
LEMMA AnyOrder ==
  ASSUME NEW S, IsFiniteSet(S), NEW f \in [S -> Int]
  PROVE  \A s \in SUBSET S : \A x \in s : AllSums(f)[s] = f[x] + AllSums(f)[s \ {x}]
<1>1. PICK Q \in SUBSET SUBSET S :
        Q = {s \in SUBSET S : \A x \in s : AllSums(f)[s] = f[x] + AllSums(f)[s \ {x}]}
  OBVIOUS
<1>2. ASSUME NEW s \in SUBSET S, \A x \in s : s \ {x} \in Q PROVE s \in Q
  <2> SUFFICES ASSUME NEW x \in s PROVE AllSums(f)[s] = f[x] + AllSums(f)[s \ {x}]
    BY <1>1
  <2>1. PICK z : z = First(s)
    OBVIOUS
  <2>2. z \in s
    BY <2>1 DEF First
  <2>3. AllSums(f)[s] = f[z] + AllSums(f)[s \ {z}]
    BY <2>1, AllSumsRecurse
  <2>4. CASE z = x
    BY <2>3, <2>4
  <2>5. CASE z # x
    <3>1. PICK u \in SUBSET S : u = (s \ {x}) \ {z} /\ u = (s \ {z}) \ {x}
      OBVIOUS
    <3>2. s \ {z} \in Q /\ x \in s \ {z} /\ s \ {x} \in Q /\ z \in s \ {x}
      BY <1>2, <2>2, <2>5
    <3>3. AllSums(f)[s \ {z}] = f[x] + AllSums(f)[u]
      BY <1>1, <3>1, <3>2
    <3>4. AllSums(f)[s \ {x}] = f[z] + AllSums(f)[u]
      BY <1>1, <3>1, <3>2
    <3>5. f[x] \in Int /\ f[z] \in Int /\ AllSums(f)[u] \in Int
      BY <2>2, <3>1, AllSumsType
    <3> QED
      BY <2>3, <3>3, <3>4, <3>5
  <2> QED
    BY <2>4, <2>5
<1>3. Q = SUBSET S
  BY <1>2, InductionOverSubsets
<1> QED
  BY <1>1, <1>3

(* Where two functions agree they sum to the same. *)
LEMMA SameSums ==
  ASSUME NEW S, IsFiniteSet(S), NEW f \in [S -> Int], NEW g \in [S -> Int]
  PROVE  \A s \in SUBSET S : (\A x \in s : f[x] = g[x]) => AllSums(f)[s] = AllSums(g)[s]
<1>1. PICK Q \in SUBSET SUBSET S :
        Q = {s \in SUBSET S : (\A x \in s : f[x] = g[x]) => AllSums(f)[s] = AllSums(g)[s]}
  OBVIOUS
<1>2. ASSUME NEW s \in SUBSET S, \A x \in s : s \ {x} \in Q PROVE s \in Q
  <2> SUFFICES ASSUME \A x \in s : f[x] = g[x] PROVE AllSums(f)[s] = AllSums(g)[s]
    BY <1>1
  <2>1. CASE s = {}
    BY <2>1, AllSumsRecurse
  <2>2. CASE s # {}
    <3>1. PICK z : z = First(s)
      OBVIOUS
    <3>2. z \in s
      BY <2>2, <3>1 DEF First
    <3>3. s \ {z} \in Q /\ \A x \in s \ {z} : f[x] = g[x]
      BY <1>2, <3>2
    <3>4. AllSums(f)[s \ {z}] = AllSums(g)[s \ {z}]
      BY <1>1, <3>3
    <3>5. AllSums(f)[s] = f[z] + AllSums(f)[s \ {z}]
      BY <2>2, <3>1, AllSumsRecurse
    <3>6. AllSums(g)[s] = g[z] + AllSums(g)[s \ {z}]
      BY <2>2, <3>1, AllSumsRecurse
    <3> QED
      BY <3>2, <3>4, <3>5, <3>6
  <2> QED
    BY <2>1, <2>2
<1>3. Q = SUBSET S
  BY <1>2, InductionOverSubsets
<1> QED
  BY <1>1, <1>3

(* The sum of integers is an integer. *)
LEMMA SumType ==
  ASSUME NEW S, IsFiniteSet(S), NEW f \in [S -> Int]
  PROVE  SumFunction(f) \in Int
<1>1. SumFunction(f) = AllSums(f)[S]
  BY TheFold
<1> QED
  BY <1>1, AllSumsType

(* A sum changes by what its one value that changes does. *)
LEMMA SumChange ==
  ASSUME NEW S, IsFiniteSet(S), NEW f \in [S -> Int], NEW g \in [S -> Int],
         NEW x \in S, \A y \in S \ {x} : f[y] = g[y]
  PROVE  SumFunction(g) = SumFunction(f) - f[x] + g[x]
<1>1. SumFunction(f) = AllSums(f)[S] /\ SumFunction(g) = AllSums(g)[S]
  BY TheFold
<1>2. AllSums(f)[S] = f[x] + AllSums(f)[S \ {x}]
  BY AnyOrder
<1>3. AllSums(g)[S] = g[x] + AllSums(g)[S \ {x}]
  BY AnyOrder
<1>4. AllSums(f)[S \ {x}] = AllSums(g)[S \ {x}]
  BY SameSums
<1>5. AllSums(f)[S \ {x}] \in Int /\ f[x] \in Int /\ g[x] \in Int
  BY AllSumsType
<1> QED
  BY <1>1, <1>2, <1>3, <1>4, <1>5

(* The sum of zeros is zero. *)
LEMMA SumZero ==
  ASSUME NEW S, IsFiniteSet(S), NEW f \in [S -> Int], \A x \in S : f[x] = 0
  PROVE  SumFunction(f) = 0
<1>1. PICK Q \in SUBSET SUBSET S : Q = {s \in SUBSET S : AllSums(f)[s] = 0}
  OBVIOUS
<1>2. ASSUME NEW s \in SUBSET S, \A x \in s : s \ {x} \in Q PROVE s \in Q
  <2>1. CASE s = {}
    BY <1>1, <2>1, AllSumsRecurse
  <2>2. CASE s # {}
    <3>1. First(s) \in s
      BY <2>2 DEF First
    <3>2. f[First(s)] = 0 /\ AllSums(f)[s \ {First(s)}] = 0
      BY <1>1, <1>2, <3>1
    <3> QED
      BY <1>1, <2>2, <3>2, AllSumsRecurse
  <2> QED
    BY <2>1, <2>2
<1>3. Q = SUBSET S
  BY <1>2, InductionOverSubsets
<1>4. AllSums(f)[S] = 0
  BY <1>1, <1>3
<1> QED
  BY <1>4, TheFold

(* The sum of natural numbers is a natural number. *)
LEMMA SumNat ==
  ASSUME NEW S, IsFiniteSet(S), NEW f \in [S -> Nat]
  PROVE  SumFunction(f) \in Nat
<1>0. f \in [S -> Int]
  OBVIOUS
<1>1. PICK Q \in SUBSET SUBSET S : Q = {s \in SUBSET S : AllSums(f)[s] \in Nat}
  OBVIOUS
<1>2. ASSUME NEW s \in SUBSET S, \A x \in s : s \ {x} \in Q PROVE s \in Q
  <2>1. CASE s = {}
    BY <1>0, <1>1, <2>1, AllSumsRecurse
  <2>2. CASE s # {}
    <3>1. First(s) \in s
      BY <2>2 DEF First
    <3>2. f[First(s)] \in Nat /\ AllSums(f)[s \ {First(s)}] \in Nat
      BY <1>1, <1>2, <3>1
    <3>3. AllSums(f)[s] = f[First(s)] + AllSums(f)[s \ {First(s)}]
      BY <1>0, <2>2, AllSumsRecurse
    <3>4. AllSums(f)[s] \in Nat
      BY <3>2, <3>3
    <3> QED
      BY <1>1, <3>4
  <2> QED
    BY <2>1, <2>2
<1>3. Q = SUBSET S
  BY <1>2, InductionOverSubsets
<1>4. AllSums(f)[S] \in Nat
  BY <1>1, <1>3
<1> QED
  BY <1>4, TheFold

-----------------------------------------------------------------------------
(* The inductive invariant. *)

PaperOrders ==
  {o \in [status : {"absent", "filled", "partially_filled", "rejected"},
          side : {"buy", "sell"}, quantity : Nat, filled : Nat, cash : Int] :
     o.filled <= o.quantity}

Receipts == [body : Bodies, outcome : {"order_recorded", "blocked"}, cash : Int, held : Int]

Asks ==
  {NoAsk}
  \cup [kind : {"identified"}, op : Operations, body : Bodies, order : {None}, quantity : {0}]
  \cup [kind : {"plain"}, op : {None}, body : Bodies, order : {None}, quantity : {0}]
  \cup [kind : {"followup"}, op : {None}, body : {None}, order : Requests,
        quantity : Nat \ {0}]
  \cup [kind : {"lookup"}, op : Operations, body : {None}, order : {None}, quantity : {0}]

StagedWork ==
  [what : {"nothing", "order", "refusal", "stranded"}, order : PaperOrders,
   at : Requests \cup {None}, cash : Nat, held : Nat, connection : BOOLEAN]

Steps == {"new", "user", "receipt", "account", "mutex", "execute", "staged", "asking",
          "lookup", "ended"}

Types ==
  /\ cash \in Nat /\ held \in Nat
  /\ orders \in [Requests -> PaperOrders]
  /\ receipt \in [Operations -> Receipts \cup {None}]
  /\ stranded \in [Requests -> [filled : Nat, cash : Int]]
  /\ conns \subseteq Requests
  /\ evidence \subseteq Requests
  /\ halted \in BOOLEAN
  /\ userLock \in Requests \cup {None}
  /\ accountLock \in Requests \cup {None}
  /\ sharing \subseteq Requests
  /\ ask \in [Requests -> Asks]
  /\ pc \in [Requests -> Steps]
  /\ staged \in [Requests -> StagedWork]
  /\ DOMAIN told = Requests

\* What a request asks says where it can be, and it is told nothing before its end.
PathInv ==
  \A r \in Requests :
    /\ pc[r] = "new" => ask[r] = NoAsk
    /\ pc[r] \in {"user", "receipt", "asking"} => ask[r].kind = "identified"
    /\ pc[r] \in {"account", "execute", "staged"} =>
         ask[r].kind \in {"identified", "plain", "followup"}
    /\ pc[r] = "mutex" => ask[r].kind \in {"plain", "followup"}
    /\ pc[r] = "lookup" => ask[r].kind = "lookup"
    /\ pc[r] # "ended" => told[r] = Silent

\* Who holds which row.
LockInv ==
  \A r \in Requests :
    /\ pc[r] \in {"execute", "staged"} <=> accountLock = r
    /\ userLock = r => pc[r] \in {"receipt", "account", "execute", "staged"}
    /\ ask[r].kind = "identified" /\ pc[r] \in {"receipt", "account", "execute", "staged"}
         => userLock = r
    /\ r \in sharing => pc[r] = "staged"

\* There is one connection, or the one that is being created.
ConnectionInv ==
  /\ \A r \in Requests :
       staged[r].connection => conns = {} /\ userLock = r /\ accountLock = r
  /\ conns = {} /\ accountLock # None => staged[accountLock].connection
  /\ \A a, b \in conns : a = b

\* What is staged rests on the account as it is, and on the switch as it is.
StagedInv ==
  \A r \in Requests : pc[r] = "staged" =>
    /\ staged[r].at \in Requests
    /\ staged[r].what # "order" => staged[r].cash = cash /\ staged[r].held = held
    /\ ask[r].kind = "followup" => staged[r].what = "order"
    /\ ask[r].kind # "plain" =>
         /\ r \in sharing
         /\ <<staged[r].cash, staged[r].held>> # <<cash, held>> => ~halted

IInv ==
  /\ Types
  /\ PathInv
  /\ LockInv
  /\ ConnectionInv
  /\ StagedInv
  /\ RefusalIsOnRecord
-----------------------------------------------------------------------------
(* The fill policy. *)

LEMMA HalfIsWithin ==
  ASSUME NEW q \in Nat
  PROVE  Half(q) \in 0 .. q
<1>1. q \div 2 \in Nat /\ q % 2 \in 0 .. 1 /\ q = 2 * (q \div 2) + (q % 2)
  OBVIOUS
<1> QED
  BY <1>1 DEF Half

LEMMA FeeIsANumber ==
  ASSUME NEW gross \in Int
  PROVE  Fee(gross) \in Int
<1>1. gross \div FeePart \in Int /\ MinFee \in Int
  BY Prices
<1> DEFINE part == gross \div FeePart
<1>2. \E x \in {MinFee, part} : \A y \in {MinFee, part} : x >= y
  <2> HIDE DEF part
  <2>1. part \in Int /\ MinFee \in Int
    BY <1>1 DEF part
  <2>2. CASE MinFee >= part
    BY <2>1, <2>2
  <2>3. CASE part >= MinFee
    BY <2>1, <2>3
  <2> QED
    BY <2>1, <2>2, <2>3
<1>3. Max({MinFee, part}) \in {MinFee, part}
  <2> HIDE DEF part
  <2> QED
    BY <1>2 DEF Max
<1> QED
  BY <1>1, <1>3 DEF Fee

LEMMA FillIsWithinOrder ==
  ASSUME NEW side \in {"buy", "sell"}, NEW quantity \in Int,
         NEW profile \in {"standard", "partial_fill", "no_liquidity"},
         NEW d, d = EvaluatePaperFill(side, quantity, profile)
  PROVE  /\ d.outcome \in {"filled", "partially_filled", "rejected"}
         /\ d.filled \in Nat
         /\ quantity \in Nat => d.filled <= quantity
         /\ CashDelta(side, d) \in Int
         /\ d.outcome = "rejected" => d.filled = 0 /\ CashDelta(side, d) = 0
<1> DEFINE filled == IF profile = "partial_fill" THEN Half(quantity) ELSE quantity
           gross == FillPrice(side) * filled
<1>1. CASE profile = "no_liquidity" \/ quantity <= 0 \/ Quote = 0 \/ filled <= 0
  <2>1. d = Rejected
    BY <1>1 DEF EvaluatePaperFill
  <2> HIDE DEF filled, gross
  <2>2. d.outcome = "rejected" /\ d.filled = 0 /\ d.gross = 0 /\ d.fee = 0
    BY <2>1 DEF Rejected
  <2>3. CashDelta(side, d) = 0
    <3>1. d.gross + d.fee = 0 /\ d.gross - d.fee = 0
      BY <2>2
    <3>2. CashDelta(side, d) \in {-0, 0}
      BY <3>1 DEF CashDelta
    <3> QED
      BY <3>2
  <2> QED
    BY <2>2, <2>3
<1>2. CASE ~(profile = "no_liquidity" \/ quantity <= 0 \/ Quote = 0 \/ filled <= 0)
  <2>1. d = [outcome |-> IF profile = "partial_fill" THEN "partially_filled" ELSE "filled",
             filled |-> filled, gross |-> gross, fee |-> Fee(gross)]
    BY <1>2 DEF EvaluatePaperFill
  <2>2. quantity \in Nat
    BY <1>2
  <2>3. filled \in Nat /\ filled <= quantity
    BY <2>2, HalfIsWithin
  <2>4. FillPrice(side) \in Int
    BY Prices DEF FillPrice
  <2>5. gross \in Int
    <3> HIDE DEF filled
    <3> QED
      BY <2>3, <2>4
  <2>6. Fee(gross) \in Int
    <3> HIDE DEF gross
    <3> QED
      BY <2>5, FeeIsANumber
  <2> HIDE DEF filled, gross
  <2> QED
    BY <2>1, <2>3, <2>5, <2>6 DEF CashDelta
<1> QED
  BY <1>1, <1>2
-----------------------------------------------------------------------------
(* Records and what they are made of. *)

LEMMA NoOrderIsTyped == NoOrder \in PaperOrders
  BY DEF NoOrder, PaperOrders

LEMMA NothingIsTyped == Nothing \in StagedWork /\ Nothing.connection = FALSE
  BY NoOrderIsTyped DEF Nothing, StagedWork

LEMMA AskIsTyped ==
  ASSUME NEW a \in Asks
  PROVE  /\ a.kind \in {"none", "identified", "plain", "followup", "lookup"}
         /\ a.kind \in {"identified", "lookup"} => a.op \in Operations
         /\ a.kind \in {"identified", "plain"} => a.body \in Bodies
         /\ a.kind = "followup" => a.order \in Requests /\ a.quantity \in Nat \ {0}
         /\ a.kind = "none" => a = NoAsk
  BY DEF Asks, NoAsk

LEMMA NoFillIsTyped ==
  NoFill \in [filled : Nat, cash : Int] /\ NoFill.filled = 0 /\ NoFill.cash = 0
BY DEF NoFill

LEMMA InvInit == Init => IInv
<1> SUFFICES ASSUME Init PROVE IInv
  OBVIOUS
<1>1. Types
  BY NoOrderIsTyped, NothingIsTyped, NoFillIsTyped, Prices DEF Init, Types, Asks, Steps
<1>2. PathInv /\ LockInv
  BY NoneIsNothing DEF Init, PathInv, LockInv
<1>3. ConnectionInv
  BY NothingIsTyped DEF Init, ConnectionInv
<1>4. StagedInv /\ RefusalIsOnRecord
  BY DEF Init, StagedInv, RefusalIsOnRecord, NoAsk
<1> QED
  BY <1>1, <1>2, <1>3, <1>4 DEF IInv

\* A transaction ends without a commit.
Ends(r) ==
  /\ EndTransaction(r)
  /\ \/ Go(r, "ended")
     \/ /\ ask[r].kind = "identified"
        /\ Go(r, "asking")
        /\ UNCHANGED told
  /\ UNCHANGED told \/ \E says, op, body : Say(r, says, op, body)
  /\ evidence \subseteq evidence' /\ evidence' \subseteq evidence \cup {r}
  /\ ask[r].kind = "followup" /\ told'[r].says = "refused" => r \in evidence'
  /\ UNCHANGED <<cash, held, orders, stranded, receipt, conns, halted, ask>>

LEMMA EndIsSafe ==
  ASSUME IInv, NEW r \in Requests, Ends(r),
         pc[r] \in {"user", "receipt", "account", "mutex", "execute", "staged", "asking"}
  PROVE  IInv'
<1>1. DOMAIN told' = Requests /\ \A q \in Requests \ {r} : told'[q] = told[q]
  <2>1. CASE UNCHANGED told
    BY <2>1 DEF IInv, Types
  <2>2. CASE \E says, op, body : Say(r, says, op, body)
    BY <2>2 DEF IInv, Types, Say
  <2> QED
    BY <2>1, <2>2 DEF Ends
<1>2. /\ pc' \in [Requests -> Steps]
      /\ \A q \in Requests \ {r} : pc'[q] = pc[q]
      /\ pc'[r] = "ended" \/ (pc'[r] = "asking" /\ ask[r].kind = "identified" /\ told' = told)
  BY DEF IInv, Types, Ends, Go, Steps
<1>3. /\ staged' \in [Requests -> StagedWork]
      /\ \A q \in Requests \ {r} : staged'[q] = staged[q]
      /\ staged'[r] = Nothing
  BY NothingIsTyped DEF IInv, Types, Ends, EndTransaction
<1>4. /\ userLock' = IF userLock = r THEN None ELSE userLock
      /\ accountLock' = IF accountLock = r THEN None ELSE accountLock
      /\ sharing' = sharing \ {r}
  BY DEF Ends, EndTransaction
<1>5. UNCHANGED <<cash, held, orders, stranded, receipt, conns, halted, ask>>
  BY DEF Ends
<1>6. Types'
  BY <1>1, <1>2, <1>3, <1>4, <1>5 DEF IInv, Types, Ends
<1>7. PathInv'
  <2> SUFFICES ASSUME NEW q \in Requests
               PROVE  PathInv!(q)'
    BY DEF PathInv
  <2>1. CASE q = r
    BY <2>1, <1>2, <1>5 DEF IInv, PathInv
  <2>2. CASE q # r
    BY <2>2, <1>1, <1>2, <1>5 DEF IInv, PathInv
  <2> QED
    BY <2>1, <2>2
<1>8. LockInv'
  <2> SUFFICES ASSUME NEW q \in Requests
               PROVE  LockInv!(q)'
    BY DEF LockInv
  <2>1. CASE q = r
    BY <2>1, <1>2, <1>4, <1>5, NoneIsNothing DEF IInv, LockInv
  <2>2. CASE q # r
    BY <2>2, <1>2, <1>4, <1>5, NoneIsNothing DEF IInv, LockInv
  <2> QED
    BY <2>1, <2>2
<1>9. ConnectionInv'
  <2>1. ASSUME NEW q \in Requests, staged'[q].connection
        PROVE  conns' = {} /\ userLock' = q /\ accountLock' = q
    BY <2>1, <1>3, <1>4, <1>5, NothingIsTyped DEF IInv, ConnectionInv
  <2>2. ASSUME conns' = {}, accountLock' # None PROVE staged'[accountLock'].connection
    BY <2>2, <1>3, <1>4, <1>5 DEF IInv, ConnectionInv, Types
  <2> QED
    BY <2>1, <2>2, <1>5 DEF IInv, ConnectionInv
<1>10. StagedInv'
  BY <1>2, <1>3, <1>4, <1>5 DEF IInv, StagedInv
<1>11. RefusalIsOnRecord'
  <2> SUFFICES ASSUME NEW q \in Requests, ask[q].kind = "followup", told'[q].says = "refused"
               PROVE  q \in evidence'
    BY <1>5 DEF RefusalIsOnRecord
  <2>1. CASE q = r
    BY <2>1 DEF Ends
  <2>2. CASE q # r
    BY <2>2, <1>1 DEF IInv, RefusalIsOnRecord, Ends
  <2> QED
    BY <2>1, <2>2
<1> QED
  BY <1>6, <1>7, <1>8, <1>9, <1>10, <1>11 DEF IInv
\* A command is executed: what it will write is staged under the account's row.
LEMMA StageIsSafe ==
  ASSUME IInv, NEW r \in Requests, NEW s \in StagedWork,
         pc[r] = "execute", Stage(r, s), Go(r, "staged"), ShareSettings(r),
         s.at \in Requests,
         s.what # "order" => s.cash = cash /\ s.held = held,
         ask[r].kind = "followup" => s.what = "order",
         ask[r].kind # "plain" /\ <<s.cash, s.held>> # <<cash, held>> => ~halted,
         UNCHANGED <<saved, halted, userLock, accountLock, ask, told>>
  PROVE  IInv'
<1>1. /\ pc' \in [Requests -> Steps] /\ pc'[r] = "staged"
      /\ \A q \in Requests \ {r} : pc'[q] = pc[q]
  BY DEF IInv, Types, Go, Steps
<1>2. staged[r].connection \in BOOLEAN
  BY DEF IInv, Types, StagedWork
<1>3. PICK c \in BOOLEAN : c = staged[r].connection
  BY <1>2
<1>4. PICK t : t = [s EXCEPT !.connection = c]
  OBVIOUS
<1>5. /\ t \in StagedWork /\ t.connection = staged[r].connection
      /\ t.what = s.what /\ t.at = s.at /\ t.cash = s.cash /\ t.held = s.held
  BY <1>3, <1>4 DEF StagedWork
<1>6. /\ staged' \in [Requests -> StagedWork] /\ staged'[r] = t
      /\ \A q \in Requests \ {r} : staged'[q] = staged[q]
  <2>1. staged' = [staged EXCEPT ![r] = t]
    BY <1>3, <1>4 DEF Stage
  <2> QED
    BY <2>1, <1>5 DEF IInv, Types
<1>7. UNCHANGED <<cash, held, orders, stranded, receipt, conns, evidence, halted, userLock,
                  accountLock, ask, told>>
  BY DEF saved
<1>8. /\ sharing' \subseteq Requests /\ sharing' \subseteq sharing \cup {r}
      /\ sharing \subseteq sharing'
      /\ ask[r].kind # "plain" => r \in sharing'
  BY DEF ShareSettings, IInv, Types
<1>9. Types'
  BY <1>1, <1>6, <1>7, <1>8 DEF IInv, Types
<1>10. PathInv'
  <2> SUFFICES ASSUME NEW q \in Requests
               PROVE  PathInv!(q)'
    BY DEF PathInv
  <2>1. CASE q = r
    BY <2>1, <1>1, <1>7 DEF IInv, PathInv
  <2>2. CASE q # r
    BY <2>2, <1>1, <1>7 DEF IInv, PathInv
  <2> QED
    BY <2>1, <2>2
<1>11. LockInv'
  <2> SUFFICES ASSUME NEW q \in Requests
               PROVE  LockInv!(q)'
    BY DEF LockInv
  <2>1. CASE q = r
    BY <2>1, <1>1, <1>7 DEF IInv, LockInv
  <2>2. CASE q # r
    BY <2>2, <1>1, <1>7, <1>8 DEF IInv, LockInv
  <2> QED
    BY <2>1, <2>2
<1>12. ConnectionInv'
  <2>1. \A q \in Requests : staged'[q].connection = staged[q].connection
    BY <1>5, <1>6
  <2> QED
    BY <2>1, <1>7 DEF IInv, ConnectionInv, Types
<1>13. StagedInv'
  <2> SUFFICES ASSUME NEW q \in Requests, pc'[q] = "staged"
               PROVE  StagedInv!(q)!2'
    BY DEF StagedInv
  <2>1. CASE q = r
    BY <2>1, <1>5, <1>6, <1>7, <1>8
  <2>2. CASE q # r
    BY <2>2, <1>1, <1>6, <1>7, <1>8 DEF IInv, StagedInv
  <2> QED
    BY <2>1, <2>2
<1>14. RefusalIsOnRecord'
  BY <1>7 DEF IInv, RefusalIsOnRecord
<1> QED
  BY <1>9, <1>10, <1>11, <1>12, <1>13, <1>14 DEF IInv

\* A request that has begun comes to its command, lock by lock.
LEMMA BeginIsSafe ==
  ASSUME IInv, NEW r \in Requests, Begin(r)
  PROVE  IInv'
<1>1. UNCHANGED <<cash, held, orders, stranded, receipt, conns, evidence, halted, userLock,
                  accountLock, sharing, staged, told>>
  BY DEF Begin, saved, locks
<1>2. PICK a \in Asks, step \in {"user", "account", "lookup"} :
        /\ ask' = [ask EXCEPT ![r] = a]
        /\ Go(r, step)
        /\ \/ step = "user" /\ a.kind = "identified"
           \/ step = "account" /\ a.kind \in {"plain", "followup"}
           \/ step = "lookup" /\ a.kind = "lookup"
  <2>1. ASSUME NEW op \in Operations, NEW b \in Bodies
        PROVE  [NoAsk EXCEPT !.kind = "identified", !.op = op, !.body = b] \in Asks
    BY DEF NoAsk, Asks
  <2>2. ASSUME NEW b \in Bodies
        PROVE  [NoAsk EXCEPT !.kind = "plain", !.body = b] \in Asks
    BY DEF NoAsk, Asks
  <2>3. ASSUME NEW o \in Requests, NEW n \in 1 .. orders[o].quantity - orders[o].filled
        PROVE  [NoAsk EXCEPT !.kind = "followup", !.order = o, !.quantity = n] \in Asks
    <3>1. orders[o].quantity \in Nat /\ orders[o].filled \in Nat
      BY DEF IInv, Types, PaperOrders
    <3>2. n \in Nat \ {0}
      BY <3>1
    <3> QED
      BY <3>2 DEF NoAsk, Asks
  <2>4. ASSUME NEW op \in Operations
        PROVE  [NoAsk EXCEPT !.kind = "lookup", !.op = op] \in Asks
    BY DEF NoAsk, Asks
  <2> QED
    BY <2>1, <2>2, <2>3, <2>4 DEF Begin, NoAsk
<1>3. pc[r] = "new"
  BY DEF Begin
<1>4. /\ pc' \in [Requests -> Steps] /\ pc'[r] = step
      /\ \A q \in Requests \ {r} : pc'[q] = pc[q]
      /\ ask' \in [Requests -> Asks] /\ ask'[r] = a
      /\ \A q \in Requests \ {r} : ask'[q] = ask[q]
  BY <1>2 DEF IInv, Types, Go, Steps
<1>5. Types'
  BY <1>1, <1>4 DEF IInv, Types
<1>6. PathInv'
  BY <1>1, <1>2, <1>3, <1>4 DEF IInv, PathInv
<1>7. LockInv'
  <2> SUFFICES ASSUME NEW q \in Requests
               PROVE  LockInv!(q)'
    BY DEF LockInv
  <2>1. CASE q = r
    BY <2>1, <1>1, <1>2, <1>3, <1>4 DEF IInv, LockInv
  <2>2. CASE q # r
    BY <2>2, <1>1, <1>4 DEF IInv, LockInv
  <2> QED
    BY <2>1, <2>2
<1>8. ConnectionInv'
  BY <1>1 DEF IInv, ConnectionInv
<1>9. StagedInv'
  BY <1>1, <1>2, <1>3, <1>4 DEF IInv, StagedInv
<1>10. RefusalIsOnRecord'
  BY <1>1, <1>3, <1>4 DEF IInv, RefusalIsOnRecord, PathInv, Silent
<1> QED
  BY <1>5, <1>6, <1>7, <1>8, <1>9, <1>10 DEF IInv
\* A request takes a row, or goes on to the next.
LEMMA MoveIsSafe ==
  ASSUME IInv, NEW r \in Requests,
         TakeUser(r) \/ CreateConnection(r) \/ LockPaperConnection(r)
           \/ (pc[r] = "receipt" /\ Go(r, "account")
               /\ UNCHANGED <<saved, halted, locks, ask, staged, told>>)
  PROVE  IInv'
<1>1. UNCHANGED <<cash, held, orders, stranded, receipt, conns, evidence, halted, sharing,
                  ask, told>>
  BY DEF TakeUser, CreateConnection, LockPaperConnection, saved, locks
<1>2. PICK step \in {"receipt", "account", "mutex", "execute"} : Go(r, step)
  BY DEF TakeUser, CreateConnection, LockPaperConnection
<1>3. /\ pc' \in [Requests -> Steps] /\ pc'[r] = step
      /\ \A q \in Requests \ {r} : pc'[q] = pc[q]
  BY <1>2 DEF IInv, Types, Go, Steps
<1>4. /\ \/ UNCHANGED staged
         \/ /\ staged' = [staged EXCEPT ![r].connection = TRUE]
            /\ conns = {} /\ userLock = r /\ userLock' = r /\ accountLock' = r
      /\ userLock' = userLock \/ (userLock = None /\ userLock' = r)
      /\ \/ accountLock' = accountLock
         \/ accountLock' = r /\ (conns # {} \/ userLock = r)
  BY DEF TakeUser, CreateConnection, LockPaperConnection, locks
<1>5. /\ staged' \in [Requests -> StagedWork]
      /\ \A q \in Requests \ {r} : staged'[q] = staged[q]
      /\ UNCHANGED staged \/ staged'[r].connection
  <2>1. CASE UNCHANGED staged
    BY <2>1 DEF IInv, Types
  <2>2. CASE staged' = [staged EXCEPT ![r].connection = TRUE]
    <3>1. staged[r] \in StagedWork
      BY DEF IInv, Types
    <3>2. PICK s : s = [staged[r] EXCEPT !.connection = TRUE]
      OBVIOUS
    <3>3. s \in StagedWork /\ s.connection
      BY <3>1, <3>2 DEF StagedWork
    <3>4. staged' = [staged EXCEPT ![r] = s]
      BY <2>2, <3>2
    <3> QED
      BY <3>3, <3>4 DEF IInv, Types
  <2> QED
    BY <1>4, <2>1, <2>2
<1>6. Types'
  BY <1>1, <1>3, <1>4, <1>5 DEF IInv, Types
<1>7. \/ pc[r] = "user" /\ step = "receipt" /\ userLock' = r /\ UNCHANGED <<accountLock, staged>>
      \/ /\ pc[r] = "mutex" /\ step = "account" /\ userLock' = r
         /\ UNCHANGED <<accountLock, staged>>
      \/ pc[r] = "receipt" /\ step = "account" /\ UNCHANGED <<userLock, accountLock, staged>>
      \/ /\ pc[r] = "account" /\ step = "mutex" /\ userLock # r
         /\ UNCHANGED <<userLock, accountLock, staged>>
      \/ /\ pc[r] = "account" /\ step = "execute" /\ accountLock' = r /\ UNCHANGED userLock
         /\ \/ accountLock = None /\ conns # {}
            \/ conns = {} /\ userLock = r /\ staged'[r].connection
  <2>1. CASE TakeUser(r)
    BY <2>1, <1>3 DEF TakeUser, Go, IInv, Types
  <2>2. CASE CreateConnection(r)
    <3>1. CASE userLock = r
      <4>1. staged' = [staged EXCEPT ![r].connection = TRUE] /\ accountLock' = r
            /\ Go(r, "execute") /\ UNCHANGED userLock /\ pc[r] = "account" /\ conns = {}
        BY <2>2, <3>1 DEF CreateConnection
      <4>2. staged'[r].connection
        BY <4>1 DEF IInv, Types, StagedWork
      <4>3. step = "execute"
        BY <4>1, <1>3 DEF Go, IInv, Types
      <4> QED
        BY <3>1, <4>1, <4>2, <4>3
    <3>2. CASE userLock # r
      BY <2>2, <3>2, <1>3 DEF CreateConnection, Go, IInv, Types
    <3> QED
      BY <3>1, <3>2
  <2>3. CASE LockPaperConnection(r)
    BY <2>3, <1>3 DEF LockPaperConnection, Go, IInv, Types
  <2>4. CASE pc[r] = "receipt" /\ Go(r, "account")
             /\ UNCHANGED <<saved, halted, locks, ask, staged, told>>
    BY <2>4, <1>3 DEF locks, Go, IInv, Types
  <2> QED
    BY <2>1, <2>2, <2>3, <2>4
<1>8. PathInv'
  <2> SUFFICES ASSUME NEW q \in Requests
               PROVE  PathInv!(q)'
    BY DEF PathInv
  <2>1. CASE q = r
    <3>1. PathInv!(r) /\ LockInv!(r)
      BY DEF IInv, PathInv, LockInv
    <3> QED
      BY <2>1, <3>1, <1>1, <1>3, <1>7
  <2>2. CASE q # r
    BY <2>2, <1>1, <1>3 DEF IInv, PathInv
  <2> QED
    BY <2>1, <2>2
<1>9. LockInv'
  <2> SUFFICES ASSUME NEW q \in Requests
               PROVE  LockInv!(q)'
    BY DEF LockInv
  <2>0. conns = {} /\ userLock = r /\ accountLock # None => accountLock = r
    BY DEF IInv, ConnectionInv, Types
  <2>1. LockInv!(q) /\ LockInv!(r) /\ PathInv!(r)
    BY DEF IInv, LockInv, PathInv
  <2>2. CASE q = r
    BY <2>1, <2>2, <1>1, <1>3, <1>4, <1>7, NoneIsNothing
  <2>3. CASE q # r
    BY <2>0, <2>1, <2>3, <1>1, <1>3, <1>4, <1>7, NoneIsNothing
  <2> QED
    BY <2>2, <2>3
<1>10. ConnectionInv'
  <2>0. /\ \A q \in Requests :
             staged[q].connection => conns = {} /\ userLock = q /\ accountLock = q
        /\ conns = {} /\ accountLock # None => staged[accountLock].connection
        /\ pc[r] = "account" => accountLock # r
        /\ pc[r] \in {"user", "mutex"} => userLock # r
        /\ accountLock \in Requests \cup {None}
    BY DEF IInv, ConnectionInv, LockInv, Types
  <2>1. ASSUME NEW q \in Requests, staged'[q].connection
        PROVE  conns' = {} /\ userLock' = q /\ accountLock' = q
    BY <2>0, <2>1, <1>1, <1>4, <1>5, <1>7, NoneIsNothing
  <2>2. ASSUME conns' = {}, accountLock' # None PROVE staged'[accountLock'].connection
    BY <2>0, <2>2, <1>1, <1>4, <1>5, <1>7, NoneIsNothing
  <2> QED
    BY <2>1, <2>2, <1>1 DEF IInv, ConnectionInv
<1>11. StagedInv'
  BY <1>1, <1>3, <1>5 DEF IInv, StagedInv
<1>12. RefusalIsOnRecord'
  BY <1>1 DEF IInv, RefusalIsOnRecord
<1> QED
  BY <1>6, <1>8, <1>9, <1>10, <1>11, <1>12 DEF IInv
\* A request that holds nothing is told what the receipt says, or that nothing is known.
LEMMA AnswerIsSafe ==
  ASSUME IInv, NEW r \in Requests, pc[r] \in {"asking", "lookup"}, Go(r, "ended"),
         NEW says, NEW op, NEW body, Say(r, says, op, body),
         UNCHANGED <<saved, halted, locks, ask, staged>>
  PROVE  IInv'
<1>1. UNCHANGED <<cash, held, orders, stranded, receipt, conns, evidence, halted, userLock,
                  accountLock, sharing, ask, staged>>
  BY DEF saved, locks
<1>2. /\ pc' \in [Requests -> Steps] /\ pc'[r] = "ended"
      /\ \A q \in Requests \ {r} : pc'[q] = pc[q]
  BY DEF IInv, Types, Go, Steps
<1>3. DOMAIN told' = Requests /\ \A q \in Requests \ {r} : told'[q] = told[q]
  BY DEF IInv, Types, Say
<1>4. ask[r].kind \in {"identified", "lookup"}
  BY DEF IInv, PathInv
<1>5. Types'
  BY <1>1, <1>2, <1>3 DEF IInv, Types
<1>6. PathInv'
  BY <1>1, <1>2, <1>3 DEF IInv, PathInv
<1>7. LockInv'
  BY <1>1, <1>2 DEF IInv, LockInv
<1>8. ConnectionInv'
  BY <1>1 DEF IInv, ConnectionInv
<1>9. StagedInv'
  BY <1>1, <1>2 DEF IInv, StagedInv
<1>10. RefusalIsOnRecord'
  BY <1>1, <1>3, <1>4 DEF IInv, RefusalIsOnRecord
<1> QED
  BY <1>5, <1>6, <1>7, <1>8, <1>9, <1>10 DEF IInv

\* The update of the switch waits for whoever has staged something that rests on it.
LEMMA SwitchIsSafe == IInv /\ Switch => IInv'
<1> SUFFICES ASSUME IInv, Switch PROVE IInv'
  OBVIOUS
<1>1. UNCHANGED <<cash, held, orders, stranded, receipt, conns, evidence, userLock,
                  accountLock, sharing, ask, pc, staged, told>>
  BY DEF Switch, saved, locks
<1>2. halted' \in BOOLEAN /\ sharing = {}
  BY DEF Switch, IInv, Types
<1>3. Types'
  BY <1>1, <1>2 DEF IInv, Types
<1>4. PathInv' /\ LockInv'
  BY <1>1 DEF IInv, PathInv, LockInv
<1>5. ConnectionInv'
  BY <1>1 DEF IInv, ConnectionInv
<1>6. StagedInv'
  BY <1>1, <1>2 DEF IInv, StagedInv
<1>7. RefusalIsOnRecord'
  BY <1>1 DEF IInv, RefusalIsOnRecord
<1> QED
  BY <1>3, <1>4, <1>5, <1>6, <1>7 DEF IInv

LEMMA AcceptedMeans ==
  ASSUME NEW b \in Bodies, NEW d, NEW limit, ~BusinessRefusal(b, d, limit)
  PROVE  b.quantity \in Nat /\ ~halted
<1>1. b.quantity \in Int
  BY CommandsAreTyped
<1> QED
  BY <1>1 DEF BusinessRefusal, RiskRefuses

\* What a fill leaves is neither less than nothing nor more than was asked for.
LEMMA EffectsAreWhole ==
  ASSUME Types, NEW side \in {"buy", "sell"}, NEW quantity \in Int,
         NEW profile \in {"standard", "partial_fill", "no_liquidity"},
         NEW d, d = EvaluatePaperFill(side, quantity, profile),
         d.outcome = "rejected" \/ EffectsAllowed(side, d)
  PROVE  cash + CashDelta(side, d) \in Nat /\ held + HeldDelta(side, d) \in Nat
<1>1. /\ d.filled \in Nat /\ CashDelta(side, d) \in Int
      /\ d.outcome = "rejected" => d.filled = 0 /\ CashDelta(side, d) = 0
  BY FillIsWithinOrder
<1>2. cash \in Nat /\ held \in Nat
  BY DEF Types
<1>3. CASE d.outcome = "rejected"
  BY <1>1, <1>2, <1>3 DEF HeldDelta
<1>4. CASE EffectsAllowed(side, d)
  BY <1>1, <1>2, <1>4 DEF EffectsAllowed, HeldDelta
<1> QED
  BY <1>3, <1>4

LEMMA NewOrderIsTyped ==
  ASSUME NEW b \in Bodies, NEW d, d = EvaluatePaperFill(b.side, b.quantity, b.profile),
         b.quantity \in Nat
  PROVE  NewOrder(b, d) \in PaperOrders
<1>1. /\ b.side \in {"buy", "sell"} /\ b.quantity \in Int
      /\ b.profile \in {"standard", "partial_fill", "no_liquidity"}
  BY CommandsAreTyped
<1>2. /\ d.outcome \in {"filled", "partially_filled", "rejected"}
      /\ d.filled \in Nat /\ d.filled <= b.quantity /\ CashDelta(b.side, d) \in Int
  BY <1>1, FillIsWithinOrder
<1> QED
  BY <1>1, <1>2 DEF NewOrder, PaperOrders

LEMMA ExecuteIsSafe ==
  ASSUME IInv, NEW r \in Requests, Execute(r)
  PROVE  IInv'
<1>1. /\ pc[r] = "execute" /\ ask[r].kind \in {"identified", "plain"}
      /\ UNCHANGED <<saved, halted, ask, told>>
  BY DEF Execute
<1>2. ask[r].body \in Bodies
  BY <1>1, AskIsTyped DEF IInv, Types
<1>3. PICK b \in Bodies : b = ask[r].body
  BY <1>2
<1>4. PICK d : d = EvaluatePaperFill(b.side, b.quantity, b.profile)
  OBVIOUS
<1>5. /\ b.side \in {"buy", "sell"} /\ b.quantity \in Int
      /\ b.profile \in {"standard", "partial_fill", "no_liquidity"}
  BY CommandsAreTyped
<1>6. PICK limit \in Limits :
        \/ /\ Stage(r, Refusal(r)) /\ Go(r, "staged") /\ ShareSettings(r)
           /\ UNCHANGED <<userLock, accountLock>>
        \/ /\ ~BusinessRefusal(b, d, limit)
           /\ d.outcome = "rejected" \/ EffectsAllowed(b.side, d)
           /\ Stage(r, WithEffects(r, b, d)) /\ Go(r, "staged") /\ ShareSettings(r)
           /\ UNCHANGED <<userLock, accountLock>>
        \/ /\ ~BusinessRefusal(b, d, limit)
           /\ ask[r].kind = "plain"
           /\ Stage(r, WithoutEffects(r, b, d)) /\ Go(r, "staged") /\ UNCHANGED locks
        \/ /\ ask[r].kind # "plain" /\ EndTransaction(r) /\ Go(r, "asking")
  BY <1>1, <1>3, <1>4 DEF Execute
<1>7. cash \in Nat /\ held \in Nat
  BY DEF IInv, Types
<1>8. CASE Stage(r, Refusal(r)) /\ Go(r, "staged") /\ ShareSettings(r)
           /\ UNCHANGED <<userLock, accountLock>>
  <2>1. Refusal(r) \in StagedWork
    BY <1>7, NoOrderIsTyped DEF Refusal, Nothing, StagedWork
  <2>2. /\ Refusal(r).at = r /\ Refusal(r).what = "refusal"
        /\ Refusal(r).cash = cash /\ Refusal(r).held = held
    BY DEF Refusal, Nothing
  <2> QED
    BY <1>1, <1>8, <2>1, <2>2, StageIsSafe
<1>9. CASE /\ ~BusinessRefusal(b, d, limit)
           /\ d.outcome = "rejected" \/ EffectsAllowed(b.side, d)
           /\ Stage(r, WithEffects(r, b, d)) /\ Go(r, "staged") /\ ShareSettings(r)
           /\ UNCHANGED <<userLock, accountLock>>
  <2>1. b.quantity \in Nat /\ ~halted
    BY <1>9, AcceptedMeans
  <2>2. NewOrder(b, d) \in PaperOrders
    BY <1>4, <2>1, NewOrderIsTyped
  <2>3. cash + CashDelta(b.side, d) \in Nat /\ held + HeldDelta(b.side, d) \in Nat
    BY <1>4, <1>5, <1>9, EffectsAreWhole DEF IInv
  <2>4. PICK s : s = WithEffects(r, b, d)
    OBVIOUS
  <2>5. s \in StagedWork /\ s.at = r /\ s.what = "order"
    BY <2>2, <2>3, <2>4 DEF WithEffects, Nothing, StagedWork
  <2>6. Stage(r, s)
    BY <1>9, <2>4
  <2> QED
    BY <1>1, <1>9, <2>1, <2>5, <2>6, StageIsSafe
<1>10. CASE /\ ~BusinessRefusal(b, d, limit)
            /\ ask[r].kind = "plain"
            /\ Stage(r, WithoutEffects(r, b, d)) /\ Go(r, "staged") /\ UNCHANGED locks
  <2>1. b.quantity \in Nat
    BY <1>10, AcceptedMeans
  <2>2. NewOrder(b, d) \in PaperOrders
    BY <1>4, <2>1, NewOrderIsTyped
  <2>3. PICK s : s = WithoutEffects(r, b, d)
    OBVIOUS
  <2>4. s \in StagedWork /\ s.at = r /\ s.cash = cash /\ s.held = held
    BY <1>7, <2>2, <2>3 DEF WithoutEffects, Nothing, StagedWork
  <2>5. Stage(r, s) /\ ShareSettings(r) /\ UNCHANGED <<userLock, accountLock>>
    BY <1>10, <2>3 DEF ShareSettings, locks
  <2> QED
    BY <1>1, <1>10, <2>4, <2>5, StageIsSafe
<1>11. CASE ask[r].kind # "plain" /\ EndTransaction(r) /\ Go(r, "asking")
  <2>1. Ends(r)
    BY <1>1, <1>11 DEF Ends, saved
  <2> QED
    BY <1>1, <2>1, EndIsSafe
<1> QED
  BY <1>6, <1>8, <1>9, <1>10, <1>11
LEMMA FillIsSafe ==
  ASSUME IInv, NEW r \in Requests, FillPartialOrder(r)
  PROVE  IInv'
<1>1. /\ pc[r] = "execute" /\ ask[r].kind = "followup"
      /\ UNCHANGED <<cash, held, orders, stranded, receipt, conns, halted, ask>>
  BY DEF FillPartialOrder
<1>2. ask[r].order \in Requests /\ ask[r].quantity \in Nat \ {0}
  BY <1>1, AskIsTyped DEF IInv, Types
<1>3. PICK n \in Nat \ {0} : n = ask[r].quantity
  BY <1>2
<1>4. PICK o \in PaperOrders : o = orders[ask[r].order]
  BY <1>2 DEF IInv, Types
<1> DEFINE profile == "standard"
<1>5. PICK d : d = EvaluatePaperFill(o.side, n, profile)
  OBVIOUS
<1>6. PICK delta : delta = CashDelta(o.side, d)
  OBVIOUS
<1>7. PICK after :
        after = [o EXCEPT !.filled = o.filled + d.filled, !.cash = @ + delta,
                          !.status = IF o.filled + d.filled = o.quantity THEN "filled" ELSE @]
  OBVIOUS
<1>8. PICK s :
        s = [Nothing EXCEPT !.what = "order", !.order = after, !.at = ask[r].order,
               !.cash = cash + delta, !.held = held + HeldDelta(o.side, d)]
  OBVIOUS
<1>9. \/ /\ n <= o.quantity - o.filled /\ ~halted /\ EffectsAllowed(o.side, d)
         /\ Stage(r, s) /\ Go(r, "staged") /\ ShareSettings(r)
         /\ UNCHANGED <<userLock, accountLock, evidence, told>>
      \/ PersistRejection(r) /\ EndTransaction(r) /\ Go(r, "ended")
      \/ /\ Say(r, "failed", None, None) /\ EndTransaction(r) /\ Go(r, "ended")
         /\ UNCHANGED evidence
  BY <1>3, <1>4, <1>5, <1>6, <1>7, <1>8 DEF FillPartialOrder, FitsRemainder
<1>10. CASE /\ n <= o.quantity - o.filled /\ ~halted /\ EffectsAllowed(o.side, d)
            /\ Stage(r, s) /\ Go(r, "staged") /\ ShareSettings(r)
            /\ UNCHANGED <<userLock, accountLock, evidence, told>>
  <2>1. /\ o.side \in {"buy", "sell"} /\ o.quantity \in Nat /\ o.filled \in Nat
        /\ o.status \in {"absent", "filled", "partially_filled", "rejected"} /\ o.cash \in Int
    BY DEF PaperOrders
  <2>2. d.filled \in Nat /\ d.filled <= n /\ delta \in Int
    <3>1. n \in Int /\ n \in Nat /\ profile \in {"standard", "partial_fill", "no_liquidity"}
      OBVIOUS
    <3> HIDE DEF profile
    <3> QED
      BY <1>5, <1>6, <2>1, <3>1, FillIsWithinOrder
  <2>3. o.filled + d.filled \in Nat /\ o.filled + d.filled <= o.quantity
    BY <1>10, <2>1, <2>2
  <2>4. after \in PaperOrders
    <3>1. PICK status \in {"absent", "filled", "partially_filled", "rejected"} :
            after = [o EXCEPT !.filled = o.filled + d.filled, !.cash = @ + delta,
                              !.status = status]
      BY <1>7, <2>1
    <3>2. PICK filled \in Nat, paid \in Int :
            /\ filled = o.filled + d.filled /\ paid = o.cash + delta
            /\ filled <= o.quantity
      BY <2>1, <2>2, <2>3
    <3>3. after = [o EXCEPT !.filled = filled, !.cash = paid, !.status = status]
      BY <3>1, <3>2
    <3> QED
      BY <3>2, <3>3 DEF PaperOrders
  <2>5. cash + delta \in Nat /\ held + HeldDelta(o.side, d) \in Nat
    <3>1. n \in Int /\ profile \in {"standard", "partial_fill", "no_liquidity"}
      OBVIOUS
    <3> HIDE DEF profile
    <3> QED
      BY <1>5, <1>6, <1>10, <2>1, <3>1, EffectsAreWhole DEF IInv
  <2>6. s \in StagedWork /\ s.at = ask[r].order /\ s.what = "order"
    BY <1>2, <1>8, <2>4, <2>5 DEF Nothing, StagedWork
  <2>7. UNCHANGED <<saved, halted, userLock, accountLock, ask, told>>
    BY <1>1, <1>10 DEF saved
  <2> QED
    BY <1>1, <1>2, <1>10, <2>6, <2>7, StageIsSafe
<1>11. CASE PersistRejection(r) /\ EndTransaction(r) /\ Go(r, "ended")
  <2>1. /\ \E says, op, body : Say(r, says, op, body)
        /\ evidence \subseteq evidence' /\ evidence' \subseteq evidence \cup {r}
    BY <1>11 DEF PersistRejection
  <2>2. told'[r].says = "refused" => r \in evidence'
    <3>1. CASE evidence' = evidence \cup {r}
      BY <3>1
    <3>2. CASE Say(r, "audit unavailable", None, None)
      BY <3>2 DEF Say, IInv, Types
    <3> QED
      BY <1>11, <3>1, <3>2 DEF PersistRejection
  <2>3. Ends(r)
    BY <1>1, <1>11, <2>1, <2>2 DEF Ends
  <2> QED
    BY <1>1, <2>3, EndIsSafe
<1>12. CASE /\ Say(r, "failed", None, None) /\ EndTransaction(r) /\ Go(r, "ended")
            /\ UNCHANGED evidence
  <2>1. told'[r].says = "failed" /\ \E says, op, body : Say(r, says, op, body)
    BY <1>12 DEF Say, IInv, Types
  <2>2. Ends(r)
    BY <1>1, <1>12, <2>1 DEF Ends
  <2> QED
    BY <1>1, <2>2, EndIsSafe
<1> QED
  BY <1>9, <1>10, <1>11, <1>12

\* What a commit does, in terms of the account and of the request.
LEMMA CommitDoes ==
  ASSUME IInv, NEW r \in Requests, Commit(r)
  PROVE  /\ pc[r] = "staged" /\ accountLock = r
         /\ cash' = staged[r].cash /\ held' = staged[r].held
         /\ cash' \in Nat /\ held' \in Nat
         /\ pc' \in [Requests -> Steps]
         /\ pc'[r] = "ended" \/ (pc'[r] = "asking" /\ ask[r].kind = "identified" /\ told' = told)
         /\ \A q \in Requests \ {r} : pc'[q] = pc[q]
         /\ UNCHANGED <<evidence, halted, ask>>
<1>1. staged[r] \in StagedWork
  BY DEF IInv, Types
<1>2. staged[r].cash \in Nat /\ staged[r].held \in Nat
  BY <1>1 DEF StagedWork
<1>3. PICK step \in {"ended", "asking"} :
        /\ Go(r, step)
        /\ step = "asking" => ask[r].kind = "identified" /\ told' = told
  BY DEF Commit
<1>4. /\ pc' \in [Requests -> Steps] /\ pc'[r] = step
      /\ \A q \in Requests \ {r} : pc'[q] = pc[q]
  BY <1>3 DEF IInv, Types, Go, Steps
<1>5. pc[r] = "staged" /\ cash' = staged[r].cash /\ held' = staged[r].held
      /\ UNCHANGED <<evidence, halted, ask>>
  BY DEF Commit
<1>6. accountLock = r
  BY <1>5 DEF IInv, LockInv
<1> QED
  BY <1>2, <1>3, <1>4, <1>5, <1>6

LEMMA CommitTypes ==
  ASSUME IInv, NEW r \in Requests, Commit(r)
  PROVE  Types'
<1>1. /\ cash' \in Nat /\ held' \in Nat /\ pc' \in [Requests -> Steps]
      /\ UNCHANGED <<evidence, halted, ask>> /\ pc[r] = "staged"
  BY CommitDoes
<1>2. staged[r] \in StagedWork /\ staged[r].at \in Requests
  BY <1>1 DEF IInv, Types, StagedInv
<1>3. staged[r].order \in PaperOrders /\ staged[r].cash \in Nat /\ staged[r].held \in Nat
  BY <1>2 DEF StagedWork
<1>4. orders' \in [Requests -> PaperOrders]
  BY <1>2, <1>3 DEF Commit, IInv, Types
<1>5. conns' \subseteq Requests
  BY <1>2 DEF Commit, IInv, Types
<1>9. stranded' \in [Requests -> [filled : Nat, cash : Int]]
  <2>1. staged[r].order.filled \in Nat /\ staged[r].order.cash \in Int
    BY <1>3 DEF PaperOrders
  <2> QED
    BY <2>1 DEF Commit, IInv, Types
<1>6. receipt' \in [Operations -> Receipts \cup {None}]
  <2>1. CASE ask[r].kind = "identified"
    <3>1. ask[r].body \in Bodies
      BY <2>1, AskIsTyped DEF IInv, Types
    <3>2. ReceiptOf(r) \in Receipts
      BY <1>3, <3>1 DEF ReceiptOf, Receipts, IInv, Types
    <3> QED
      BY <2>1, <3>2 DEF Commit, RecordReceipt, IInv, Types
  <2>2. CASE ask[r].kind # "identified"
    BY <2>2 DEF Commit, RecordReceipt, IInv, Types
  <2> QED
    BY <2>1, <2>2
<1>7. /\ userLock' \in Requests \cup {None} /\ accountLock' \in Requests \cup {None}
      /\ sharing' \subseteq Requests
      /\ staged' \in [Requests -> StagedWork]
  BY NothingIsTyped DEF Commit, EndTransaction, IInv, Types
<1>8. DOMAIN told' = Requests
  BY DEF Commit, Say, IInv, Types
<1> QED
  BY <1>1, <1>4, <1>5, <1>6, <1>7, <1>8, <1>9 DEF IInv, Types

LEMMA CommitIsSafe ==
  ASSUME IInv, NEW r \in Requests, Commit(r)
  PROVE  IInv'
<1>1. /\ pc[r] = "staged" /\ accountLock = r
      /\ pc'[r] = "ended" \/ (pc'[r] = "asking" /\ ask[r].kind = "identified" /\ told' = told)
      /\ \A q \in Requests \ {r} : pc'[q] = pc[q]
      /\ UNCHANGED <<evidence, halted, ask>>
  BY CommitDoes
<1>2. \A q \in Requests \ {r} : told'[q] = told[q]
  BY DEF Commit, Say, IInv, Types
<1>3. /\ staged'[r] = Nothing
      /\ \A q \in Requests \ {r} : staged'[q] = staged[q]
      /\ userLock' = IF userLock = r THEN None ELSE userLock
      /\ accountLock' = None
      /\ sharing' = sharing \ {r}
  BY <1>1 DEF Commit, EndTransaction, IInv, Types
<1>4. conns' = IF staged[r].connection THEN conns \cup {r} ELSE conns
  BY DEF Commit
<1>5. PathInv'
  <2> SUFFICES ASSUME NEW q \in Requests
               PROVE  PathInv!(q)'
    BY DEF PathInv
  <2>1. CASE q = r
    BY <2>1, <1>1 DEF IInv, PathInv
  <2>2. CASE q # r
    BY <2>2, <1>1, <1>2 DEF IInv, PathInv
  <2> QED
    BY <2>1, <2>2
<1>6. LockInv'
  <2> SUFFICES ASSUME NEW q \in Requests
               PROVE  LockInv!(q)'
    BY DEF LockInv
  <2>1. CASE q = r
    BY <2>1, <1>1, <1>3, NoneIsNothing DEF IInv, LockInv
  <2>2. CASE q # r
    BY <2>2, <1>1, <1>3, NoneIsNothing DEF IInv, LockInv
  <2> QED
    BY <2>1, <2>2
<1>7. ConnectionInv'
  <2>1. ASSUME NEW q \in Requests, staged'[q].connection PROVE FALSE
    <3>1. q # r
      BY <2>1, <1>3, NothingIsTyped
    <3> QED
      BY <2>1, <3>1, <1>1, <1>3 DEF IInv, ConnectionInv
  <2>2. ASSUME NEW a \in conns', NEW b \in conns' PROVE a = b
    BY <2>2, <1>4 DEF IInv, ConnectionInv
  <2> QED
    BY <2>1, <2>2, <1>3 DEF ConnectionInv
<1>8. StagedInv'
  <2>1. ASSUME NEW q \in Requests, pc'[q] = "staged" PROVE FALSE
    BY <2>1, <1>1 DEF IInv, LockInv
  <2> QED
    BY <2>1 DEF StagedInv
<1>9. RefusalIsOnRecord'
  <2> SUFFICES ASSUME NEW q \in Requests, ask[q].kind = "followup", told'[q].says = "refused"
               PROVE  q \in evidence'
    BY <1>1 DEF RefusalIsOnRecord
  <2>1. CASE q = r
    <3>1. staged[r].what = "order" /\ told[r] = Silent
      BY <2>1, <1>1 DEF IInv, StagedInv, PathInv
    <3>2. told' = told \/ Say(r, "done", None, None)
      BY <2>1, <3>1 DEF Commit
    <3>3. told'[r].says # "refused"
      BY <3>1, <3>2 DEF Say, Silent, IInv, Types
    <3> QED
      BY <2>1, <3>3
  <2>2. CASE q # r
    BY <2>2, <1>1, <1>2 DEF IInv, RefusalIsOnRecord
  <2> QED
    BY <2>1, <2>2
<1> QED
  BY CommitTypes, <1>5, <1>6, <1>7, <1>8, <1>9 DEF IInv
\* A transaction that fails, dies, or reads the receipt of an earlier one, ends.
LEMMA ReadReceiptIsSafe ==
  ASSUME IInv, NEW r \in Requests, ReadReceipt(r)
  PROVE  IInv'
<1>1. ask[r].kind = "identified"
  BY DEF ReadReceipt, IInv, PathInv
<1>2. CASE Go(r, "account") /\ UNCHANGED <<locks, staged, told>>
  BY <1>2, MoveIsSafe DEF ReadReceipt
<1>3. CASE AnswerFromReceipt(r, ask[r].op) /\ EndTransaction(r) /\ Go(r, "ended")
  <2>1. \E says, op, body : Say(r, says, op, body)
    BY <1>3 DEF AnswerFromReceipt, SayReceipt
  <2>2. Ends(r)
    BY <1>1, <1>3, <2>1 DEF ReadReceipt, Ends, saved
  <2> QED
    BY <2>2, EndIsSafe DEF ReadReceipt
<1> QED
  BY <1>2, <1>3 DEF ReadReceipt

LEMMA FailIsSafe ==
  ASSUME IInv, NEW r \in Requests, Fail(r) \/ Die(r)
  PROVE  IInv'
<1>1. /\ pc[r] \in {"user", "receipt", "account", "mutex", "execute", "staged", "asking"}
      /\ EndTransaction(r) /\ UNCHANGED <<saved, halted, ask, told>>
      /\ Go(r, "ended") \/ (ask[r].kind = "identified" /\ Go(r, "asking"))
  BY DEF Fail, Die, Working
<1>2. told[r].says # "refused"
  <2>1. told[r] = Silent
    BY <1>1 DEF IInv, PathInv
  <2> QED
    BY <2>1 DEF Silent
<1>3. Ends(r)
  BY <1>1, <1>2 DEF Ends, saved
<1> QED
  BY <1>1, <1>3, EndIsSafe

LEMMA ReconcileIsSafe ==
  ASSUME IInv, NEW r \in Requests, Reconcile(r) \/ Lookup(r)
  PROVE  IInv'
<1>1. \E says, op, body : Say(r, says, op, body)
  BY DEF Reconcile, Lookup, AnswerFromReceipt, SayReceipt, SayUnconfirmed
<1>2. /\ pc[r] \in {"asking", "lookup"} /\ Go(r, "ended")
      /\ UNCHANGED <<saved, halted, locks, ask, staged>>
  BY DEF Reconcile, Lookup
<1> QED
  BY <1>1, <1>2, AnswerIsSafe

LEMMA InvNext == IInv /\ [Next]_vars => IInv'
<1> SUFFICES ASSUME IInv, [Next]_vars PROVE IInv'
  OBVIOUS
<1>1. CASE Switch
  BY <1>1, SwitchIsSafe
<1>2. ASSUME NEW r \in Requests,
             \/ Begin(r) \/ TakeUser(r) \/ ReadReceipt(r)
             \/ CreateConnection(r) \/ LockPaperConnection(r)
             \/ Execute(r) \/ FillPartialOrder(r) \/ Commit(r)
             \/ Fail(r) \/ Reconcile(r) \/ Lookup(r) \/ Die(r)
      PROVE  IInv'
  <2>1. CASE Begin(r)
    BY <2>1, BeginIsSafe
  <2>2. CASE TakeUser(r) \/ CreateConnection(r) \/ LockPaperConnection(r)
    BY <2>2, MoveIsSafe
  <2>3. CASE ReadReceipt(r)
    BY <2>3, ReadReceiptIsSafe
  <2>4. CASE Execute(r)
    BY <2>4, ExecuteIsSafe
  <2>5. CASE FillPartialOrder(r)
    BY <2>5, FillIsSafe
  <2>6. CASE Commit(r)
    BY <2>6, CommitIsSafe
  <2>7. CASE Fail(r) \/ Die(r)
    BY <2>7, FailIsSafe
  <2>8. CASE Reconcile(r) \/ Lookup(r)
    BY <2>8, ReconcileIsSafe
  <2> QED
    BY <1>2, <2>1, <2>2, <2>3, <2>4, <2>5, <2>6, <2>7, <2>8
<1>3. CASE UNCHANGED vars
  <2>1. UNCHANGED <<cash, held, orders, stranded, receipt, conns, evidence, halted, userLock,
                    accountLock, sharing, ask, pc, staged, told>>
    BY <1>3 DEF vars, saved, locks
  <2> QED
    BY <2>1 DEF IInv, Types, PathInv, LockInv, ConnectionInv, StagedInv, RefusalIsOnRecord
<1> QED
  BY <1>1, <1>2, <1>3 DEF Next

-----------------------------------------------------------------------------
(* What follows from it. *)

\* The inductive invariant holds: what a request has staged rests on the account and the
\* switch as they are, under the rows it holds (paper_engine.py, paper_operations.py).
THEOREM StagedWorkIsCurrent == Spec => []IInv
  BY InvInit, InvNext, PTL DEF Spec

\* Every reachable state is of the stated types, and a user has at most one paper account,
\* however the first requests overlap (_paper_connection).
THEOREM OneAccountEver == Spec => [](TypeOK /\ OneAccount)
<1>1. IInv => TypeOK
  <2> SUFFICES ASSUME IInv PROVE TypeOK
    OBVIOUS
  <2>1. /\ cash \in Int /\ held \in Int
        /\ stranded \in [Requests -> [filled : Nat, cash : Int]]
        /\ conns \subseteq Requests /\ evidence \subseteq Requests
        /\ halted \in BOOLEAN /\ userLock \in Requests \cup {None}
        /\ accountLock \in Requests \cup {None} /\ sharing \subseteq Requests
        /\ pc \in [Requests -> Steps]
    BY DEF IInv, Types
  <2>2. ASSUME NEW r \in Requests
        PROVE  /\ orders[r].status \in {"absent", "filled", "partially_filled", "rejected"}
               /\ orders[r].filled \in 0 .. orders[r].quantity
    BY DEF IInv, Types, PaperOrders
  <2>3. ASSUME NEW op \in Operations, receipt[op] # None
        PROVE  receipt[op].outcome \in {"order_recorded", "blocked"}
    BY <2>3 DEF IInv, Types, Receipts
  <2> QED
    BY <2>1, <2>2, <2>3 DEF TypeOK, Steps
<1>2. IInv => OneAccount
  <2> SUFFICES ASSUME IInv PROVE OneAccount
    OBVIOUS
  <2>1. CASE conns = {}
    BY <2>1, FS_EmptySet DEF OneAccount
  <2>2. CASE conns # {}
    <3>1. PICK r : conns = {r}
      BY <2>2 DEF IInv, ConnectionInv
    <3>2. Cardinality(conns) = 1
      BY <3>1, FS_Singleton
    <3> QED
      BY <3>2 DEF OneAccount
  <2> QED
    BY <2>1, <2>2
<1> QED
  BY <1>1, <1>2, StagedWorkIsCurrent, PTL

\* A follow-up fill that is answered "refused" has its evidence in the durable audit
\* (persist_paper_rejection).
THEOREM RefusalIsAlwaysOnRecord == Spec => []RefusalIsOnRecord
<1>1. IInv => RefusalIsOnRecord
  BY DEF IInv
<1> QED
  BY <1>1, StagedWorkIsCurrent, PTL

FillLeavesStage ==
  \A r \in Requests :
    /\ pc[r] = "staged" /\ pc'[r] # "staged"
    /\ ask[r].kind # "plain"
    /\ <<cash, held>>' # <<cash, held>>
    => ~halted

\* Only a commit changes the account.
LEMMA OnlyCommitsMoveTheLedger ==
  ASSUME IInv, [Next]_vars, <<cash, held>>' # <<cash, held>>
  PROVE  \E r \in Requests : Commit(r)
<1>1. ~UNCHANGED vars
  BY DEF vars, saved
<1>2. ~Switch
  BY DEF Switch, saved
<1>3. ASSUME NEW r \in Requests,
             \/ Begin(r) \/ TakeUser(r) \/ ReadReceipt(r)
             \/ CreateConnection(r) \/ LockPaperConnection(r)
             \/ Execute(r) \/ FillPartialOrder(r)
             \/ Fail(r) \/ Reconcile(r) \/ Lookup(r) \/ Die(r)
      PROVE  UNCHANGED <<cash, held>>
  BY <1>3 DEF Begin, TakeUser, ReadReceipt, CreateConnection, LockPaperConnection, Execute,
     FillPartialOrder, Fail, Reconcile, Lookup, Die, saved
<1> QED
  BY <1>1, <1>2, <1>3 DEF Next

\* Once a halt is saved, no identified command and no follow-up fill changes the account
\* (the shared lock on the settings row, which the halt's update waits for).
THEOREM HaltAlwaysStopsFills == Spec => HaltStopsFills
<1>1. IInv /\ [Next]_vars => [FillLeavesStage]_vars
  <2> SUFFICES ASSUME IInv, [Next]_vars, NEW r \in Requests,
                      pc[r] = "staged", pc'[r] # "staged", ask[r].kind # "plain",
                      <<cash, held>>' # <<cash, held>>
               PROVE  ~halted
    BY DEF FillLeavesStage
  <2>1. PICK q \in Requests : Commit(q)
    BY OnlyCommitsMoveTheLedger
  <2>2. /\ cash' = staged[q].cash /\ held' = staged[q].held
        /\ \A p \in Requests \ {q} : pc'[p] = pc[p]
    BY <2>1, CommitDoes
  <2>3. q = r
    BY <2>2
  <2> QED
    BY <2>2, <2>3 DEF IInv, StagedInv
<1>2. Spec => [][FillLeavesStage]_vars
  BY <1>1, StagedWorkIsCurrent, PTL DEF Spec
<1> QED
  BY <1>2 DEF HaltStopsFills, FillLeavesStage
-----------------------------------------------------------------------------
(* The refinement: identified commands take effect once. *)

\* What a step tells the caller of one identified command, seen in PaperOnce.
LEMMA TellingIsSeen ==
  ASSUME IInv, NEW r \in Requests, NEW says, NEW op, NEW body,
         ask' = ask, pc[r] # "ended", Say(r, says, op, body)
  PROVE  IF ask[r].kind \in {"identified", "lookup"}
           THEN /\ Answered[r] = Silent
                /\ Answered' =
                     [Answered EXCEPT ![r] = [says |-> says, op |-> op, body |-> body]]
           ELSE Answered' = Answered
<1>1. told[r] = Silent
  BY DEF IInv, PathInv
<1>2. PICK word : word = [says |-> says, op |-> op, body |-> body]
  OBVIOUS
<1>3. told'[r] = word /\ \A q \in Requests \ {r} : told'[q] = told[q]
  BY <1>2 DEF Say, IInv, Types
<1>4. CASE ask[r].kind \in {"identified", "lookup"}
  <2>1. Answered[r] = Silent
    BY <1>1 DEF Answered
  <2>2. Answered' = [Answered EXCEPT ![r] = word]
    BY <1>3, <1>4 DEF Answered
  <2> QED
    BY <1>2, <1>4, <2>1, <2>2
<1>5. CASE ask[r].kind \notin {"identified", "lookup"}
  <2>1. Answered' = Answered
    BY <1>3, <1>5 DEF Answered
  <2> QED
    BY <1>5, <2>1
<1> QED
  BY <1>4, <1>5

LEMMA SilenceIsUnseen ==
  ASSUME IInv, UNCHANGED <<ask, told>>
  PROVE  Answered' = Answered
  BY DEF Answered

\* An answer read from the receipt is the receipt's, or a conflict.
LEMMA AnswersAreTheReceipts ==
  ASSUME IInv, NEW r \in Requests, pc[r] # "ended",
         ask[r].kind \in {"identified", "lookup"}, receipt[ask[r].op] # None,
         \/ AnswerFromReceipt(r, ask[r].op)
         \/ SayReceipt(r, ask[r].op),
         UNCHANGED <<ask, receipt, cash, held>>
  PROVE  Once!Next
<1>1. PICK op \in Operations : op = ask[r].op
  BY AskIsTyped DEF IInv, Types
<1>2. CASE SayReceipt(r, op)
  <2>1. Say(r, receipt[op].outcome, op, receipt[op].body)
    BY <1>2 DEF SayReceipt
  <2>2. Once!Tell(r, receipt[op].outcome, op, receipt[op].body)
    BY <2>1, TellingIsSeen DEF Once!Tell, Once!Silent, Silent
  <2>3. Once!Answer(op)
    BY <1>1, <2>2 DEF Once!Answer
  <2> QED
    BY <2>3 DEF Once!Next
<1>3. CASE Say(r, "conflict", op, ask[r].body) /\ receipt[op].body # ask[r].body
  <2> DEFINE says == "conflict"
  <2>1. PICK body : body = ask[r].body
    OBVIOUS
  <2>2. Say(r, says, op, body)
    BY <1>3, <2>1
  <2>3. /\ Answered[r] = Silent
        /\ Answered' = [Answered EXCEPT ![r] = [says |-> says, op |-> op, body |-> body]]
    <3> HIDE DEF says
    <3> QED
      BY <2>2, TellingIsSeen
  <2>4. Answered'[r].body = body
    BY <2>3 DEF Answered
  <2>5. Once!Conflict(op)
    BY <1>1, <1>3, <2>1, <2>3, <2>4 DEF Once!Conflict, Once!Tell, Once!Silent, Silent
  <2> QED
    BY <2>5 DEF Once!Next
<1> QED
  BY <1>1, <1>2, <1>3 DEF AnswerFromReceipt

LEMMA DoubtIsADoubt ==
  ASSUME IInv, NEW r \in Requests, pc[r] # "ended",
         ask[r].kind \in {"identified", "lookup"}, SayUnconfirmed(r),
         UNCHANGED <<ask, receipt, cash, held>>
  PROVE  Once!Next
<1> DEFINE says == "unconfirmed"
<1>1. Say(r, says, None, None)
  BY DEF SayUnconfirmed
<1>2. /\ Answered[r] = Silent
      /\ Answered' = [Answered EXCEPT ![r] = [says |-> says, op |-> None, body |-> None]]
  <2> HIDE DEF says
  <2> QED
    BY <1>1, TellingIsSeen
<1>3. Once!Doubt
  BY <1>2 DEF Once!Doubt, Once!Tell, Once!Silent, Silent
<1> QED
  BY <1>3 DEF Once!Next

\* The commit of an identified command is where it takes effect, with its receipt.
LEMMA CommitTakesEffect ==
  ASSUME IInv, NEW r \in Requests, Commit(r)
  PROVE  Once!Next
<1>1. /\ pc[r] = "staged" /\ UNCHANGED ask
      /\ cash' = staged[r].cash /\ held' = staged[r].held
      /\ cash' \in Nat /\ held' \in Nat
  BY CommitDoes
<1>2. Once!MovesLedger
  BY <1>1 DEF Once!MovesLedger
<1>3. CASE ask[r].kind = "identified"
  <2>1. ask[r].op \in Operations /\ ask[r].body \in Bodies
    BY <1>3, AskIsTyped DEF IInv, Types
  <2>2. PICK op \in Operations : op = ask[r].op
    BY <2>1
  <2>3. staged[r] \in StagedWork
    BY DEF IInv, Types
  <2>4. staged[r].cash \in Nat /\ staged[r].held \in Nat /\ cash \in Nat /\ held \in Nat
    BY <2>3 DEF StagedWork, IInv, Types
  <2>5. PICK new : new = ReceiptOf(r)
    OBVIOUS
  <2>6. /\ new \in Receipts /\ new # None
        /\ new.cash = cash' - cash /\ new.held = held' - held
        /\ new.body = ask[r].body
        /\ new.outcome = "blocked" => staged[r].what = "refusal"
    BY <1>1, <2>1, <2>4, <2>5, NoneIsNothing DEF ReceiptOf, Receipts
  <2>7. new.outcome = "blocked" => new.cash = 0 /\ new.held = 0
    <3>1. staged[r].what = "refusal" => staged[r].cash = cash /\ staged[r].held = held
      BY <1>1 DEF IInv, StagedInv
    <3> QED
      BY <1>1, <2>4, <2>6, <3>1
  <2>8. receipt[op] = None /\ receipt' = [receipt EXCEPT ![op] = new]
    BY <1>3, <2>2, <2>5 DEF Commit, RecordReceipt
  <2>9. receipt'[op] = new
    BY <2>8 DEF IInv, Types
  <2>10. Once!TellNobody \/ Once!Tell(r, new.outcome, op, new.body)
    <3>1. CASE UNCHANGED told
      BY <3>1, <1>1, SilenceIsUnseen DEF Once!TellNobody
    <3>2. CASE Say(r, new.outcome, op, new.body)
      BY <1>1, <1>3, <3>2, TellingIsSeen DEF Once!Tell, Once!Silent, Silent
    <3> QED
      BY <1>3, <2>2, <2>5, <2>6, <3>1, <3>2 DEF Commit
  <2>11. Once!Record(op)
    BY <1>2, <2>6, <2>7, <2>8, <2>9, <2>10 DEF Once!Record
  <2> QED
    BY <2>11 DEF Once!Next
<1>4. CASE ask[r].kind # "identified"
  <2>1. ask[r].kind \notin {"identified", "lookup"}
    BY <1>1, <1>4 DEF IInv, PathInv
  <2>2. Answered' = Answered
    <3>1. CASE UNCHANGED told
      BY <1>1, <3>1, SilenceIsUnseen
    <3>2. CASE \E says, op, body : Say(r, says, op, body)
      BY <1>1, <2>1, <3>2, TellingIsSeen
    <3> QED
      BY <1>4, <3>1, <3>2 DEF Commit
  <2>3. UNCHANGED receipt
    BY <1>4 DEF Commit, RecordReceipt
  <2>4. Once!Unidentified
    BY <1>2, <2>2, <2>3 DEF Once!Unidentified
  <2> QED
    BY <2>4 DEF Once!Next
<1> QED
  BY <1>3, <1>4
\* Begun, moved, staged, ended without a commit, or a follow-up fill: PaperOnce stutters.
LEMMA UnseenSteps ==
  ASSUME IInv, UNCHANGED <<cash, held, receipt>>, Answered' = Answered
  PROVE  UNCHANGED Once!vars
  BY DEF Once!vars

LEMMA TakesEffectStepwise == IInv /\ [Next]_vars => [Once!Next]_(Once!vars)
<1> SUFFICES ASSUME IInv, [Next]_vars PROVE Once!Next \/ UNCHANGED Once!vars
  OBVIOUS
<1>1. CASE Switch \/ UNCHANGED vars
  <2>1. UNCHANGED <<cash, held, receipt, ask, told>>
    BY <1>1 DEF Switch, vars, saved
  <2> QED
    BY <2>1, SilenceIsUnseen, UnseenSteps
<1>2. ASSUME NEW r \in Requests, Begin(r) PROVE UNCHANGED Once!vars
  <2>1. UNCHANGED <<cash, held, receipt, told>> /\ pc[r] = "new"
    BY <1>2 DEF Begin, saved
  <2>2. told[r] = Silent
    BY <2>1 DEF IInv, PathInv
  <2>3. \A q \in Requests \ {r} : ask'[q] = ask[q]
    BY <1>2 DEF Begin, IInv, Types
  <2>4. Answered' = Answered
    BY <2>1, <2>2, <2>3 DEF Answered
  <2> QED
    BY <2>1, <2>4, UnseenSteps
<1>3. ASSUME NEW r \in Requests,
             \/ TakeUser(r) \/ CreateConnection(r) \/ LockPaperConnection(r)
             \/ Execute(r) \/ Fail(r) \/ Die(r)
      PROVE  UNCHANGED Once!vars
  <2>1. UNCHANGED <<cash, held, receipt, ask, told>>
    BY <1>3 DEF TakeUser, CreateConnection, LockPaperConnection, Execute, Fail, Die, saved
  <2> QED
    BY <2>1, SilenceIsUnseen, UnseenSteps
<1>4. ASSUME NEW r \in Requests, FillPartialOrder(r) PROVE UNCHANGED Once!vars
  <2>1. /\ UNCHANGED <<cash, held, receipt, ask>>
        /\ pc[r] = "execute" /\ ask[r].kind = "followup"
        /\ UNCHANGED told \/ \E says, op, body : Say(r, says, op, body)
    BY <1>4 DEF FillPartialOrder, PersistRejection
  <2>2. Answered' = Answered
    <3>1. CASE UNCHANGED told
      BY <2>1, <3>1, SilenceIsUnseen
    <3>2. CASE \E says, op, body : Say(r, says, op, body)
      BY <2>1, <3>2, TellingIsSeen
    <3> QED
      BY <2>1, <3>1, <3>2
  <2> QED
    BY <2>1, <2>2, UnseenSteps
<1>5. ASSUME NEW r \in Requests, ReadReceipt(r) PROVE Once!Next \/ UNCHANGED Once!vars
  <2>1. /\ UNCHANGED <<cash, held, receipt, ask>>
        /\ pc[r] = "receipt" /\ ask[r].kind = "identified"
        /\ UNCHANGED told \/ (receipt[ask[r].op] # None /\ AnswerFromReceipt(r, ask[r].op))
    BY <1>5 DEF ReadReceipt, saved, IInv, PathInv
  <2>2. CASE UNCHANGED told
    BY <2>1, <2>2, SilenceIsUnseen, UnseenSteps
  <2>3. CASE receipt[ask[r].op] # None /\ AnswerFromReceipt(r, ask[r].op)
    BY <2>1, <2>3, AnswersAreTheReceipts
  <2> QED
    BY <2>1, <2>2, <2>3
<1>6. ASSUME NEW r \in Requests, Reconcile(r) \/ Lookup(r) PROVE Once!Next
  <2>1. /\ UNCHANGED <<cash, held, receipt, ask>>
        /\ pc[r] # "ended" /\ ask[r].kind \in {"identified", "lookup"}
    BY <1>6 DEF Reconcile, Lookup, saved, IInv, PathInv
  <2>2. \/ SayUnconfirmed(r)
        \/ /\ receipt[ask[r].op] # None
           /\ AnswerFromReceipt(r, ask[r].op) \/ SayReceipt(r, ask[r].op)
    BY <1>6 DEF Reconcile, Lookup
  <2>3. CASE SayUnconfirmed(r)
    BY <2>1, <2>3, DoubtIsADoubt
  <2>4. CASE /\ receipt[ask[r].op] # None
             /\ AnswerFromReceipt(r, ask[r].op) \/ SayReceipt(r, ask[r].op)
    BY <2>1, <2>4, AnswersAreTheReceipts
  <2> QED
    BY <2>2, <2>3, <2>4
<1>7. CASE Next
  BY <1>1, <1>2, <1>3, <1>4, <1>5, <1>6, <1>7, CommitTakesEffect DEF Next
<1> QED
  BY <1>1, <1>7

\* Identified commands take effect once, with the outcome their receipt states, and nobody
\* is told another (PaperOperationService): the ledger implements PaperOnce.
THEOREM IdentifiedTakeEffectOnce == Spec => TakesEffectOnce
<1>1. Init => Once!Init
  <2>1. Init => Answered = [r \in Requests |-> Silent]
    BY DEF Init, Answered
  <2> QED
    BY <2>1 DEF Init, Once!Init, Once!Silent, Silent
<1> QED
  BY <1>1, TakesEffectStepwise, StagedWorkIsCurrent, PTL
     DEF Spec, TakesEffectOnce, Once!Spec
-----------------------------------------------------------------------------
(* The ledger adds up. *)

Signed(side, n) == IF side = "buy" THEN n ELSE -n

\* A request that has not committed has no order.
FreshInv ==
  \A r \in Requests :
    pc[r] \in {"new", "user", "receipt", "account", "mutex", "execute", "staged"} =>
      orders[r] = NoOrder /\ stranded[r] = NoFill

\* What is staged leaves the account and its order apart by as much as they were, or
\* records at once what the account refused.
OrderInv ==
  \A r \in Requests : pc[r] = "staged" =>
    LET s == staged[r]
        o == orders[s.at]
    IN /\ s.what \in {"order", "refusal", "stranded"}
       /\ s.what = "refusal" => s.order = NoOrder
       /\ s.what # "refusal" => s.order.status # "absent"
       /\ s.what = "stranded" => s.at = r
       /\ s.at = r \/ o.status # "absent"
       /\ s.what = "order" =>
            /\ s.cash - cash = s.order.cash - o.cash
            /\ s.held - held = Signed(s.order.side, s.order.filled - o.filled)
            /\ s.order.side = o.side \/ (o.filled = 0 /\ stranded[s.at].filled = 0)

SumsInv ==
  /\ cash = StartingCash + SumFunction([r \in Requests |-> Cleared(r)])
  /\ held = SumFunction([r \in Requests |-> Moved(r)])

LedgerInv == IInv /\ FreshInv /\ OrderInv /\ SumsInv

Early == {"new", "user", "receipt", "account", "mutex", "execute", "staged"}

LEMMA NoOrderIsEmpty ==
  NoOrder.status = "absent" /\ NoOrder.filled = 0 /\ NoOrder.cash = 0
BY DEF NoOrder

LEMMA LedgerInit == Init => FreshInv /\ OrderInv /\ SumsInv
<1> SUFFICES ASSUME Init PROVE FreshInv /\ OrderInv /\ SumsInv
  OBVIOUS
<1>1. FreshInv /\ OrderInv
  BY DEF Init, FreshInv, OrderInv
<1>2. ASSUME NEW r \in Requests PROVE Cleared(r) = 0 /\ Moved(r) = 0
  <2>1. orders[r] = NoOrder /\ stranded[r] = NoFill
    BY DEF Init
  <2>2. orders[r].filled - stranded[r].filled = 0 /\ orders[r].cash - stranded[r].cash = 0
    BY <2>1, NoOrderIsEmpty, NoFillIsTyped
  <2>3. Moved(r) \in {-0, 0}
    BY <2>2 DEF Moved
  <2> QED
    BY <2>2, <2>3 DEF Cleared
<1>3. PICK f : f = [r \in Requests |-> Cleared(r)]
  OBVIOUS
<1>4. PICK g : g = [r \in Requests |-> Moved(r)]
  OBVIOUS
<1>5. /\ f \in [Requests -> Int] /\ \A r \in Requests : f[r] = 0
      /\ g \in [Requests -> Int] /\ \A r \in Requests : g[r] = 0
  BY <1>2, <1>3, <1>4
<1>6. SumFunction(f) = 0 /\ SumFunction(g) = 0
  BY <1>5, RequestsAreFinite, SumZero
<1>7. cash = StartingCash + 0 /\ held = 0
  BY Prices DEF Init
<1> QED
  BY <1>1, <1>3, <1>4, <1>6, <1>7 DEF SumsInv

\* What changes neither the account nor an order, and stages nothing, keeps the books.
LEMMA BooksAreKept ==
  ASSUME FreshInv, OrderInv, SumsInv,
         UNCHANGED <<cash, held, orders, stranded>>,
         \A r \in Requests : pc'[r] \in Early => pc[r] \in Early,
         \A r \in Requests : pc'[r] = "staged" => pc[r] = "staged" /\ staged'[r] = staged[r]
  PROVE  FreshInv' /\ OrderInv' /\ SumsInv'
<1>1. FreshInv'
  BY DEF FreshInv, Early
<1>2. OrderInv'
  BY DEF OrderInv
<1>3. \A r \in Requests : Cleared(r)' = Cleared(r) /\ Moved(r)' = Moved(r)
  BY DEF Cleared, Moved
<1>4. SumsInv'
  BY <1>3 DEF SumsInv
<1> QED
  BY <1>1, <1>2, <1>4

\* So does staging what differs from the account as it differs from its order.
LEMMA StagingKeepsBooks ==
  ASSUME LedgerInv, NEW r \in Requests, NEW s \in StagedWork,
         pc[r] = "execute", Stage(r, s), Go(r, "staged"),
         s.what \in {"order", "refusal", "stranded"},
         s.what = "refusal" => s.order = NoOrder,
         s.what # "refusal" => s.order.status # "absent",
         s.what = "stranded" => s.at = r,
         s.at = r \/ orders[s.at].status # "absent",
         s.what = "order" =>
            /\ s.cash - cash = s.order.cash - orders[s.at].cash
            /\ s.held - held = Signed(s.order.side, s.order.filled - orders[s.at].filled)
            /\ \/ s.order.side = orders[s.at].side
               \/ orders[s.at].filled = 0 /\ stranded[s.at].filled = 0,
         UNCHANGED <<cash, held, orders, stranded>>
  PROVE  FreshInv' /\ OrderInv' /\ SumsInv'
<1>1. /\ pc'[r] = "staged" /\ \A q \in Requests \ {r} : pc'[q] = pc[q]
  BY DEF LedgerInv, IInv, Types, Go
<1>2. PICK t : t = [s EXCEPT !.connection = staged[r].connection]
  OBVIOUS
<1>3. staged'[r] = t /\ \A q \in Requests \ {r} : staged'[q] = staged[q]
  BY <1>2 DEF Stage, LedgerInv, IInv, Types
<1>4. /\ t.what = s.what /\ t.at = s.at /\ t.cash = s.cash /\ t.held = s.held
      /\ t.order = s.order
  BY <1>2 DEF StagedWork
<1>5. FreshInv'
  BY <1>1 DEF LedgerInv, FreshInv
<1>6. OrderInv'
  <2> SUFFICES ASSUME NEW q \in Requests, pc'[q] = "staged"
               PROVE  OrderInv!(q)!2'
    BY DEF OrderInv
  <2>1. CASE q = r
    BY <2>1, <1>3, <1>4
  <2>2. CASE q # r
    BY <2>2, <1>1, <1>3 DEF LedgerInv, OrderInv
  <2> QED
    BY <2>1, <2>2
<1>7. \A q \in Requests : Cleared(q)' = Cleared(q) /\ Moved(q)' = Moved(q)
  BY DEF Cleared, Moved
<1>8. SumsInv'
  BY <1>7 DEF LedgerInv, SumsInv
<1> QED
  BY <1>5, <1>6, <1>8

LEMMA ExecuteKeepsBooks ==
  ASSUME LedgerInv, NEW r \in Requests, Execute(r)
  PROVE  FreshInv' /\ OrderInv' /\ SumsInv'
<1>1. /\ pc[r] = "execute" /\ ask[r].kind \in {"identified", "plain"}
      /\ UNCHANGED <<cash, held, orders, stranded>>
  BY DEF Execute, saved
<1>2. ask[r].body \in Bodies
  BY <1>1, AskIsTyped DEF LedgerInv, IInv, Types
<1>3. PICK b \in Bodies : b = ask[r].body
  BY <1>2
<1>4. PICK d : d = EvaluatePaperFill(b.side, b.quantity, b.profile)
  OBVIOUS
<1>5. /\ b.side \in {"buy", "sell"} /\ b.quantity \in Int
      /\ b.profile \in {"standard", "partial_fill", "no_liquidity"}
  BY CommandsAreTyped
<1>6. PICK limit \in Limits :
        \/ Stage(r, Refusal(r)) /\ Go(r, "staged")
        \/ /\ ~BusinessRefusal(b, d, limit)
           /\ d.outcome = "rejected" \/ EffectsAllowed(b.side, d)
           /\ Stage(r, WithEffects(r, b, d)) /\ Go(r, "staged")
        \/ /\ ~BusinessRefusal(b, d, limit)
           /\ Stage(r, WithoutEffects(r, b, d)) /\ Go(r, "staged")
        \/ EndTransaction(r) /\ Go(r, "asking")
  BY <1>1, <1>3, <1>4 DEF Execute
<1>7. /\ cash \in Nat /\ held \in Nat
      /\ orders[r] = NoOrder /\ stranded[r] = NoFill
  BY <1>1 DEF LedgerInv, IInv, Types, FreshInv
<1>8. CASE Stage(r, Refusal(r)) /\ Go(r, "staged")
  <2>1. PICK s : s = Refusal(r)
    OBVIOUS
  <2>2. s \in StagedWork /\ s.at = r /\ s.what = "refusal" /\ s.order = NoOrder
    BY <1>7, <2>1, NoOrderIsTyped DEF Refusal, Nothing, StagedWork
  <2> QED
    BY <1>1, <1>8, <2>1, <2>2, StagingKeepsBooks
<1> DEFINE order == NewOrder(b, d)
<1>9. ASSUME ~BusinessRefusal(b, d, limit)
      PROVE  /\ order \in PaperOrders /\ order.status # "absent"
             /\ order.side = b.side /\ order.filled = d.filled /\ d.filled \in Nat
             /\ order.cash = CashDelta(b.side, d) /\ order.cash \in Int
  <2>1. b.quantity \in Nat
    BY <1>9, AcceptedMeans
  <2>2. order \in PaperOrders
    BY <1>4, <2>1, NewOrderIsTyped
  <2>3. d.outcome \in {"filled", "partially_filled", "rejected"} /\ d.filled \in Nat
        /\ CashDelta(b.side, d) \in Int
    BY <1>4, <1>5, FillIsWithinOrder
  <2> QED
    BY <2>2, <2>3 DEF NewOrder
<1>10. CASE /\ ~BusinessRefusal(b, d, limit)
            /\ d.outcome = "rejected" \/ EffectsAllowed(b.side, d)
            /\ Stage(r, WithEffects(r, b, d)) /\ Go(r, "staged")
  <2> HIDE DEF order
  <2>1. /\ order \in PaperOrders /\ order.status # "absent"
        /\ order.side = b.side /\ order.filled = d.filled /\ d.filled \in Nat
        /\ order.cash = CashDelta(b.side, d) /\ order.cash \in Int
    BY <1>9, <1>10
  <2>2. cash + CashDelta(b.side, d) \in Nat /\ held + HeldDelta(b.side, d) \in Nat
    BY <1>4, <1>5, <1>10, EffectsAreWhole DEF LedgerInv, IInv
  <2>3. PICK s : s = WithEffects(r, b, d)
    OBVIOUS
  <2>4. /\ s \in StagedWork /\ s.at = r /\ s.what = "order" /\ s.order = order
        /\ s.cash = cash + CashDelta(b.side, d) /\ s.held = held + HeldDelta(b.side, d)
    BY <2>1, <2>2, <2>3 DEF WithEffects, Nothing, StagedWork, order
  <2>5. s.cash - cash = s.order.cash - orders[r].cash
    BY <1>7, <2>1, <2>4, NoOrderIsEmpty
  <2>6. s.held - held = Signed(s.order.side, s.order.filled - orders[r].filled)
    BY <1>7, <2>1, <2>4, NoOrderIsEmpty DEF Signed, HeldDelta
  <2>7. orders[r].filled = 0 /\ stranded[r].filled = 0
    BY <1>7, NoOrderIsEmpty, NoFillIsTyped
  <2> QED
    BY <1>1, <1>10, <2>1, <2>3, <2>4, <2>5, <2>6, <2>7, StagingKeepsBooks
<1>11. CASE /\ ~BusinessRefusal(b, d, limit)
            /\ Stage(r, WithoutEffects(r, b, d)) /\ Go(r, "staged")
  <2> HIDE DEF order
  <2>1. order \in PaperOrders /\ order.status # "absent"
    BY <1>9, <1>11
  <2>2. PICK s : s = WithoutEffects(r, b, d)
    OBVIOUS
  <2>3. s \in StagedWork /\ s.at = r /\ s.what = "stranded" /\ s.order = order
    BY <1>7, <2>1, <2>2 DEF WithoutEffects, Nothing, StagedWork, order
  <2> QED
    BY <1>1, <1>11, <2>1, <2>2, <2>3, StagingKeepsBooks
<1>12. CASE EndTransaction(r) /\ Go(r, "asking")
  <2>1. pc'[r] = "asking" /\ \A q \in Requests \ {r} : pc'[q] = pc[q] /\ staged'[q] = staged[q]
    BY <1>12 DEF EndTransaction, Go, LedgerInv, IInv, Types
  <2> QED
    BY <1>1, <2>1, BooksAreKept DEF Early, LedgerInv
<1> QED
  BY <1>6, <1>8, <1>10, <1>11, <1>12

LEMMA FillKeepsBooks ==
  ASSUME LedgerInv, NEW r \in Requests, FillPartialOrder(r)
  PROVE  FreshInv' /\ OrderInv' /\ SumsInv'
<1>1. /\ pc[r] = "execute" /\ ask[r].kind = "followup"
      /\ UNCHANGED <<cash, held, orders, stranded>>
  BY DEF FillPartialOrder
<1>2. ask[r].order \in Requests /\ ask[r].quantity \in Nat \ {0}
  BY <1>1, AskIsTyped DEF LedgerInv, IInv, Types
<1>3. PICK n \in Nat \ {0} : n = ask[r].quantity
  BY <1>2
<1>4. PICK o \in PaperOrders : o = orders[ask[r].order]
  BY <1>2 DEF LedgerInv, IInv, Types
<1> DEFINE profile == "standard"
<1>5. PICK d : d = EvaluatePaperFill(o.side, n, profile)
  OBVIOUS
<1>6. PICK delta : delta = CashDelta(o.side, d)
  OBVIOUS
<1>7. PICK after :
        after = [o EXCEPT !.filled = o.filled + d.filled, !.cash = @ + delta,
                          !.status = IF o.filled + d.filled = o.quantity THEN "filled" ELSE @]
  OBVIOUS
<1>8. PICK s :
        s = [Nothing EXCEPT !.what = "order", !.order = after, !.at = ask[r].order,
               !.cash = cash + delta, !.held = held + HeldDelta(o.side, d)]
  OBVIOUS
<1>9. \/ /\ o.status = "partially_filled" /\ n <= o.quantity - o.filled
         /\ EffectsAllowed(o.side, d) /\ Stage(r, s) /\ Go(r, "staged")
      \/ EndTransaction(r) /\ Go(r, "ended")
  BY <1>3, <1>4, <1>5, <1>6, <1>7, <1>8 DEF FillPartialOrder, FitsRemainder
<1>10. CASE /\ o.status = "partially_filled" /\ n <= o.quantity - o.filled
            /\ EffectsAllowed(o.side, d) /\ Stage(r, s) /\ Go(r, "staged")
  <2>1. /\ o.side \in {"buy", "sell"} /\ o.quantity \in Nat /\ o.filled \in Nat
        /\ o.cash \in Int
    BY DEF PaperOrders
  <2>2. d.filled \in Nat /\ d.filled <= n /\ delta \in Int
    <3>1. n \in Int /\ n \in Nat /\ profile \in {"standard", "partial_fill", "no_liquidity"}
      OBVIOUS
    <3> HIDE DEF profile
    <3> QED
      BY <1>5, <1>6, <2>1, <3>1, FillIsWithinOrder
  <2>3. PICK filled \in Nat, paid \in Int :
          filled = o.filled + d.filled /\ paid = o.cash + delta /\ filled <= o.quantity
    BY <1>10, <2>1, <2>2
  <2>4. PICK status \in {"filled", "partially_filled"} :
          after = [o EXCEPT !.filled = filled, !.cash = paid, !.status = status]
    BY <1>7, <1>10, <2>3
  <2>5. /\ after \in PaperOrders /\ after.status = status /\ after.side = o.side
        /\ after.filled = filled /\ after.cash = paid
    BY <2>3, <2>4 DEF PaperOrders
  <2>6. cash + delta \in Nat /\ held + HeldDelta(o.side, d) \in Nat
    <3>1. n \in Int /\ profile \in {"standard", "partial_fill", "no_liquidity"}
      OBVIOUS
    <3> HIDE DEF profile
    <3> QED
      BY <1>5, <1>6, <1>10, <2>1, <3>1, EffectsAreWhole DEF LedgerInv, IInv
  <2>7. /\ s \in StagedWork /\ s.at = ask[r].order /\ s.what = "order" /\ s.order = after
        /\ s.cash = cash + delta /\ s.held = held + HeldDelta(o.side, d)
    BY <1>2, <1>8, <2>5, <2>6 DEF Nothing, StagedWork
  <2>8. cash \in Nat /\ held \in Nat
    BY DEF LedgerInv, IInv, Types
  <2>9. s.cash - cash = s.order.cash - orders[s.at].cash
    BY <1>4, <2>1, <2>2, <2>3, <2>5, <2>7, <2>8
  <2>10. s.held - held = Signed(s.order.side, s.order.filled - orders[s.at].filled)
    BY <1>4, <2>1, <2>2, <2>3, <2>5, <2>7, <2>8 DEF Signed, HeldDelta
  <2>11. s.order.status # "absent" /\ orders[s.at].status # "absent"
         /\ s.order.side = orders[s.at].side
    BY <1>4, <1>10, <2>5, <2>7
  <2> QED
    BY <1>1, <1>10, <2>7, <2>9, <2>10, <2>11, StagingKeepsBooks
<1>11. CASE EndTransaction(r) /\ Go(r, "ended")
  <2>1. pc'[r] = "ended" /\ \A q \in Requests \ {r} : pc'[q] = pc[q] /\ staged'[q] = staged[q]
    BY <1>11 DEF EndTransaction, Go, LedgerInv, IInv, Types
  <2> QED
    BY <1>1, <2>1, BooksAreKept DEF Early, LedgerInv
<1> QED
  BY <1>9, <1>10, <1>11

\* A commit moves the account by what it moves the order, or neither.
CommitBooks(r, x) ==
  /\ x \in Requests
  /\ x # r => orders[x].status # "absent"
  /\ \A q \in Requests \ {x} : orders'[q] = orders[q] /\ stranded'[q] = stranded[q]
  /\ cash' - cash = Cleared(x)' - Cleared(x)
  /\ held' - held = Moved(x)' - Moved(x)

LEMMA MovedType ==
  ASSUME Types, NEW x \in Requests
  PROVE  Cleared(x) \in Int /\ Moved(x) \in Int
<1>1. /\ orders[x].filled \in Nat /\ orders[x].cash \in Int
      /\ stranded[x].filled \in Nat /\ stranded[x].cash \in Int
  BY DEF Types, PaperOrders
<1> QED
  BY <1>1 DEF Cleared, Moved

LEMMA CommitMovesBoth ==
  ASSUME LedgerInv, NEW r \in Requests, Commit(r)
  PROVE  \E x \in Requests : CommitBooks(r, x)
<1>1. /\ pc[r] = "staged" /\ cash' = staged[r].cash /\ held' = staged[r].held
  BY CommitDoes DEF LedgerInv
<1>2. PICK s \in StagedWork : s = staged[r]
  BY DEF LedgerInv, IInv, Types
<1>3. PICK x \in Requests : x = s.at
  BY <1>1, <1>2 DEF LedgerInv, IInv, StagedInv
<1>4. /\ cash \in Nat /\ held \in Nat /\ orders \in [Requests -> PaperOrders]
      /\ stranded \in [Requests -> [filled : Nat, cash : Int]]
  BY DEF LedgerInv, IInv, Types
<1>5. PICK o \in PaperOrders : o = orders[x]
  BY <1>4
<1>6. PICK t \in [filled : Nat, cash : Int] : t = stranded[x]
  BY <1>4
<1>7. /\ s.order \in PaperOrders /\ s.cash \in Nat /\ s.held \in Nat
  BY DEF StagedWork
<1>8. /\ s.order.filled \in Nat /\ s.order.cash \in Int
      /\ o.filled \in Nat /\ o.cash \in Int /\ t.filled \in Nat /\ t.cash \in Int
  BY <1>7 DEF PaperOrders
<1>9. /\ s.what \in {"order", "refusal", "stranded"}
      /\ s.what = "refusal" => s.order = NoOrder
      /\ s.what # "refusal" => s.order.status # "absent"
      /\ s.what = "stranded" => x = r
      /\ x = r \/ o.status # "absent"
      /\ s.what # "order" => s.cash = cash /\ s.held = held
      /\ s.what = "order" =>
           /\ s.cash - cash = s.order.cash - o.cash
           /\ s.held - held = Signed(s.order.side, s.order.filled - o.filled)
           /\ s.order.side = o.side \/ (o.filled = 0 /\ t.filled = 0)
  BY <1>1, <1>2, <1>3, <1>5, <1>6 DEF LedgerInv, OrderInv, IInv, StagedInv
<1>10. /\ orders' = IF s.order = NoOrder THEN orders ELSE [orders EXCEPT ![x] = s.order]
       /\ stranded' = IF s.what # "stranded" THEN stranded
                      ELSE [stranded EXCEPT ![r] = [filled |-> s.order.filled,
                                                    cash |-> s.order.cash]]
  BY <1>2, <1>3 DEF Commit
<1>11. CASE s.what = "refusal"
  <2>1. UNCHANGED <<orders, stranded>> /\ cash' = cash /\ held' = held
    BY <1>1, <1>2, <1>9, <1>10, <1>11
  <2>2. Cleared(x)' = Cleared(x) /\ Moved(x)' = Moved(x)
    BY <2>1 DEF Cleared, Moved
  <2>3. Cleared(x) \in Int /\ Moved(x) \in Int
    BY MovedType DEF LedgerInv, IInv
  <2> QED
    BY <1>4, <1>5, <1>9, <2>1, <2>2, <2>3 DEF CommitBooks
<1>12. CASE s.what = "order"
  <2>1. orders' = [orders EXCEPT ![x] = s.order] /\ stranded' = stranded
    BY <1>9, <1>10, <1>12, NoOrderIsEmpty
  <2>2. orders'[x] = s.order /\ stranded'[x] = t
        /\ \A q \in Requests \ {x} : orders'[q] = orders[q] /\ stranded'[q] = stranded[q]
    BY <1>4, <1>6, <2>1
  <2>3. cash' - cash = Cleared(x)' - Cleared(x)
    <3>1. Cleared(x) = o.cash - t.cash /\ Cleared(x)' = s.order.cash - t.cash
      BY <1>5, <1>6, <2>2 DEF Cleared
    <3> QED
      BY <1>1, <1>2, <1>4, <1>7, <1>8, <1>9, <1>12, <3>1
  <2>4. held' - held = Moved(x)' - Moved(x)
    <3>1. Moved(x) = IF o.side = "buy" THEN o.filled - t.filled ELSE -(o.filled - t.filled)
      BY <1>5, <1>6 DEF Moved
    <3>2. Moved(x)' = IF s.order.side = "buy" THEN s.order.filled - t.filled
                      ELSE -(s.order.filled - t.filled)
      BY <2>2 DEF Moved
    <3>3. CASE s.order.side = o.side
      BY <1>1, <1>2, <1>4, <1>7, <1>8, <1>9, <1>12, <3>1, <3>2, <3>3 DEF Signed
    <3>4. CASE o.filled = 0 /\ t.filled = 0
      BY <1>1, <1>2, <1>4, <1>7, <1>8, <1>9, <1>12, <3>1, <3>2, <3>4 DEF Signed
    <3> QED
      BY <1>9, <1>12, <3>3, <3>4
  <2> QED
    BY <1>5, <1>9, <2>2, <2>3, <2>4 DEF CommitBooks
<1>13. CASE s.what = "stranded"
  <2>1. x = r /\ cash' = cash /\ held' = held
    BY <1>1, <1>2, <1>9, <1>13
  <2>2. orders' = [orders EXCEPT ![x] = s.order]
    BY <1>9, <1>10, <1>13, NoOrderIsEmpty
  <2>3. stranded' = [stranded EXCEPT ![x] = [filled |-> s.order.filled, cash |-> s.order.cash]]
    BY <1>10, <1>13, <2>1
  <2>4. orders'[x] = s.order /\ stranded'[x].filled = s.order.filled
        /\ stranded'[x].cash = s.order.cash
        /\ \A q \in Requests \ {x} : orders'[q] = orders[q] /\ stranded'[q] = stranded[q]
    BY <1>4, <2>2, <2>3
  <2>5. orders[x] = NoOrder /\ stranded[x] = NoFill
    BY <1>1, <2>1 DEF LedgerInv, FreshInv
  <2>6. Cleared(x) = 0 /\ Cleared(x)' = 0
    BY <1>8, <2>4, <2>5, NoOrderIsEmpty, NoFillIsTyped DEF Cleared
  <2>7. Moved(x) = 0
    <3>1. Moved(x) \in {-0, 0}
      BY <2>5, NoOrderIsEmpty, NoFillIsTyped DEF Moved
    <3> QED
      BY <3>1
  <2>8. Moved(x)' = 0
    <3>1. s.order.filled - s.order.filled = 0
      BY <1>8
    <3>2. Moved(x)' \in {-0, 0}
      BY <2>4, <3>1 DEF Moved
    <3> QED
      BY <3>2
  <2> QED
    BY <1>4, <1>9, <2>1, <2>4, <2>6, <2>7, <2>8 DEF CommitBooks
<1> QED
  BY <1>9, <1>11, <1>12, <1>13

LEMMA CommitKeepsBooks ==
  ASSUME LedgerInv, NEW r \in Requests, Commit(r)
  PROVE  FreshInv' /\ OrderInv' /\ SumsInv'
<1>1. PICK x \in Requests : CommitBooks(r, x)
  BY CommitMovesBoth
<1>2. /\ accountLock = r /\ pc[r] = "staged" /\ pc'[r] \in {"ended", "asking"}
      /\ \A q \in Requests \ {r} : pc'[q] = pc[q]
      /\ cash \in Nat /\ held \in Nat /\ cash' \in Nat /\ held' \in Nat
  BY CommitDoes DEF LedgerInv, IInv, Types
<1>3. FreshInv'
  <2> SUFFICES ASSUME NEW q \in Requests, pc'[q] \in Early
               PROVE  orders'[q] = NoOrder /\ stranded'[q] = NoFill
    BY DEF FreshInv, Early
  <2>1. q # r /\ pc[q] \in Early
    BY <1>2 DEF Early
  <2>2. orders[q] = NoOrder /\ stranded[q] = NoFill
    BY <2>1 DEF LedgerInv, FreshInv, Early
  <2>3. q # x
    BY <1>1, <2>1, <2>2, NoOrderIsEmpty DEF CommitBooks
  <2> QED
    BY <1>1, <2>2, <2>3 DEF CommitBooks
<1>4. OrderInv'
  <2>1. ASSUME NEW q \in Requests, pc'[q] = "staged" PROVE FALSE
    BY <2>1, <1>2 DEF LedgerInv, IInv, LockInv
  <2> QED
    BY <2>1 DEF OrderInv
<1>5. SumsInv'
  <2>1. Types /\ Types'
    BY CommitTypes DEF LedgerInv, IInv
  <2>2. \A q \in Requests : Cleared(q) \in Int /\ Moved(q) \in Int
    BY <2>1, MovedType
  <2>3. \A q \in Requests : Cleared(q)' \in Int /\ Moved(q)' \in Int
    <3>1. ASSUME NEW q \in Requests PROVE Cleared(q)' \in Int /\ Moved(q)' \in Int
      <4>1. /\ orders'[q].filled \in Nat /\ orders'[q].cash \in Int
            /\ stranded'[q].filled \in Nat /\ stranded'[q].cash \in Int
        BY <2>1 DEF Types, PaperOrders
      <4> QED
        BY <4>1 DEF Cleared, Moved
    <3> QED
      BY <3>1
  <2>4. \A q \in Requests \ {x} : Cleared(q)' = Cleared(q) /\ Moved(q)' = Moved(q)
    BY <1>1 DEF CommitBooks, Cleared, Moved
  <2>5. PICK f, g : f = [q \in Requests |-> Cleared(q)] /\ g = [q \in Requests |-> Cleared(q)']
    OBVIOUS
  <2>6. PICK h, k : h = [q \in Requests |-> Moved(q)] /\ k = [q \in Requests |-> Moved(q)']
    OBVIOUS
  <2>7. f \in [Requests -> Int] /\ g \in [Requests -> Int]
        /\ \A q \in Requests \ {x} : f[q] = g[q]
    BY <2>2, <2>3, <2>4, <2>5
  <2>8. h \in [Requests -> Int] /\ k \in [Requests -> Int]
        /\ \A q \in Requests \ {x} : h[q] = k[q]
    BY <2>2, <2>3, <2>4, <2>6
  <2>9. SumFunction(g) = SumFunction(f) - f[x] + g[x]
    BY <2>7, RequestsAreFinite, SumChange
  <2>10. SumFunction(k) = SumFunction(h) - h[x] + k[x]
    BY <2>8, RequestsAreFinite, SumChange
  <2>11. SumFunction(f) \in Int /\ SumFunction(h) \in Int
    BY <2>7, <2>8, RequestsAreFinite, SumType
  <2>12. cash = StartingCash + SumFunction(f) /\ held = SumFunction(h)
    BY <2>5, <2>6 DEF LedgerInv, SumsInv
  <2>13. cash' - cash = g[x] - f[x] /\ held' - held = k[x] - h[x]
         /\ f[x] \in Int /\ g[x] \in Int /\ h[x] \in Int /\ k[x] \in Int
    BY <1>1, <2>5, <2>6, <2>7, <2>8 DEF CommitBooks
  <2>14. cash' = StartingCash + SumFunction(g) /\ held' = SumFunction(k)
    BY <1>2, <2>9, <2>10, <2>11, <2>12, <2>13, Prices
  <2> QED
    BY <2>5, <2>6, <2>14 DEF SumsInv
<1> QED
  BY <1>3, <1>4, <1>5

LEMMA LedgerNext == LedgerInv /\ [Next]_vars => LedgerInv'
<1> SUFFICES ASSUME LedgerInv, [Next]_vars PROVE LedgerInv'
  OBVIOUS
<1>1. IInv /\ IInv'
  BY InvNext DEF LedgerInv
<1>2. FreshInv' /\ OrderInv' /\ SumsInv'
  <2>1. CASE UNCHANGED <<cash, held, orders, stranded, pc, staged>>
    BY <2>1, BooksAreKept DEF LedgerInv
  <2>2. ASSUME NEW r \in Requests, Begin(r) \/ TakeUser(r) \/ ReadReceipt(r)
             \/ CreateConnection(r) \/ LockPaperConnection(r)
             \/ Fail(r) \/ Reconcile(r) \/ Lookup(r) \/ Die(r)
        PROVE  FreshInv' /\ OrderInv' /\ SumsInv'
    <3>1. UNCHANGED <<cash, held, orders, stranded>>
      BY <2>2 DEF Begin, TakeUser, ReadReceipt, CreateConnection, LockPaperConnection, Fail,
         Reconcile, Lookup, Die, saved
    <3>2. \A q \in Requests \ {r} : pc'[q] = pc[q] /\ staged'[q] = staged[q]
      BY <1>1, <2>2 DEF Begin, TakeUser, ReadReceipt, CreateConnection, LockPaperConnection,
         Fail, Reconcile, Lookup, Die, EndTransaction, Go, IInv, Types
    <3>3. (pc[r] \in Early /\ pc'[r] # "staged") \/ pc'[r] \in {"ended", "asking"}
      BY <1>1, <2>2 DEF Begin, TakeUser, ReadReceipt, CreateConnection, LockPaperConnection,
         Fail, Reconcile, Lookup, Die, Go, IInv, Types, Early
    <3> QED
      BY <3>1, <3>2, <3>3, BooksAreKept DEF LedgerInv, Early
  <2>3. ASSUME NEW r \in Requests, Execute(r) \/ FillPartialOrder(r) \/ Commit(r)
        PROVE  FreshInv' /\ OrderInv' /\ SumsInv'
    BY <2>3, ExecuteKeepsBooks, FillKeepsBooks, CommitKeepsBooks
  <2> QED
    BY <2>1, <2>2, <2>3 DEF Next, Switch, vars, saved
<1> QED
  BY <1>1, <1>2 DEF LedgerInv

\* The account's snapshots are the sum of the fills on the orders, less those whose effects
\* the account refused when they were staged (_apply_fill_effects under the account's row
\* lock).
THEOREM LedgerAlwaysAddsUp == Spec => []LedgerAddsUp
<1>1. Init => LedgerInv
  BY InvInit, LedgerInit DEF LedgerInv
<1>2. LedgerInv => SumsInv
  BY DEF LedgerInv
<1>3. Spec => []SumsInv
  BY <1>1, <1>2, LedgerNext, PTL DEF Spec
<1>4. TypeOK /\ OneAccount /\ SumsInv => LedgerAddsUp
  BY DEF LedgerAddsUp, SumsInv
<1> QED
  BY <1>3, <1>4, OneAccountEver, PTL
=============================================================================
