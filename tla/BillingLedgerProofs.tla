-------------------------- MODULE BillingLedgerProofs --------------------------
(***************************************************************************)
(* Proofs about the wallet ledger for any set of customers, operations,    *)
(* jobs and keys, any amounts and any quota boundary: types, the gapless   *)
(* journal, settled operations, and the reconciliation of wallets, jobs    *)
(* and hourly summaries with the journal, which are sums over finite sets. *)
(*                                                                         *)
(* The lemmas about sums come first.  The folds of the community modules   *)
(* are recursive functions over the subsets of a set; the recursion is     *)
(* shown to have a solution, the solution to be unique and the order of    *)
(* the summands not to matter.  Induction is stated with sets instead of   *)
(* predicates (NatSet), because the induction theorems of the library take *)
(* an operator as a parameter.                                             *)
(***************************************************************************)
EXTENDS BillingLedger, FiniteSetTheorems, WellFoundedInduction, TLAPS

(* A nonempty set of natural numbers has a least element, which Min is. *)
LEMMA MinNat ==
  ASSUME NEW C \in SUBSET Nat, C # {}
  PROVE  Min(C) \in C /\ \A y \in C : Min(C) <= y
<1> DEFINE Less == {p \in Nat \X Nat : p[1] < p[2]}
<1>1. IsWellFoundedOn(Less, Nat)
  BY NatLessThanWellFounded DEF OpToRel
<1>2. \E x \in C : \A y \in C : ~(<<y, x>> \in Less)
  <2> HIDE DEF Less
  <2> QED BY <1>1, WFMin
<1>3. \E x \in C : \A y \in C : x <= y
  <2>1. \A x, y \in Nat : ~(<<y, x>> \in Less) => x <= y
    OBVIOUS
  <2> HIDE DEF Less
  <2> QED BY <1>2, <2>1
<1> QED BY <1>3 DEF Min

(* Min and Max are the least and the greatest element where there is one. *)
LEMMA MinMaxIs ==
  ASSUME NEW C \in SUBSET Nat, NEW x \in C
  PROVE  /\ (\A y \in C : x <= y) => Min(C) = x
         /\ (\A y \in C : x >= y) => Max(C) = x
<1>1. ASSUME \A y \in C : x <= y PROVE Min(C) = x
  <2>1. Min(C) \in C /\ \A y \in C : Min(C) <= y
    BY <1>1 DEF Min
  <2>2. Min(C) \in Nat /\ x \in Nat /\ Min(C) <= x /\ x <= Min(C)
    BY <1>1, <2>1
  <2> QED BY <2>2
<1>2. ASSUME \A y \in C : x >= y PROVE Max(C) = x
  <2>1. Max(C) \in C /\ \A y \in C : Max(C) >= y
    BY <1>2 DEF Max
  <2>2. Max(C) \in Nat /\ x \in Nat /\ Max(C) >= x /\ x >= Max(C)
    BY <1>2, <2>1
  <2> QED BY <2>2
<1> QED BY <1>1, <1>2

(* A set of numbers that holds 0 and the successor of each of its members  *)
(* is Nat.                                                                 *)
LEMMA NatSet ==
  ASSUME NEW N \in SUBSET Nat, 0 \in N, \A n \in N : n + 1 \in N
  PROVE  N = Nat
<1> DEFINE C == Nat \ N
<1> SUFFICES ASSUME C # {} PROVE FALSE
  OBVIOUS
<1>1. PICK x \in C : \A y \in C : x <= y
  <2>1. C \in SUBSET Nat
    OBVIOUS
  <2> HIDE DEF C
  <2> QED BY <2>1, MinNat
<1>2. x - 1 \in Nat /\ x - 1 \notin N
  BY <1>1
<1> QED BY <1>1, <1>2

-----------------------------------------------------------------------------
Pick(s) == CHOOSE x \in s : TRUE
(* The equation a fold computes, for every subset of S *)
SumStep(f, S, g) == g = [s \in SUBSET S |-> IF s = {} THEN 0 ELSE f[Pick(s)] + g[s \ {Pick(s)}]]
(* The summands are numbers *)
Numbers(f, S) == \A x \in S : f[x] \in Int
SumOver(f, S) == (CHOOSE g : SumStep(f, S, g))[S]

(* The subsets of at most n elements *)
Small(S, n) == {s \in SUBSET S : Cardinality(s) <= n}
SumUpTo(f, S, n, g) ==
    \A s \in Small(S, n) : g[s] = IF s = {} THEN 0 ELSE f[Pick(s)] + g[s \ {Pick(s)}]

(* Taking an element out of a nonempty finite set makes it smaller. *)
LEMMA Smaller ==
  ASSUME NEW S, IsFiniteSet(S), NEW s \in SUBSET S, NEW x \in s
  PROVE  /\ s \ {x} \in SUBSET S
         /\ Cardinality(s) \in Nat /\ Cardinality(s \ {x}) \in Nat
         /\ Cardinality(s \ {x}) = Cardinality(s) - 1
<1>1. IsFiniteSet(s)
  BY FS_Subset
<1>2. Cardinality(s) \in Nat /\ IsFiniteSet(s \ {x}) /\ Cardinality(s \ {x}) = Cardinality(s) - 1
  BY <1>1, FS_CardinalityType, FS_RemoveElement
<1> QED BY <1>2, FS_CardinalityType

(* Only the empty set has no elements, and Pick picks a member otherwise. *)
LEMMA PickIn ==
  ASSUME NEW s, s # {}
  PROVE  Pick(s) \in s
BY DEF Pick

(* The recursion of a sum has a solution. *)
LEMMA SumExists ==
  ASSUME NEW S, IsFiniteSet(S), NEW f, Numbers(f, S)
  PROVE  \E g \in [SUBSET S -> Int] : SumStep(f, S, g)
<1> DEFINE N == {n \in Nat : \E g \in [Small(S, n) -> Int] : SumUpTo(f, S, n, g)}
<1>0. \A s \in SUBSET S : IsFiniteSet(s) /\ Cardinality(s) \in Nat /\ (Cardinality(s) = 0 <=> s = {})
  BY FS_Subset, FS_CardinalityType, FS_EmptySet
<1>1. 0 \in N
  <2> DEFINE g == [s \in Small(S, 0) |-> 0]
  <2>1. \A s \in Small(S, 0) : s = {}
    BY <1>0 DEF Small
  <2>2. g \in [Small(S, 0) -> Int] /\ SumUpTo(f, S, 0, g)
    BY <2>1 DEF SumUpTo
  <2> QED BY <2>2
<1>2. ASSUME NEW n \in N PROVE n + 1 \in N
  <2>1. PICK h \in [Small(S, n) -> Int] : SumUpTo(f, S, n, h)
    BY <1>2
  <2> DEFINE g == [s \in Small(S, n + 1) |-> IF s = {} THEN 0 ELSE f[Pick(s)] + h[s \ {Pick(s)}]]
  <2>2. ASSUME NEW s \in Small(S, n + 1), s # {} PROVE Pick(s) \in S /\ s \ {Pick(s)} \in Small(S, n)
    <3>1. Pick(s) \in s /\ s \in SUBSET S /\ Cardinality(s) <= n + 1
      BY <2>2, PickIn DEF Small
    <3> QED BY <3>1, Smaller DEF Small
  <2>3. ASSUME NEW s \in Small(S, n) PROVE g[s] = h[s]
    <3>1. s \in Small(S, n + 1)
      BY <1>0 DEF Small
    <3> QED BY <3>1, <2>1 DEF SumUpTo
  <2>4. g \in [Small(S, n + 1) -> Int]
    BY <2>2 DEF Numbers
  <2>5. SumUpTo(f, S, n + 1, g)
    BY <2>2, <2>3 DEF SumUpTo
  <2>6. \E k \in [Small(S, n + 1) -> Int] : SumUpTo(f, S, n + 1, k)
    BY <2>4, <2>5
  <2> QED BY <2>6
<1>3. N = Nat
  <2> HIDE DEF N
  <2>1. N \in SUBSET Nat
    BY DEF N
  <2> QED BY <1>1, <1>2, <2>1, NatSet
<1>4. PICK g \in [Small(S, Cardinality(S)) -> Int] : SumUpTo(f, S, Cardinality(S), g)
  BY <1>0, <1>3
<1>5. Small(S, Cardinality(S)) = SUBSET S
  BY FS_Subset DEF Small
<1> QED BY <1>4, <1>5 DEF SumUpTo, SumStep

(* The recursion of a sum has one solution. *)
LEMMA SumUnique ==
  ASSUME NEW S, IsFiniteSet(S), NEW f, NEW g, NEW h, SumStep(f, S, g), SumStep(f, S, h)
  PROVE  \A s \in SUBSET S : g[s] = h[s]
<1> DEFINE N == {n \in Nat : \A s \in Small(S, n) : g[s] = h[s]}
<1>0. \A s \in SUBSET S : Cardinality(s) \in Nat /\ (Cardinality(s) = 0 <=> s = {})
  BY FS_Subset, FS_CardinalityType, FS_EmptySet
<1>1. \A s \in SUBSET S : /\ g[s] = IF s = {} THEN 0 ELSE f[Pick(s)] + g[s \ {Pick(s)}]
                         /\ h[s] = IF s = {} THEN 0 ELSE f[Pick(s)] + h[s \ {Pick(s)}]
  BY DEF SumStep
<1>2. 0 \in N
  BY <1>0, <1>1 DEF Small
<1>3. ASSUME NEW n \in N PROVE n + 1 \in N
  <2>1. ASSUME NEW s \in Small(S, n + 1), s # {} PROVE g[s] = h[s]
    <3>1. Pick(s) \in s /\ s \in SUBSET S /\ Cardinality(s) <= n + 1
      BY <2>1, PickIn DEF Small
    <3>2. s \ {Pick(s)} \in Small(S, n)
      BY <3>1, Smaller DEF Small
    <3>3. g[s \ {Pick(s)}] = h[s \ {Pick(s)}]
      BY <3>2
    <3> QED BY <1>1, <3>1, <3>3
  <2>2. \A s \in Small(S, n + 1) : g[s] = h[s]
    BY <1>1, <2>1 DEF Small
  <2> QED BY <2>2
<1>4. N = Nat
  <2> HIDE DEF N
  <2>1. N \in SUBSET Nat
    BY DEF N
  <2> QED BY <1>2, <1>3, <2>1, NatSet
<1>5. ASSUME NEW s \in SUBSET S PROVE g[s] = h[s]
  BY <1>0, <1>4 DEF Small
<1> QED BY <1>5

(* A solution for S is a solution for the sums over the subsets of S, also *)
(* of summands that agree on the subset.                                   *)
LEMMA SumOfSubset ==
  ASSUME NEW S, IsFiniteSet(S), NEW f, NEW g, SumStep(f, S, g), Numbers(f, S),
         NEW T \in SUBSET S, NEW e, \A x \in T : e[x] = f[x]
  PROVE  SumOver(e, T) = g[T]
<1> DEFINE r == [s \in SUBSET T |-> g[s]]
<1>1. SumStep(e, T, r)
  <2>1. ASSUME NEW s \in SUBSET T
        PROVE  r[s] = IF s = {} THEN 0 ELSE e[Pick(s)] + r[s \ {Pick(s)}]
    <3>1. g[s] = IF s = {} THEN 0 ELSE f[Pick(s)] + g[s \ {Pick(s)}]
      BY DEF SumStep
    <3>2. s # {} => Pick(s) \in s
      BY PickIn
    <3> QED BY <3>1, <3>2
  <2> QED BY <2>1 DEF SumStep
<1>2. IsFiniteSet(T)
  BY FS_Subset
<1>3. SumStep(e, T, CHOOSE k : SumStep(e, T, k))
  <2> HIDE DEF r
  <2> QED BY <1>1
<1>4. (CHOOSE k : SumStep(e, T, k))[T] = r[T]
  <2> HIDE DEF r
  <2> QED BY <1>1, <1>2, <1>3, SumUnique
<1> QED BY <1>4 DEF SumOver

(* Any element may be summed last. *)
AnyLast(f, S, g) == \A s \in SUBSET S : \A x \in s : g[s] = f[x] + g[s \ {x}]

(* The order in which the summands are taken does not matter. *)
LEMMA AnyOrder ==
  ASSUME NEW S, IsFiniteSet(S), NEW f, Numbers(f, S),
         NEW g \in [SUBSET S -> Int], SumStep(f, S, g)
  PROVE  AnyLast(f, S, g)
<1> DEFINE N == {n \in Nat : \A s \in Small(S, n) : \A x \in s : g[s] = f[x] + g[s \ {x}]}
<1>0. \A s \in SUBSET S : Cardinality(s) \in Nat /\ (Cardinality(s) = 0 <=> s = {})
  BY FS_Subset, FS_CardinalityType, FS_EmptySet
<1>1. \A s \in SUBSET S : s # {} => Pick(s) \in s /\ g[s] = f[Pick(s)] + g[s \ {Pick(s)}]
  BY PickIn DEF SumStep
<1>2. 0 \in N
  BY <1>0 DEF Small
<1>3. ASSUME NEW n \in N PROVE n + 1 \in N
  <2>1. ASSUME NEW s \in Small(S, n + 1), NEW x \in s PROVE g[s] = f[x] + g[s \ {x}]
    <3> DEFINE y == Pick(s)
    <3>1. s \in SUBSET S /\ Cardinality(s) <= n + 1 /\ y \in s /\ g[s] = f[y] + g[s \ {y}]
      BY <1>1 DEF Small
    <3>2. s \ {x} \in Small(S, n) /\ s \ {y} \in Small(S, n)
      BY <3>1, Smaller DEF Small
    <3> HIDE DEF y
    <3>3. CASE x = y
      BY <3>1, <3>3
    <3>4. CASE x # y
      <4>1. g[s \ {y}] = f[x] + g[(s \ {y}) \ {x}]
        BY <3>1, <3>2, <3>4
      <4>2. g[s \ {x}] = f[y] + g[(s \ {x}) \ {y}]
        BY <3>1, <3>2, <3>4
      <4>3. (s \ {y}) \ {x} = (s \ {x}) \ {y} /\ (s \ {x}) \ {y} \in SUBSET S
        BY <3>1
      <4>4. f[x] \in Int /\ f[y] \in Int /\ g[(s \ {x}) \ {y}] \in Int
        BY <3>1, <4>3 DEF Numbers
      <4>5. g[s] = f[y] + (f[x] + g[(s \ {x}) \ {y}])
        BY <3>1, <4>1, <4>3
      <4>6. \A a, b, c \in Int : a + (b + c) = b + (a + c)
        OBVIOUS
      <4> QED BY <4>2, <4>4, <4>5, <4>6
    <3> QED BY <3>3, <3>4
  <2>2. \A s \in Small(S, n + 1) : \A x \in s : g[s] = f[x] + g[s \ {x}]
    BY <2>1
  <2> QED BY <2>2, SMTT(60)
<1>4. N = Nat
  <2> HIDE DEF N
  <2>1. N \in SUBSET Nat
    BY DEF N
  <2> QED BY <1>2, <1>3, <2>1, NatSet
<1>5. ASSUME NEW s \in SUBSET S, NEW x \in s PROVE g[s] = f[x] + g[s \ {x}]
  BY <1>0, <1>4 DEF Small
<1> QED BY <1>5 DEF AnyLast
-----------------------------------------------------------------------------
(* The facts the proofs about the ledger cite. *)

(* The sum of the community modules is the one studied above. *)
LEMMA SumUnfold ==
  ASSUME NEW f
  PROVE  SumFunction(f) = SumOver(f, DOMAIN f)
BY DEF SumFunction, SumFunctionOnSet, FoldFunctionOnSet, MapThenFoldSet, SumOver, SumStep, Pick

(* Nothing sums to zero. *)
LEMMA SumEmpty ==
  ASSUME NEW f, DOMAIN f = {}
  PROVE  SumFunction(f) = 0
<1>1. PICK g \in [SUBSET {} -> Int] : SumStep(f, {}, g)
  BY SumExists, FS_EmptySet DEF Numbers
<1>2. SumOver(f, {}) = g[{}]
  BY <1>1, SumOfSubset, FS_EmptySet DEF Numbers
<1> QED BY <1>1, <1>2, SumUnfold DEF SumStep

(* A sum of integers is an integer. *)
LEMMA SumInt ==
  ASSUME NEW f, IsFiniteSet(DOMAIN f), \A x \in DOMAIN f : f[x] \in Int
  PROVE  SumFunction(f) \in Int
<1>0. Numbers(f, DOMAIN f)
  BY DEF Numbers
<1>1. PICK g \in [SUBSET DOMAIN f -> Int] : SumStep(f, DOMAIN f, g)
  BY <1>0, SumExists
<1>2. SumOver(f, DOMAIN f) = g[DOMAIN f]
  BY <1>0, <1>1, SumOfSubset
<1> QED BY <1>1, <1>2, SumUnfold

(* h has one more summand than f, at x. *)
OneMore(f, h, x) ==
    /\ IsFiniteSet(DOMAIN f)
    /\ x \notin DOMAIN f /\ DOMAIN h = DOMAIN f \cup {x}
    /\ \A y \in DOMAIN f : h[y] = f[y]
    /\ \A y \in DOMAIN h : h[y] \in Int

(* One more element adds its summand. *)
LEMMA SumAdd ==
  ASSUME NEW f, NEW h, NEW x, OneMore(f, h, x)
  PROVE  SumFunction(h) = SumFunction(f) + h[x] /\ SumFunction(f) \in Int /\ h[x] \in Int
<1> DEFINE S == DOMAIN f
           T == DOMAIN h
<1>1. IsFiniteSet(T)
  BY FS_AddElement DEF OneMore
<1>2. T \ {x} = S /\ x \in T /\ S \in SUBSET T /\ T \in SUBSET T /\ Numbers(h, T)
  BY DEF Numbers, OneMore
<1>3. \A y \in S : f[y] = h[y]
  BY DEF OneMore
<1>4. SumFunction(h) = SumOver(h, T) /\ SumFunction(f) = SumOver(f, S)
  BY SumUnfold
<1> HIDE DEF S, T
<1>5. PICK g \in [SUBSET T -> Int] : SumStep(h, T, g)
  BY <1>1, <1>2, SumExists
<1>6. SumOver(h, T) = g[T] /\ SumOver(f, S) = g[S]
  BY <1>1, <1>2, <1>3, <1>5, SumOfSubset
<1>7. g[T] = h[x] + g[S]
  <2>1. AnyLast(h, T, g)
    BY <1>1, <1>2, <1>5, AnyOrder
  <2> QED BY <2>1, <1>2 DEF AnyLast
<1>8. h[x] \in Int /\ g[S] \in Int
  BY <1>2, <1>5 DEF Numbers
<1> QED BY <1>4, <1>6, <1>7, <1>8

(* h differs from f in the summand at x only. *)
OneOther(f, h, x) ==
    /\ IsFiniteSet(DOMAIN f)
    /\ x \in DOMAIN f /\ DOMAIN h = DOMAIN f
    /\ \A y \in DOMAIN f : y # x => h[y] = f[y]
    /\ \A y \in DOMAIN f : f[y] \in Int /\ h[y] \in Int

(* One changed summand changes the sum by the difference. *)
LEMMA SumChange ==
  ASSUME NEW f, NEW h, NEW x, OneOther(f, h, x)
  PROVE  SumFunction(h) = SumFunction(f) + h[x] - f[x]
<1> DEFINE r == [y \in DOMAIN f \ {x} |-> f[y]]
<1>1. OneMore(r, f, x) /\ OneMore(r, h, x)
  BY FS_RemoveElement DEF OneMore, OneOther
<1> HIDE DEF r
<1>2. SumFunction(f) = SumFunction(r) + f[x] /\ SumFunction(h) = SumFunction(r) + h[x]
  BY <1>1, SumAdd, Zenon
<1>3. SumFunction(r) \in Int /\ f[x] \in Int /\ h[x] \in Int
  BY <1>1, SumAdd, Zenon
<1> QED BY <1>2, <1>3

(* A sum of natural numbers is a natural number. *)
LEMMA SumNat ==
  ASSUME NEW f, IsFiniteSet(DOMAIN f), \A x \in DOMAIN f : f[x] \in Nat
  PROVE  SumFunction(f) \in Nat
<1>0. Numbers(f, DOMAIN f)
  BY DEF Numbers
<1>1. PICK S : S = DOMAIN f
  OBVIOUS
<1>2. PICK g \in [SUBSET S -> Int] : SumStep(f, S, g)
  BY <1>0, <1>1, SumExists
<1>3. SumFunction(f) = g[S]
  BY <1>0, <1>1, <1>2, SumOfSubset, SumUnfold
<1>4. \A s \in SUBSET S : g[s] = IF s = {} THEN 0 ELSE f[Pick(s)] + g[s \ {Pick(s)}]
  BY <1>2 DEF SumStep
<1>5. \A s \in SUBSET S : Cardinality(s) \in Nat /\ (Cardinality(s) = 0 <=> s = {})
  BY <1>1, FS_Subset, FS_CardinalityType, FS_EmptySet
<1> DEFINE N == {n \in Nat : \A s \in Small(S, n) : g[s] \in Nat}
<1>6. 0 \in N
  BY <1>4, <1>5 DEF Small
<1>7. ASSUME NEW n \in N PROVE n + 1 \in N
  <2>1. ASSUME NEW s \in Small(S, n + 1), s # {} PROVE g[s] \in Nat
    <3>1. Pick(s) \in s /\ s \in SUBSET S /\ Cardinality(s) <= n + 1
      BY <2>1, PickIn DEF Small
    <3>2. s \ {Pick(s)} \in Small(S, n)
      BY <1>1, <3>1, Smaller DEF Small
    <3>3. g[s \ {Pick(s)}] \in Nat /\ f[Pick(s)] \in Nat
      BY <1>1, <3>1, <3>2
    <3> QED BY <1>4, <2>1, <3>1, <3>3
  <2>2. g[{}] = 0
    BY <1>4
  <2>3. ASSUME NEW s \in Small(S, n + 1) PROVE g[s] \in Nat
    <3>1. CASE s = {}
      BY <2>2, <3>1
    <3> QED BY <2>1, <3>1
  <2> QED BY <2>3
<1>8. N = Nat
  <2> HIDE DEF N
  <2>1. N \in SUBSET Nat
    BY DEF N
  <2> QED BY <1>6, <1>7, <2>1, NatSet
<1> QED BY <1>3, <1>5, <1>8 DEF Small

(* It is at least each of its summands. *)
LEMMA SumAtLeast ==
  ASSUME NEW f, IsFiniteSet(DOMAIN f), \A y \in DOMAIN f : f[y] \in Nat, NEW x \in DOMAIN f
  PROVE  f[x] <= SumFunction(f) /\ SumFunction(f) \in Nat
<1> DEFINE r == [y \in DOMAIN f \ {x} |-> f[y]]
<1>0. IsFiniteSet(DOMAIN f \ {x})
  BY FS_RemoveElement
<1>1. OneMore(r, f, x) /\ IsFiniteSet(DOMAIN r) /\ \A y \in DOMAIN r : r[y] \in Nat
  BY <1>0 DEF OneMore
<1> HIDE DEF r
<1>2. SumFunction(f) = SumFunction(r) + f[x]
  BY <1>1, SumAdd, Zenon
<1>3. SumFunction(r) \in Nat /\ SumFunction(f) \in Nat /\ f[x] \in Nat
  BY <1>1, SumNat
<1> QED BY <1>2, <1>3

(* A sum over some of the arguments of f is the sum of f's restriction. *)
LEMMA SumOnSet ==
  ASSUME NEW f, NEW h, IsFiniteSet(DOMAIN h), \A x \in DOMAIN h : h[x] = f[x] /\ f[x] \in Int
  PROVE  SumFunctionOnSet(f, DOMAIN h) = SumFunction(h)
<1>1. PICK S : S = DOMAIN h
  OBVIOUS
<1>2. Numbers(h, S)
  BY <1>1 DEF Numbers
<1>3. PICK g \in [SUBSET S -> Int] : SumStep(h, S, g)
  BY <1>1, <1>2, SumExists
<1>4. SumOver(f, S) = g[S] /\ SumOver(h, S) = g[S]
  BY <1>1, <1>2, <1>3, SumOfSubset
<1>5. SumFunctionOnSet(f, S) = SumOver(f, S)
  BY DEF SumFunctionOnSet, FoldFunctionOnSet, MapThenFoldSet, SumOver, SumStep, Pick
<1> QED BY <1>1, <1>4, <1>5, SumUnfold

(* Zeros sum to zero. *)
LEMMA SumZero ==
  ASSUME NEW f, IsFiniteSet(DOMAIN f), \A x \in DOMAIN f : f[x] = 0
  PROVE  SumFunction(f) = 0
<1>1. PICK S : S = DOMAIN f
  OBVIOUS
<1> DEFINE g == [s \in SUBSET S |-> 0]
<1>2. Numbers(f, S) /\ S \in SUBSET S
  BY <1>1 DEF Numbers
<1>3. \A s \in SUBSET S : s # {} => Pick(s) \in S /\ s \ {Pick(s)} \in SUBSET S
  BY PickIn
<1>4. SumStep(f, S, g)
  BY <1>1, <1>3 DEF SumStep
<1>5. g[S] = 0
  OBVIOUS
<1> HIDE DEF g
<1>6. SumOver(f, S) = g[S]
  BY <1>1, <1>2, <1>4, SumOfSubset
<1> QED BY <1>1, <1>5, <1>6, SumUnfold

-----------------------------------------------------------------------------
(* An appended entry is well formed, and the account and the hourly        *)
(* summaries keep their types.                                             *)
LEMMA AppendTypes ==
  ASSUME LedgerTypeOK, quota' \in [Users -> Balances], NEW u \in Users, NEW key \in EventKeys,
         NEW kind \in Kinds, NEW q \in Int, NEW delta \in Int,
         appendBillingEntry(u, key, kind, q, delta)
  PROVE  /\ entries' \subseteq Entry
         /\ account' \in [Users -> AccountRow]
         /\ hours' \in [Users -> [1..MaxHour -> HourRow]]
<1> DEFINE sequence == account[u].sequence + 1
<1>1. account[u] \in AccountRow /\ sequence \in Nat /\ now \in 1..MaxHour /\ now \in Nat
  BY ClockAssumption DEF LedgerTypeOK, AccountRow
<1>2. entries' \subseteq Entry
  BY <1>1 DEF appendBillingEntry, LedgerTypeOK, Entry
<1>3. account' \in [Users -> AccountRow]
  BY <1>1 DEF appendBillingEntry, LedgerTypeOK, AccountRow
<1>4. hours' \in [Users -> [1..MaxHour -> HourRow]]
  <2> DEFINE hour == hours[u][now]
  <2>1. hour \in HourRow
    BY <1>1 DEF LedgerTypeOK
  <2>2. CASE Formal(u, kind, sequence)
    <3>1. /\ hour.charge + ChargeOf(q) <= MaxWalletQuota
          /\ hour.refund + RefundOf(q) <= MaxWalletQuota
          /\ hours' = [hours EXCEPT ![u][now] = HourWith(@, q, sequence)]
      BY <2>2 DEF appendBillingEntry
    <3>2. HourWith(hour, q, sequence) \in HourRow
      BY <2>1, <3>1, <1>1, MaxWalletQuotaAssumption DEF HourWith, HourRow, ChargeOf, RefundOf
    <3> QED BY <3>1, <3>2, <1>1 DEF LedgerTypeOK
  <2>3. CASE ~Formal(u, kind, sequence)
    BY <2>3 DEF appendBillingEntry, LedgerTypeOK
  <2> QED BY <2>2, <2>3
<1> QED BY <1>2, <1>3, <1>4

(* A wallet change keeps every balance inside the quota boundary.          *)
LEMMA WalletTypes ==
  ASSUME LedgerTypeOK, NEW u \in Users, NEW delta \in Int, changeBillingWallet(u, delta)
  PROVE  quota' \in [Users -> Balances]
BY DEF changeBillingWallet, WalletFits, LedgerTypeOK

(* A repeated call that changes nothing keeps the types.                   *)
LEMMA StutterTypes ==
  ASSUME LedgerTypeOK, UNCHANGED ledgerVars
  PROVE  LedgerTypeOK'
BY DEF LedgerTypeOK, ledgerVars

(* Opening, resizing and refunding a reservation keep balances and         *)
(* reservations within the boundary.                                       *)
LEMMA ReservationTypes ==
  ASSUME LedgerTypeOK, NEW o \in Ops, NEW a \in Int,
         BeginBillingOperation(o, a) \/ ResizeBillingReservation(o, a) \/ RefundOperation(o)
  PROVE  LedgerTypeOK'
<1>1. Owner[o] \in Users /\ operation[o] \in OperationRow
  BY OwnerAssumption DEF LedgerTypeOK
<1>2. CASE BeginBillingOperation(o, a)
  <2>1. quota' \in [Users -> Balances]
    BY <1>1, <1>2, WalletTypes DEF BeginBillingOperation
  <2>2. operation' \in [Ops -> OperationRow]
    BY <1>2, MaxWalletQuotaAssumption DEF BeginBillingOperation, LedgerTypeOK, OperationRow, States
  <2> QED BY <2>1, <2>2, <1>2 DEF BeginBillingOperation, LedgerTypeOK
<1>3. CASE ResizeBillingReservation(o, a)
  <2>1. quota' \in [Users -> Balances]
    BY <1>1, <1>3, WalletTypes DEF ResizeBillingReservation, OperationRow
  <2>2. operation' \in [Ops -> OperationRow]
    BY <1>3, <1>1 DEF ResizeBillingReservation, LedgerTypeOK, OperationRow
  <2> QED BY <2>1, <2>2, <1>3 DEF ResizeBillingReservation, LedgerTypeOK
<1>4. CASE RefundOperation(o)
  <2>1. quota' \in [Users -> Balances]
    BY <1>1, <1>4, WalletTypes DEF RefundOperation, OperationRow
  <2>2. operation' \in [Ops -> OperationRow]
    <3>1. 0 \in 0..MaxWalletQuota
      BY MaxWalletQuotaAssumption
    <3>2. \A z \in 0..MaxWalletQuota : [operation[o] EXCEPT !.state = "refunded", !.actual = z] \in OperationRow
      BY <1>1 DEF OperationRow, States
    <3>3. [operation[o] EXCEPT !.state = "refunded", !.actual = 0] \in OperationRow
      BY <3>1, <3>2
    <3> QED BY <1>4, <3>3 DEF RefundOperation, LedgerTypeOK
  <2> QED BY <2>1, <2>2, <1>4 DEF RefundOperation, LedgerTypeOK
<1> QED BY <1>2, <1>3, <1>4

(* A settlement (FinishBillingOperation) keeps the types and the boundary. *)
LEMMA SettleTypes ==
  ASSUME LedgerTypeOK, NEW o \in Ops, NEW a \in 0..MaxWalletQuota, SettleOperation(o, a)
  PROVE  LedgerTypeOK'
<1>1. Owner[o] \in Users /\ operation[o] \in OperationRow /\ a \in Int /\ -a \in Int
  BY OwnerAssumption, MaxWalletQuotaAssumption DEF LedgerTypeOK
<1>2. quota' \in [Users -> Balances]
  BY <1>1, WalletTypes DEF SettleOperation, OperationRow
<1>3. <<"settle", o>> \in EventKeys /\ "usage" \in Kinds
  BY DEF EventKeys, Kinds
<1>4. appendBillingEntry(Owner[o], <<"settle", o>>, "usage", a, -a)
  BY DEF SettleOperation
<1>5. /\ entries' \subseteq Entry /\ account' \in [Users -> AccountRow]
      /\ hours' \in [Users -> [1..MaxHour -> HourRow]]
  BY <1>1, <1>2, <1>3, <1>4, AppendTypes
<1>6. operation' \in [Ops -> OperationRow]
  BY <1>1 DEF SettleOperation, LedgerTypeOK, OperationRow, States
<1> QED BY <1>2, <1>5, <1>6 DEF SettleOperation, LedgerTypeOK

(* An administrative entry (PostBillingAdjustment) keeps the types and the *)
(* boundary.                                                               *)
LEMMA PostTypes ==
  ASSUME LedgerTypeOK, NEW k \in Keys, NEW u \in Users, NEW kind \in Kinds, NEW q \in Int, NEW d \in Int,
         PostEntry(k, u, kind, q, d)
  PROVE  LedgerTypeOK'
<1>1. quota' \in [Users -> Balances]
  BY WalletTypes DEF PostEntry
<1>2. <<"admin", k>> \in EventKeys
  BY DEF EventKeys
<1>3. /\ entries' \subseteq Entry /\ account' \in [Users -> AccountRow]
      /\ hours' \in [Users -> [1..MaxHour -> HourRow]]
  BY <1>1, <1>2, AppendTypes DEF PostEntry
<1> QED BY <1>1, <1>3 DEF PostEntry, LedgerTypeOK

(* A job adjustment keeps the types: the new quota of the row is the       *)
(* target.                                                                 *)
LEMMA AdjustTypes ==
  ASSUME LedgerTypeOK, NEW j \in Jobs, NEW target \in 0..MaxWalletQuota, AdjustJob(j, target)
  PROVE  LedgerTypeOK'
<1> DEFINE u == Owner[j]
           delta == target - jobQuota[j]
           key == <<"job", j, u, account[u].sequence + 1>>
<1>1. u \in Users /\ delta \in Int /\ -delta \in Int /\ account[u].sequence + 1 \in Nat
  BY OwnerAssumption, MaxWalletQuotaAssumption DEF LedgerTypeOK, AccountRow
<1>2. quota' \in [Users -> Balances]
  BY <1>1, WalletTypes DEF AdjustJob
<1>3. key \in EventKeys /\ "task_adjustment" \in Kinds
  BY <1>1 DEF EventKeys, Kinds
<1>4. appendBillingEntry(u, key, "task_adjustment", delta, -delta)
  BY DEF AdjustJob
<1>5. /\ entries' \subseteq Entry /\ account' \in [Users -> AccountRow]
      /\ hours' \in [Users -> [1..MaxHour -> HourRow]]
  <2> HIDE DEF u, delta, key
  <2> QED BY <1>1, <1>2, <1>3, <1>4, AppendTypes
<1> QED BY <1>2, <1>5 DEF AdjustJob, LedgerTypeOK

(* The type invariant is inductive.                                        *)
LEMMA TypeStep ==
  ASSUME LedgerTypeOK, [LedgerNext]_ledgerVars
  PROVE  LedgerTypeOK'
<1>1. CASE UNCHANGED ledgerVars
  BY <1>1, StutterTypes
<1>2. ASSUME NEW o \in Ops, NEW a \in Amounts,
             BeginBillingOperation(o, a) \/ ResizeBillingReservation(o, a)
      PROVE  LedgerTypeOK'
  BY <1>2, ReservationTypes, AmountsAssumption
<1>3. ASSUME NEW o \in Ops, NEW a \in Amounts, NEW refund \in BOOLEAN, FinishBillingOperation(o, a, refund)
      PROVE  LedgerTypeOK'
  <2>1. a \in 0..MaxWalletQuota /\ a \in Int
    BY <1>3, MaxWalletQuotaAssumption DEF FinishBillingOperation
  <2>2. UNCHANGED ledgerVars \/ SettleOperation(o, a) \/ RefundOperation(o)
    BY <1>3 DEF FinishBillingOperation
  <2> QED BY <2>1, <2>2, StutterTypes, SettleTypes, ReservationTypes
<1>4. ASSUME NEW k \in Keys, NEW u \in Users, NEW kind \in Kinds, NEW q \in Int, NEW d \in Int,
             PostBillingAdjustment(k, u, kind, q, d)
      PROVE  LedgerTypeOK'
  <2>1. UNCHANGED ledgerVars \/ PostEntry(k, u, kind, q, d)
    BY <1>4 DEF PostBillingAdjustment
  <2> QED BY <2>1, StutterTypes, PostTypes
<1>5. ASSUME NEW k \in Keys, NEW u \in Users, NEW a \in Amounts, OverrideBalance(k, u, a)
      PROVE  LedgerTypeOK'
  <2>1. UNCHANGED ledgerVars \/ PostEntry(k, u, "funding", 0, a - quota[u])
    BY <1>5 DEF OverrideBalance
  <2>2. a - quota[u] \in Int /\ "funding" \in Kinds /\ 0 \in Int
    BY AmountsAssumption, MaxWalletQuotaAssumption DEF LedgerTypeOK, Balances, Kinds
  <2> QED BY <2>1, <2>2, StutterTypes, PostTypes
<1>6. ASSUME NEW j \in Jobs, NEW seen, NEW target \in Int,
             AdjustBillingTaskQuota(j, seen, target) \/ RefundBillingMidjourney(j, seen)
      PROVE  LedgerTypeOK'
  <2>1. CASE AdjustBillingTaskQuota(j, seen, target)
    BY <2>1, StutterTypes, AdjustTypes DEF AdjustBillingTaskQuota
  <2>2. CASE RefundBillingMidjourney(j, seen)
    BY <2>2, StutterTypes, AdjustTypes, MaxWalletQuotaAssumption DEF RefundBillingMidjourney
  <2> QED BY <1>6, <2>1, <2>2
<1>7. ASSUME NEW u \in Users, NEW v \in 0..MaxVersion, SaveProfile(u, v)
      PROVE  LedgerTypeOK'
  <2>1. account[u] \in AccountRow /\ account[u].version + 1 \in 0..MaxVersion
    BY <1>7, ClockAssumption DEF SaveProfile, LedgerTypeOK, AccountRow
  <2>2. account' \in [Users -> AccountRow]
    BY <1>7, <2>1 DEF SaveProfile, LedgerTypeOK, AccountRow
  <2> QED BY <1>7, <2>2 DEF SaveProfile, LedgerTypeOK
<1>8. ASSUME NEW u \in Users, NEW v \in 0..MaxVersion, NEW start \in 0..MaxHour,
             ConfigureAccountingStart(u, v, start)
      PROVE  LedgerTypeOK'
  <2>1. /\ account[u] \in AccountRow /\ (IF start = 0 THEN now ELSE start) \in 0..MaxHour
        /\ account[u].version + 1 \in 0..MaxVersion /\ account[u].sequence + 1 \in Nat
    BY <1>8, ClockAssumption DEF ConfigureAccountingStart, LedgerTypeOK, AccountRow
  <2>2. account' \in [Users -> AccountRow]
    BY <1>8, <2>1 DEF ConfigureAccountingStart, LedgerTypeOK, AccountRow
  <2> QED BY <1>8, <2>2 DEF ConfigureAccountingStart, LedgerTypeOK
<1>9. CASE Tick
  BY <1>9, ClockAssumption DEF Tick, LedgerTypeOK
<1>10. \A a \in Amounts : a \in Int /\ -a \in Int
  BY AmountsAssumption
<1>11. "adjustment" \in Kinds /\ "funding" \in Kinds /\ 0 \in Int /\ Tasks \subseteq Jobs /\ Midjourneys \subseteq Jobs
  BY DEF Kinds, Jobs
<1> QED
  BY <1>1, <1>2, <1>3, <1>4, <1>5, <1>6, <1>7, <1>8, <1>9, <1>10, <1>11 DEF LedgerNext

(* The ledger begins empty, with wallets and jobs as they were opened.     *)
LEMMA LedgerInitTypes == LedgerInit => LedgerTypeOK
BY MaxWalletQuotaAssumption, OpeningAssumption, JobOpeningAssumption, ClockAssumption
   DEF LedgerInit, LedgerTypeOK, OperationRow, AccountRow, HourRow, EmptyHour, States, Balances

(* Every reachable state of the ledger is well typed and within bounds.    *)
THEOREM LedgerTypeCorrect == LedgerSpec => []LedgerTypeOK
<1>1. LedgerTypeOK /\ [LedgerNext]_ledgerVars => LedgerTypeOK'
  BY TypeStep
<1> QED BY LedgerInitTypes, <1>1, PTL DEF LedgerSpec

-----------------------------------------------------------------------------
(* What the safety proofs need to know of a step: the profile and clock    *)
(* steps leave wallets, operations, entries and sequences alone and move   *)
(* the accounting start only past entries that do not count, every other   *)
(* step is one of five transactions.                                       *)

StartKept(u) == account'[u].startAt = account[u].startAt /\ account'[u].startSequence = account[u].startSequence
StartMoved(u) ==
  /\ account[u].startAt > 0 => FormalEntries(u) = {}
  /\ account'[u].startSequence = account[u].sequence + 1

ProfileStep ==
  /\ UNCHANGED <<quota, operation, entries, hours, jobQuota>>
  /\ \A u \in Users : account'[u].sequence = account[u].sequence /\ (StartKept(u) \/ StartMoved(u))

Transaction ==
  \/ ProfileStep
  \/ \E o \in Ops, a \in Int : BeginBillingOperation(o, a) \/ ResizeBillingReservation(o, a)
  \/ \E o \in Ops : RefundOperation(o)
  \/ \E o \in Ops, a \in 0..MaxWalletQuota : SettleOperation(o, a)
  \/ \E k \in Keys, u \in Users, kind \in Kinds, q \in Int, d \in Int : PostEntry(k, u, kind, q, d)
  \/ \E j \in Jobs, target \in 0..MaxWalletQuota : AdjustJob(j, target)

(* Every step of the ledger touches neither journal nor operations, or it  *)
(* is one of the five transactions.                                        *)
LEMMA StepCases ==
  ASSUME LedgerTypeOK, [LedgerNext]_ledgerVars
  PROVE  Transaction
<1> USE DEF Transaction
<1>1. UNCHANGED ledgerVars => Transaction
  BY DEF ledgerVars, ProfileStep, StartKept
<1>2. ASSUME NEW o \in Ops, NEW a \in Amounts,
             BeginBillingOperation(o, a) \/ ResizeBillingReservation(o, a)
      PROVE  Transaction
  BY <1>2, AmountsAssumption
<1>3. ASSUME NEW o \in Ops, NEW a \in Amounts, NEW refund \in BOOLEAN, FinishBillingOperation(o, a, refund)
      PROVE  Transaction
  <2>1. a \in 0..MaxWalletQuota /\ (UNCHANGED ledgerVars \/ SettleOperation(o, a) \/ RefundOperation(o))
    BY <1>3 DEF FinishBillingOperation
  <2> QED BY <1>1, <2>1
<1>4. ASSUME NEW k \in Keys, NEW u \in Users, NEW kind \in Kinds, NEW q \in Int, NEW d \in Int,
             PostBillingAdjustment(k, u, kind, q, d)
      PROVE  Transaction
  <2>1. UNCHANGED ledgerVars \/ PostEntry(k, u, kind, q, d)
    BY <1>4 DEF PostBillingAdjustment
  <2> QED BY <1>1, <2>1
<1>5. ASSUME NEW k \in Keys, NEW u \in Users, NEW a \in Amounts, OverrideBalance(k, u, a)
      PROVE  Transaction
  <2>1. UNCHANGED ledgerVars \/ PostEntry(k, u, "funding", 0, a - quota[u])
    BY <1>5 DEF OverrideBalance
  <2>2. a - quota[u] \in Int /\ "funding" \in Kinds /\ 0 \in Int
    BY AmountsAssumption, MaxWalletQuotaAssumption DEF LedgerTypeOK, Balances, Kinds
  <2> QED BY <1>1, <2>1, <2>2
<1>6. ASSUME NEW j \in Jobs, NEW seen, NEW target \in Int,
             AdjustBillingTaskQuota(j, seen, target) \/ RefundBillingMidjourney(j, seen)
      PROVE  Transaction
  <2>1. CASE AdjustBillingTaskQuota(j, seen, target)
    BY <2>1, <1>1 DEF AdjustBillingTaskQuota
  <2>2. CASE RefundBillingMidjourney(j, seen)
    <3>1. 0 \in 0..MaxWalletQuota
      BY MaxWalletQuotaAssumption
    <3>2. UNCHANGED ledgerVars \/ AdjustJob(j, 0)
      BY <2>2 DEF RefundBillingMidjourney
    <3> QED BY <1>1, <3>1, <3>2
  <2> QED BY <1>6, <2>1, <2>2
<1>7. ASSUME NEW u \in Users, NEW v \in 0..MaxVersion, SaveProfile(u, v)
      PROVE  ProfileStep
  BY <1>7 DEF SaveProfile, ProfileStep, StartKept, LedgerTypeOK, AccountRow
<1>8. ASSUME NEW u \in Users, NEW v \in 0..MaxVersion, NEW start \in 0..MaxHour,
             ConfigureAccountingStart(u, v, start)
      PROVE  ProfileStep
  BY <1>8 DEF ConfigureAccountingStart, ProfileStep, StartKept, StartMoved, LedgerTypeOK, AccountRow
<1>9. CASE Tick
  BY <1>9 DEF Tick, ProfileStep, StartKept
<1>10. \A a \in Amounts : a \in Int /\ -a \in Int
  BY AmountsAssumption
<1>11. "adjustment" \in Kinds /\ "funding" \in Kinds /\ 0 \in Int /\ Tasks \subseteq Jobs /\ Midjourneys \subseteq Jobs
  BY DEF Kinds, Jobs
<1> HIDE DEF Transaction
<1>12. ProfileStep => Transaction
  BY DEF Transaction
<1> QED
  BY <1>1, <1>2, <1>3, <1>4, <1>5, <1>6, <1>7, <1>8, <1>9, <1>10, <1>11, <1>12 DEF LedgerNext

(* Appending one entry keeps the sequence gapless.                         *)
LEMMA AppendGapless ==
  ASSUME LedgerTypeOK, SequenceGapless, NEW u \in Users, NEW key, NEW kind, NEW q, NEW delta,
         appendBillingEntry(u, key, kind, q, delta)
  PROVE  SequenceGapless'
<1> DEFINE n == account[u].sequence
           new == [user |-> u, sequence |-> n + 1, key |-> key, kind |-> kind, quota |-> q,
                   walletDelta |-> delta, balanceAfter |-> quota'[u], postedAt |-> now]
<1>1. /\ n \in Nat /\ account \in [Users -> AccountRow]
      /\ \A e \in entries : e.sequence \in Nat
  BY DEF LedgerTypeOK, AccountRow, Entry
<1>2. /\ entries' = entries \cup {new}
      /\ account' = [account EXCEPT ![u].sequence = n + 1]
  BY DEF appendBillingEntry
<1>3. new.user = u /\ new.sequence = n + 1
  OBVIOUS
<1> HIDE DEF new
<1> SUFFICES ASSUME NEW v \in Users
             PROVE  /\ {e.sequence : e \in EntriesOf(v)'} = 1..account'[v].sequence
                    /\ \A e, f \in EntriesOf(v)' : e.sequence = f.sequence => e = f
  BY DEF SequenceGapless
<1>4. /\ {e.sequence : e \in EntriesOf(v)} = 1..account[v].sequence
      /\ \A e, f \in EntriesOf(v) : e.sequence = f.sequence => e = f
  BY DEF SequenceGapless
<1>5. CASE v # u
  <2>1. EntriesOf(v)' = EntriesOf(v) /\ account'[v] = account[v]
    BY <1>1, <1>2, <1>3, <1>5 DEF EntriesOf
  <2> QED BY <2>1, <1>4
<1>6. CASE v = u
  <2>1. EntriesOf(v)' = EntriesOf(v) \cup {new} /\ account'[v].sequence = n + 1
    BY <1>1, <1>2, <1>3, <1>6 DEF EntriesOf, AccountRow
  <2>2. \A e \in EntriesOf(v) : e.sequence \in 1..n
    BY <1>4, <1>6
  <2>3. {e.sequence : e \in EntriesOf(v)'} = {e.sequence : e \in EntriesOf(v)} \cup {n + 1}
    BY <2>1, <1>3
  <2>4. (1..n) \cup {n + 1} = 1..(n + 1)
    BY <1>1
  <2>5. {e.sequence : e \in EntriesOf(v)'} = 1..account'[v].sequence
    BY <2>1, <2>3, <2>4, <1>4, <1>6
  <2>6. ~(n + 1 \in 1..n)
    BY <1>1
  <2>7. \A e, f \in EntriesOf(v)' : e.sequence = f.sequence => e = f
    BY <2>1, <2>2, <2>6, <1>3, <1>4
  <2> QED BY <2>5, <2>7
<1> QED BY <1>5, <1>6

(* Every step keeps the journals gapless.                                  *)
LEMMA GaplessStep ==
  ASSUME LedgerTypeOK, SequenceGapless, [LedgerNext]_ledgerVars
  PROVE  SequenceGapless'
<1>1. ASSUME UNCHANGED entries, \A u \in Users : account'[u].sequence = account[u].sequence
      PROVE  SequenceGapless'
  BY <1>1 DEF SequenceGapless, EntriesOf
<1>2. ASSUME ProfileStep PROVE SequenceGapless'
  BY <1>1, <1>2 DEF ProfileStep
<1>3. ASSUME NEW o \in Ops, NEW a, BeginBillingOperation(o, a) \/ ResizeBillingReservation(o, a) \/ RefundOperation(o)
      PROVE  SequenceGapless'
  BY <1>1, <1>3 DEF BeginBillingOperation, ResizeBillingReservation, RefundOperation
<1>4. ASSUME NEW o \in Ops, NEW a, SettleOperation(o, a)
      PROVE  SequenceGapless'
  <2>1. Owner[o] \in Users
    BY OwnerAssumption
  <2> QED BY <1>4, <2>1, AppendGapless DEF SettleOperation
<1>5. ASSUME NEW k, NEW u \in Users, NEW kind, NEW q, NEW d, PostEntry(k, u, kind, q, d)
      PROVE  SequenceGapless'
  BY <1>5, AppendGapless DEF PostEntry
<1>6. ASSUME NEW j \in Jobs, NEW target, AdjustJob(j, target)
      PROVE  SequenceGapless'
  <2>1. Owner[j] \in Users
    BY OwnerAssumption
  <2> QED BY <1>6, <2>1, AppendGapless DEF AdjustJob
<1> QED BY StepCases, <1>2, <1>3, <1>4, <1>5, <1>6 DEF Transaction

(* The journal of a customer has no gap and no repeated number, whatever   *)
(* transactions interleave (appendBillingEntry writes the sequence back).  *)
THEOREM JournalGapless == LedgerSpec => []SequenceGapless
<1>1. LedgerInit => SequenceGapless
  BY DEF LedgerInit, SequenceGapless, EntriesOf
<1>2. LedgerTypeOK /\ SequenceGapless /\ [LedgerNext]_ledgerVars => SequenceGapless'
  BY GaplessStep
<1> QED BY <1>1, <1>2, LedgerTypeCorrect, PTL DEF LedgerSpec

-----------------------------------------------------------------------------
(* Keys of different kinds of events differ.                               *)
LEMMA KeysDiffer ==
  ASSUME NEW o, NEW k, NEW j, NEW u, NEW n
  PROVE  <<"admin", k>> # <<"settle", o>> /\ <<"job", j, u, n>> # <<"settle", o>>
<1>1. <<"admin", k>>[1] # <<"settle", o>>[1]
  OBVIOUS
<1>2. <<"job", j, u, n>>[1] # <<"settle", o>>[1]
  OBVIOUS
<1> QED BY <1>1, <1>2

(* Every step keeps charges and settled operations in one-to-one           *)
(* correspondence: only a settlement writes a settle key, and the unique   *)
(* index excludes a second one.                                            *)
LEMMA ChargeStep ==
  ASSUME LedgerTypeOK, ChargedIffSettled, [LedgerNext]_ledgerVars
  PROVE  ChargedIffSettled'
<1> DEFINE Charge(o) ==
      IF operation[o].state = "settled"
      THEN \E e \in SettleEntries(o) : e.user = Owner[o] /\ e.quota = operation[o].actual
      ELSE SettleEntries(o) = {}
<1> SUFFICES ASSUME NEW p \in Ops PROVE Charge(p)'
  BY DEF ChargedIffSettled
<1>0. Charge(p) /\ operation \in [Ops -> OperationRow]
  BY DEF ChargedIffSettled, LedgerTypeOK
<1>1. ASSUME UNCHANGED SettleEntries(p), operation'[p] = operation[p] PROVE Charge(p)'
  BY <1>0, <1>1
<1>2. ASSUME ProfileStep PROVE Charge(p)'
  BY <1>1, <1>2 DEF ProfileStep, SettleEntries
<1>3. ASSUME NEW o \in Ops, NEW a, BeginBillingOperation(o, a) \/ ResizeBillingReservation(o, a) \/ RefundOperation(o)
      PROVE  Charge(p)'
  <2>1. UNCHANGED SettleEntries(p)
    BY <1>3 DEF BeginBillingOperation, ResizeBillingReservation, RefundOperation, SettleEntries
  <2>2. CASE p # o
    BY <1>0, <1>1, <1>3, <2>1, <2>2 DEF BeginBillingOperation, ResizeBillingReservation, RefundOperation
  <2>3. CASE p = o
    <3>1. operation[o].state \in {"absent", "reserved"} /\ operation[o] \in OperationRow
      BY <1>0, <1>3 DEF BeginBillingOperation, ResizeBillingReservation, RefundOperation
    <3>2. SettleEntries(p)' = {}
      BY <1>0, <2>1, <2>3, <3>1
    <3>3. operation'[o].state \in {"reserved", "refunded"}
      <4>1. CASE BeginBillingOperation(o, a)
        BY <1>0, <4>1 DEF BeginBillingOperation
      <4>2. CASE ResizeBillingReservation(o, a)
        BY <1>0, <4>2, <3>1 DEF ResizeBillingReservation, OperationRow
      <4>3. CASE RefundOperation(o)
        BY <1>0, <4>3, <3>1 DEF RefundOperation, OperationRow
      <4> QED BY <1>3, <4>1, <4>2, <4>3
    <3> QED BY <2>3, <3>2, <3>3
  <2> QED BY <2>2, <2>3
<1>4. ASSUME NEW o \in Ops, NEW a, SettleOperation(o, a)
      PROVE  Charge(p)'
  <2> DEFINE new == [user |-> Owner[o], sequence |-> account[Owner[o]].sequence + 1, key |-> <<"settle", o>>,
                     kind |-> "usage", quota |-> a, walletDelta |-> -a, balanceAfter |-> quota'[Owner[o]],
                     postedAt |-> now]
  <2>1. entries' = entries \cup {new}
    BY <1>4 DEF SettleOperation, appendBillingEntry
  <2>2. new.key = <<"settle", o>> /\ new.user = Owner[o] /\ new.quota = a
    OBVIOUS
  <2>3. operation'[o].state = "settled" /\ operation'[o].actual = a
    BY <1>4, <1>0 DEF SettleOperation, OperationRow
  <2> HIDE DEF new
  <2>4. CASE p = o
    <3>1. new \in SettleEntries(p)'
      BY <2>1, <2>2, <2>4 DEF SettleEntries
    <3> QED BY <2>2, <2>3, <2>4, <3>1
  <2>5. CASE p # o
    <3>1. UNCHANGED SettleEntries(p)
      BY <2>1, <2>2, <2>5 DEF SettleEntries
    <3>2. operation'[p] = operation[p]
      BY <1>4, <1>0, <2>5 DEF SettleOperation
    <3> QED BY <1>1, <3>1, <3>2
  <2> QED BY <2>4, <2>5
<1>5. ASSUME NEW k, NEW u \in Users, NEW kind, NEW q, NEW d, PostEntry(k, u, kind, q, d)
      PROVE  Charge(p)'
  <2>1. UNCHANGED SettleEntries(p)
    BY <1>5, KeysDiffer DEF PostEntry, appendBillingEntry, SettleEntries
  <2> QED BY <1>1, <1>5, <2>1 DEF PostEntry
<1>6. ASSUME NEW j \in Jobs, NEW target, AdjustJob(j, target)
      PROVE  Charge(p)'
  <2>1. UNCHANGED SettleEntries(p)
    BY <1>6, KeysDiffer DEF AdjustJob, appendBillingEntry, SettleEntries
  <2> QED BY <1>1, <1>6, <2>1 DEF AdjustJob
<1> QED BY StepCases, <1>2, <1>3, <1>4, <1>5, <1>6 DEF Transaction

(* An operation is charged exactly when it is recorded as settled, for the *)
(* amount recorded: FinishBillingOperation never charges a refunded or an  *)
(* unfinished operation, for any number of customers and retries.          *)
THEOREM SettlementCharges == LedgerSpec => []ChargedIffSettled
<1>1. LedgerInit => ChargedIffSettled
  BY DEF LedgerInit, ChargedIffSettled, SettleEntries
<1>2. LedgerTypeOK /\ ChargedIffSettled /\ [LedgerNext]_ledgerVars => ChargedIffSettled'
  BY ChargeStep
<1> QED BY <1>1, <1>2, LedgerTypeCorrect, PTL DEF LedgerSpec

-----------------------------------------------------------------------------
(* No step removes an entry or touches a finished operation.               *)
LEMMA FinalStep ==
  ASSUME LedgerTypeOK, [LedgerNext]_ledgerVars
  PROVE  /\ entries \subseteq entries'
         /\ \A o \in Ops : operation[o].state \in {"settled", "refunded"} => operation'[o] = operation[o]
<1>0. operation \in [Ops -> OperationRow]
  BY DEF LedgerTypeOK
<1> DEFINE Goal ==
      /\ entries \subseteq entries'
      /\ \A o \in Ops : operation[o].state \in {"settled", "refunded"} => operation'[o] = operation[o]
<1>1. ASSUME ProfileStep PROVE Goal
  BY <1>1 DEF ProfileStep
<1>2. ASSUME NEW o \in Ops, NEW a, BeginBillingOperation(o, a) \/ ResizeBillingReservation(o, a) \/ RefundOperation(o)
      PROVE  Goal
  BY <1>0, <1>2 DEF BeginBillingOperation, ResizeBillingReservation, RefundOperation
<1>3. ASSUME NEW o \in Ops, NEW a, SettleOperation(o, a) PROVE Goal
  BY <1>0, <1>3 DEF SettleOperation, appendBillingEntry
<1>4. ASSUME NEW k, NEW u, NEW kind, NEW q, NEW d, PostEntry(k, u, kind, q, d) PROVE Goal
  BY <1>4 DEF PostEntry, appendBillingEntry
<1>5. ASSUME NEW j, NEW target, AdjustJob(j, target) PROVE Goal
  BY <1>5 DEF AdjustJob, appendBillingEntry
<1> QED BY StepCases, <1>1, <1>2, <1>3, <1>4, <1>5 DEF Transaction

(* The journal only grows and a settled or refunded operation never        *)
(* changes again: no late resize, second settlement or late refund.        *)
THEOREM FinishedStaysFinished == LedgerSpec => FinishedIsFinal
<1>1. LedgerTypeOK /\ [LedgerNext]_ledgerVars =>
        [/\ entries \subseteq entries'
         /\ \A o \in Ops : operation[o].state \in {"settled", "refunded"} => operation'[o] = operation[o]]_ledgerVars
  BY FinalStep
<1> QED BY <1>1, LedgerTypeCorrect, PTL DEF LedgerSpec, FinishedIsFinal

-----------------------------------------------------------------------------
(* Only finitely many operations were ever opened and entries posted. *)
LedgerFinite == IsFiniteSet(entries) /\ IsFiniteSet({o \in Ops : operation[o].state # "absent"})

Deltas(es) == [e \in es |-> e.walletDelta]
Quotas(es) == [e \in es |-> e.quota]
Reserved(os, rows) == [o \in os |-> rows[o].reserved]

(* The entry appendBillingEntry writes *)
NewEntry(u, key, kind, q, delta) ==
  [user |-> u, sequence |-> account[u].sequence + 1, key |-> key, kind |-> kind, quota |-> q,
   walletDelta |-> delta, balanceAfter |-> quota'[u], postedAt |-> now]

(* An appended entry is a new one. *)
LEMMA AppendedIsNew ==
  ASSUME NEW u, NEW key, NEW kind, NEW q, NEW delta, appendBillingEntry(u, key, kind, q, delta)
  PROVE  /\ entries' = entries \cup {NewEntry(u, key, kind, q, delta)}
         /\ NewEntry(u, key, kind, q, delta) \notin entries
         /\ NewEntry(u, key, kind, q, delta).user = u
         /\ NewEntry(u, key, kind, q, delta).key = key
         /\ NewEntry(u, key, kind, q, delta).kind = kind
         /\ NewEntry(u, key, kind, q, delta).quota = q
         /\ NewEntry(u, key, kind, q, delta).walletDelta = delta
         /\ NewEntry(u, key, kind, q, delta).sequence = account[u].sequence + 1
         /\ NewEntry(u, key, kind, q, delta).postedAt = now
BY DEF appendBillingEntry, NewEntry

(* Every transaction opens at most one operation and posts at most one entry. *)
LEMMA FiniteStep ==
  ASSUME LedgerTypeOK, LedgerFinite, Transaction
  PROVE  LedgerFinite'
<1> DEFINE Known == {o \in Ops : operation[o].state # "absent"}
<1>0. operation \in [Ops -> OperationRow] /\ IsFiniteSet(entries) /\ IsFiniteSet(Known)
  BY DEF LedgerTypeOK, LedgerFinite
<1>1. ASSUME NEW o, Known' = Known \/ Known' = Known \cup {o}, entries' = entries \/ \E e : entries' = entries \cup {e}
      PROVE  LedgerFinite'
  <2>1. IsFiniteSet(Known')
    <3> HIDE DEF Known
    <3> QED BY <1>0, <1>1, FS_AddElement
  <2>2. IsFiniteSet(entries')
    BY <1>0, <1>1, FS_AddElement
  <2> QED BY <2>1, <2>2 DEF LedgerFinite
<1>2. ASSUME ProfileStep PROVE LedgerFinite'
  BY <1>2 DEF ProfileStep, LedgerFinite
<1>3. ASSUME NEW o \in Ops, NEW a, BeginBillingOperation(o, a) \/ ResizeBillingReservation(o, a) \/ RefundOperation(o)
      PROVE  LedgerFinite'
  <2>1. entries' = entries /\ \A p \in Ops \ {o} : operation'[p] = operation[p]
    BY <1>0, <1>3 DEF BeginBillingOperation, ResizeBillingReservation, RefundOperation
  <2>2. operation'[o].state # "absent"
    <3>1. CASE BeginBillingOperation(o, a)
      BY <1>0, <3>1 DEF BeginBillingOperation
    <3>2. CASE ResizeBillingReservation(o, a)
      BY <1>0, <3>2 DEF ResizeBillingReservation, OperationRow
    <3>3. CASE RefundOperation(o)
      BY <1>0, <3>3 DEF RefundOperation, OperationRow
    <3> QED BY <1>3, <3>1, <3>2, <3>3
  <2>3. Known' = Known \cup {o}
    BY <2>1, <2>2
  <2> QED BY <1>1, <2>1, <2>3
<1>4. ASSUME NEW o \in Ops, NEW a, SettleOperation(o, a) PROVE LedgerFinite'
  <2>1. /\ operation'[o].state # "absent" /\ \A p \in Ops \ {o} : operation'[p] = operation[p]
    BY <1>0, <1>4 DEF SettleOperation, OperationRow
  <2>2. Known' = Known \cup {o}
    BY <2>1
  <2>3. \E e : entries' = entries \cup {e}
    BY <1>4, AppendedIsNew DEF SettleOperation
  <2> QED BY <1>1, <2>2, <2>3
<1>5. ASSUME NEW k, NEW u, NEW kind, NEW q, NEW d, PostEntry(k, u, kind, q, d) PROVE LedgerFinite'
  <2>1. operation' = operation /\ \E e : entries' = entries \cup {e}
    BY <1>5, AppendedIsNew DEF PostEntry
  <2> QED BY <1>1, <2>1
<1>6. ASSUME NEW j, NEW target, AdjustJob(j, target) PROVE LedgerFinite'
  <2>1. operation' = operation /\ \E e : entries' = entries \cup {e}
    BY <1>6, AppendedIsNew DEF AdjustJob
  <2> QED BY <1>1, <2>1
<1> QED BY <1>2, <1>3, <1>4, <1>5, <1>6 DEF Transaction

(* The wallets reconcile with a journal that grows by one entry. *)
LEMMA DeltaSum ==
  ASSUME LedgerTypeOK, LedgerFinite, NEW u, NEW key, NEW kind, NEW q, NEW delta \in Int,
         appendBillingEntry(u, key, kind, q, delta), NEW v
  PROVE  /\ SumFunction(Deltas(EntriesOf(v))) \in Int
         /\ SumFunction(Deltas(EntriesOf(v)')) = SumFunction(Deltas(EntriesOf(v))) + IF v = u THEN delta ELSE 0
<1> DEFINE new == NewEntry(u, key, kind, q, delta)
<1>1. entries' = entries \cup {new} /\ new \notin entries /\ new.user = u /\ new.walletDelta = delta
  BY AppendedIsNew
<1>2. IsFiniteSet(EntriesOf(v)) /\ \A e \in EntriesOf(v) : e.walletDelta \in Int
  BY FS_Subset DEF LedgerFinite, LedgerTypeOK, EntriesOf, Entry
<1>3. SumFunction(Deltas(EntriesOf(v))) \in Int
  BY <1>2, SumInt DEF Deltas
<1> HIDE DEF new
<1>4. CASE v = u
  <2>1. EntriesOf(v)' = EntriesOf(v) \cup {new} /\ new \notin EntriesOf(v)
    BY <1>1, <1>4 DEF EntriesOf
  <2>2. OneMore(Deltas(EntriesOf(v)), Deltas(EntriesOf(v)'), new)
    BY <1>1, <1>2, <2>1 DEF OneMore, Deltas
  <2>3. SumFunction(Deltas(EntriesOf(v)')) = SumFunction(Deltas(EntriesOf(v))) + Deltas(EntriesOf(v)')[new]
    BY <2>2, SumAdd, Zenon
  <2>4. Deltas(EntriesOf(v)')[new] = delta
    BY <1>1, <2>1 DEF Deltas
  <2> QED BY <1>3, <1>4, <2>3, <2>4
<1>5. CASE v # u
  <2>1. EntriesOf(v)' = EntriesOf(v)
    BY <1>1, <1>5 DEF EntriesOf
  <2> QED BY <1>3, <1>5, <2>1
<1> QED BY <1>4, <1>5

HeldBy(row) == IF row.state = "reserved" THEN row.reserved ELSE 0

(* What a customer's open operations hold changes with the one operation   *)
(* that a transaction writes.                                              *)
LEMMA HeldChange ==
  ASSUME LedgerTypeOK, operation' \in [Ops -> OperationRow], LedgerFinite, LedgerFinite', NEW o \in Ops,
         \A p \in Ops \ {o} : operation'[p] = operation[p], NEW v
  PROVE  /\ Held(v) \in Int
         /\ Held(v)' = Held(v) + IF v = Owner[o] THEN HeldBy(operation'[o]) - HeldBy(operation[o]) ELSE 0
<1> DEFINE f == Reserved(OpenOperations(v), operation)
           h == Reserved(OpenOperations(v)', operation')
<1>1. operation \in [Ops -> OperationRow]
  BY DEF LedgerTypeOK
<1>2. \A row \in OperationRow : row.reserved \in Int /\ HeldBy(row) \in Int
  BY MaxWalletQuotaAssumption DEF OperationRow, HeldBy
<1>3. Held(v) = SumFunction(f) /\ Held(v)' = SumFunction(h)
  BY DEF Held, Reserved
<1>4. IsFiniteSet(OpenOperations(v)) /\ IsFiniteSet(OpenOperations(v)')
  <2>1. OpenOperations(v) \in SUBSET {p \in Ops : operation[p].state # "absent"}
    BY DEF OpenOperations
  <2>2. OpenOperations(v)' \in SUBSET {p \in Ops : operation'[p].state # "absent"}
    BY DEF OpenOperations
  <2> QED BY <2>1, <2>2, FS_Subset DEF LedgerFinite
<1>5. /\ DOMAIN f = OpenOperations(v) /\ \A p \in DOMAIN f : f[p] = operation[p].reserved /\ f[p] \in Int
      /\ DOMAIN h = OpenOperations(v)' /\ \A p \in DOMAIN h : h[p] = operation'[p].reserved /\ h[p] \in Int
  BY <1>1, <1>2 DEF Reserved, OpenOperations
<1> HIDE DEF f, h
<1>6. SumFunction(f) \in Int /\ SumFunction(h) \in Int
  BY <1>4, <1>5, SumInt
<1>7. \A p \in Ops \ {o} : p \in DOMAIN f <=> p \in DOMAIN h
  BY <1>5 DEF OpenOperations
<1>8. HeldBy(operation[o]) \in Int /\ HeldBy(operation'[o]) \in Int
  BY <1>1, <1>2
<1>9. CASE o \in DOMAIN f /\ o \in DOMAIN h
  <2>1. OneOther(f, h, o)
    <3>1. DOMAIN f = DOMAIN h
      BY <1>5, <1>7, <1>9 DEF OpenOperations
    <3> QED BY <1>4, <1>5, <1>9, <3>1 DEF OneOther, OpenOperations
  <2>2. SumFunction(h) = SumFunction(f) + h[o] - f[o]
    BY <2>1, SumChange, Zenon
  <2>3. v = Owner[o] /\ h[o] = HeldBy(operation'[o]) /\ f[o] = HeldBy(operation[o])
    BY <1>5, <1>9 DEF OpenOperations, HeldBy
  <2> QED BY <1>3, <1>6, <1>8, <2>2, <2>3
<1>10. CASE o \in DOMAIN f /\ o \notin DOMAIN h
  <2>1. OneMore(h, f, o)
    <3>1. DOMAIN f = DOMAIN h \cup {o}
      BY <1>5, <1>7, <1>10 DEF OpenOperations
    <3> QED BY <1>4, <1>5, <1>10, <3>1 DEF OneMore, OpenOperations
  <2>2. SumFunction(f) = SumFunction(h) + f[o]
    BY <2>1, SumAdd, Zenon
  <2>3. v = Owner[o] /\ HeldBy(operation'[o]) = 0 /\ f[o] = HeldBy(operation[o])
    BY <1>5, <1>10 DEF OpenOperations, HeldBy
  <2> QED BY <1>3, <1>6, <1>8, <2>2, <2>3
<1>11. CASE o \notin DOMAIN f /\ o \in DOMAIN h
  <2>1. OneMore(f, h, o)
    <3>1. DOMAIN h = DOMAIN f \cup {o}
      BY <1>5, <1>7, <1>11 DEF OpenOperations
    <3> QED BY <1>4, <1>5, <1>11, <3>1 DEF OneMore, OpenOperations
  <2>2. SumFunction(h) = SumFunction(f) + h[o]
    BY <2>1, SumAdd, Zenon
  <2>3. v = Owner[o] /\ HeldBy(operation[o]) = 0 /\ h[o] = HeldBy(operation'[o])
    BY <1>5, <1>11 DEF OpenOperations, HeldBy
  <2> QED BY <1>3, <1>6, <1>8, <2>2, <2>3
<1>12. CASE o \notin DOMAIN f /\ o \notin DOMAIN h
  <2>1. OpenOperations(v)' = OpenOperations(v)
    BY <1>5, <1>7, <1>12 DEF OpenOperations
  <2>2. f = h
    BY <1>12, <1>5, <2>1 DEF f, h, Reserved, OpenOperations
  <2>3. v = Owner[o] => HeldBy(operation[o]) = 0 /\ HeldBy(operation'[o]) = 0
    BY <1>5, <1>12 DEF OpenOperations, HeldBy
  <2> QED BY <1>3, <1>6, <2>2, <2>3
<1> QED BY <1>3, <1>6, <1>9, <1>10, <1>11, <1>12

(* Opening, resizing and refunding a reservation moves quota between the   *)
(* wallet and what is held, and creates or destroys none.                  *)
LEMMA ReservationMove ==
  ASSUME LedgerTypeOK, LedgerTypeOK', LedgerFinite, LedgerFinite', NEW o \in Ops, NEW a \in Int, NEW v \in Users,
         BeginBillingOperation(o, a) \/ ResizeBillingReservation(o, a) \/ RefundOperation(o)
  PROVE  /\ Held(v) \in Int /\ Held(v)' \in Int
         /\ quota'[v] = quota[v] + Held(v) - Held(v)'
<1>1. /\ operation \in [Ops -> OperationRow] /\ operation' \in [Ops -> OperationRow]
      /\ operation[o].reserved \in Int /\ operation'[o].reserved \in Int /\ Owner[o] \in Users
      /\ quota \in [Users -> Balances] /\ quota[v] \in Int
  BY OwnerAssumption, MaxWalletQuotaAssumption DEF LedgerTypeOK, OperationRow, Balances
<1>2. \A p \in Ops \ {o} : operation'[p] = operation[p]
  BY <1>1 DEF BeginBillingOperation, ResizeBillingReservation, RefundOperation
<1>3. changeBillingWallet(Owner[o], HeldBy(operation[o]) - HeldBy(operation'[o]))
  <2>1. CASE BeginBillingOperation(o, a)
    <3>1. HeldBy(operation[o]) = 0 /\ HeldBy(operation'[o]) = a
      BY <1>1, <2>1 DEF BeginBillingOperation, HeldBy
    <3> QED BY <2>1, <3>1 DEF BeginBillingOperation
  <2>2. CASE ResizeBillingReservation(o, a)
    <3>1. HeldBy(operation[o]) = operation[o].reserved /\ HeldBy(operation'[o]) = a
      BY <1>1, <2>2 DEF ResizeBillingReservation, HeldBy, OperationRow
    <3> QED BY <2>2, <3>1 DEF ResizeBillingReservation
  <2>3. CASE RefundOperation(o)
    <3>1. HeldBy(operation[o]) = operation[o].reserved /\ HeldBy(operation'[o]) = 0
      BY <1>1, <2>3 DEF RefundOperation, HeldBy, OperationRow
    <3>2. operation[o].reserved - 0 = operation[o].reserved
      BY <1>1
    <3> QED BY <2>3, <3>1, <3>2 DEF RefundOperation
  <2> QED BY <2>1, <2>2, <2>3
<1>4. HeldBy(operation[o]) \in Int /\ HeldBy(operation'[o]) \in Int
  BY <1>1 DEF HeldBy
<1>5. quota'[v] = quota[v] + IF v = Owner[o] THEN HeldBy(operation[o]) - HeldBy(operation'[o]) ELSE 0
  BY <1>1, <1>3 DEF changeBillingWallet
<1>6. /\ Held(v) \in Int
      /\ Held(v)' = Held(v) + IF v = Owner[o] THEN HeldBy(operation'[o]) - HeldBy(operation[o]) ELSE 0
  BY <1>1, <1>2, HeldChange
<1> QED BY <1>1, <1>4, <1>5, <1>6

(* A settlement takes exactly the charge out of wallet and holds together. *)
LEMMA SettleMove ==
  ASSUME LedgerTypeOK, LedgerTypeOK', LedgerFinite, LedgerFinite', NEW o \in Ops, NEW a \in 0..MaxWalletQuota,
         NEW v \in Users, SettleOperation(o, a)
  PROVE  /\ Held(v) \in Int /\ Held(v)' \in Int
         /\ quota'[v] = quota[v] + Held(v) - Held(v)' - IF v = Owner[o] THEN a ELSE 0
<1>1. /\ operation \in [Ops -> OperationRow] /\ operation' \in [Ops -> OperationRow]
      /\ operation[o].reserved \in Int /\ a \in Int /\ Owner[o] \in Users
      /\ quota \in [Users -> Balances] /\ quota[v] \in Int
  BY OwnerAssumption, MaxWalletQuotaAssumption DEF LedgerTypeOK, OperationRow, Balances
<1>2. /\ HeldBy(operation[o]) = operation[o].reserved /\ HeldBy(operation'[o]) = 0
      /\ \A p \in Ops \ {o} : operation'[p] = operation[p]
  BY <1>1 DEF SettleOperation, HeldBy, OperationRow
<1>3. quota'[v] = quota[v] + IF v = Owner[o] THEN operation[o].reserved - a ELSE 0
  BY <1>1 DEF SettleOperation, changeBillingWallet
<1>4. Held(v) \in Int /\ Held(v)' = Held(v) + IF v = Owner[o] THEN 0 - operation[o].reserved ELSE 0
  BY <1>1, <1>2, HeldChange
<1> QED BY <1>1, <1>3, <1>4

(* Every transaction moves the wallet by what it does to the journal and   *)
(* to the reservation it opens, resizes or closes.                         *)
LEMMA WalletStep ==
  ASSUME LedgerTypeOK, LedgerFinite, WalletReconciles, [LedgerNext]_ledgerVars
  PROVE  WalletReconciles'
<1> SUFFICES ASSUME NEW v \in Users
             PROVE  quota'[v] = Opening[v] + SumFunction(Deltas(EntriesOf(v)')) - Held(v)'
  BY DEF WalletReconciles, Deltas
<1>1. quota[v] = Opening[v] + SumFunction(Deltas(EntriesOf(v))) - Held(v)
  BY DEF WalletReconciles, Deltas
<1>2. /\ operation \in [Ops -> OperationRow] /\ LedgerTypeOK' /\ LedgerFinite'
      /\ quota \in [Users -> Balances] /\ quota[v] \in Int /\ quota'[v] \in Int /\ Opening[v] \in Int
  BY TypeStep, StepCases, FiniteStep, OpeningAssumption, MaxWalletQuotaAssumption DEF LedgerTypeOK, Balances
<1>3. SumFunction(Deltas(EntriesOf(v))) \in Int
  <2>1. IsFiniteSet(EntriesOf(v)) /\ \A e \in EntriesOf(v) : e.walletDelta \in Int
    BY FS_Subset DEF LedgerFinite, LedgerTypeOK, EntriesOf, Entry
  <2> QED BY <2>1, SumInt DEF Deltas
<1>4. ASSUME entries' = entries PROVE SumFunction(Deltas(EntriesOf(v)')) = SumFunction(Deltas(EntriesOf(v)))
  BY <1>4 DEF EntriesOf
<1>5. ASSUME operation' = operation PROVE Held(v)' = Held(v)
  BY <1>5 DEF Held, OpenOperations
<1>6. ASSUME NEW u \in Users, NEW delta \in Int, changeBillingWallet(u, delta)
      PROVE  quota'[v] = quota[v] + IF v = u THEN delta ELSE 0
  BY <1>2, <1>6 DEF changeBillingWallet
<1>7. ASSUME NEW o \in Ops PROVE operation[o].reserved \in Int /\ Owner[o] \in Users
  BY <1>2, OwnerAssumption, MaxWalletQuotaAssumption DEF OperationRow
<1>8. ASSUME ProfileStep PROVE quota'[v] = Opening[v] + SumFunction(Deltas(EntriesOf(v)')) - Held(v)'
  BY <1>1, <1>4, <1>5, <1>8 DEF ProfileStep
<1>9. ASSUME NEW o \in Ops, NEW a \in Int, BeginBillingOperation(o, a) \/ ResizeBillingReservation(o, a) \/ RefundOperation(o)
       PROVE  quota'[v] = Opening[v] + SumFunction(Deltas(EntriesOf(v)')) - Held(v)'
  <2>1. entries' = entries
    BY <1>9 DEF BeginBillingOperation, ResizeBillingReservation, RefundOperation
  <2>2. Held(v) \in Int /\ Held(v)' \in Int /\ quota'[v] = quota[v] + Held(v) - Held(v)'
    BY <1>2, <1>9, ReservationMove
  <2>3. quota[v] \in Int /\ Opening[v] \in Int
    BY <1>2
  <2> QED BY <1>1, <1>3, <1>4, <2>1, <2>2, <2>3
<1>10. ASSUME NEW o \in Ops, NEW a \in 0..MaxWalletQuota, SettleOperation(o, a)
       PROVE  quota'[v] = Opening[v] + SumFunction(Deltas(EntriesOf(v)')) - Held(v)'
  <2>1. a \in Int /\ -a \in Int
    BY MaxWalletQuotaAssumption
  <2>2. /\ Held(v) \in Int /\ Held(v)' \in Int
        /\ quota'[v] = quota[v] + Held(v) - Held(v)' - IF v = Owner[o] THEN a ELSE 0
    BY <1>2, <1>10, SettleMove
  <2>3. SumFunction(Deltas(EntriesOf(v)')) = SumFunction(Deltas(EntriesOf(v))) + IF v = Owner[o] THEN -a ELSE 0
    BY <1>10, <2>1, DeltaSum DEF SettleOperation
  <2>4. quota[v] \in Int /\ Opening[v] \in Int
    BY <1>2
  <2> QED BY <1>1, <1>3, <2>1, <2>2, <2>3, <2>4
<1>11. ASSUME NEW u \in Users, NEW key, NEW kind, NEW q, NEW delta \in Int, operation' = operation,
              changeBillingWallet(u, delta), appendBillingEntry(u, key, kind, q, delta)
       PROVE  quota'[v] = Opening[v] + SumFunction(Deltas(EntriesOf(v)')) - Held(v)'
  <2>1. quota'[v] = quota[v] + IF v = u THEN delta ELSE 0
    BY <1>6, <1>11
  <2>2. SumFunction(Deltas(EntriesOf(v)')) = SumFunction(Deltas(EntriesOf(v))) + IF v = u THEN delta ELSE 0
    BY <1>11, DeltaSum
  <2>3. Held(v)' = Held(v) /\ Held(v) \in Int
    <3>1. IsFiniteSet(OpenOperations(v))
      BY FS_Subset DEF OpenOperations, LedgerFinite
    <3>2. \A o \in OpenOperations(v) : operation[o].reserved \in Int
      BY <1>7 DEF OpenOperations
    <3> QED BY <1>5, <1>11, <3>1, <3>2, SumInt DEF Held
  <2> QED BY <1>1, <1>2, <1>3, <2>1, <2>2, <2>3
<1>12. ASSUME NEW k, NEW u \in Users, NEW kind, NEW q, NEW d \in Int, PostEntry(k, u, kind, q, d)
       PROVE  quota'[v] = Opening[v] + SumFunction(Deltas(EntriesOf(v)')) - Held(v)'
  BY <1>11, <1>12 DEF PostEntry
<1>13. ASSUME NEW j \in Jobs, NEW target \in 0..MaxWalletQuota, AdjustJob(j, target)
       PROVE  quota'[v] = Opening[v] + SumFunction(Deltas(EntriesOf(v)')) - Held(v)'
  <2>1. Owner[j] \in Users /\ -(target - jobQuota[j]) \in Int
    BY OwnerAssumption, MaxWalletQuotaAssumption DEF LedgerTypeOK
  <2> QED BY <1>11, <1>13, <2>1 DEF AdjustJob
<1>14. \E z : z \in Int
  OBVIOUS
<1> QED BY StepCases, <1>8, <1>9, <1>10, <1>12, <1>13, <1>14 DEF Transaction

(* Operations and entries stay finitely many: what makes sums over them    *)
(* meaningful.                                                             *)
LEMMA LedgerStaysFinite == LedgerSpec => []LedgerFinite
<1>1. LedgerInit => LedgerFinite
  <2> SUFFICES ASSUME LedgerInit PROVE LedgerFinite
    OBVIOUS
  <2>1. {o \in Ops : operation[o].state # "absent"} = {}
    BY DEF LedgerInit
  <2> QED BY <2>1, FS_EmptySet DEF LedgerInit, LedgerFinite
<1>2. LedgerTypeOK /\ LedgerFinite /\ [LedgerNext]_ledgerVars => LedgerFinite'
  BY StepCases, FiniteStep
<1> QED BY <1>1, <1>2, LedgerTypeCorrect, PTL DEF LedgerSpec

(* A wallet is exactly its opening balance plus its journal minus what its *)
(* open operations hold, for any number of customers and transactions      *)
(* (changeBillingWallet and appendBillingEntry in one transaction).        *)
THEOREM WalletsReconcile == LedgerSpec => []WalletReconciles
<1>1. LedgerInit => WalletReconciles
  <2> SUFFICES ASSUME LedgerInit, NEW u \in Users
               PROVE  quota[u] = Opening[u] + SumFunction(Deltas(EntriesOf(u))) - Held(u)
    BY DEF WalletReconciles, Deltas
  <2>1. SumFunction(Deltas(EntriesOf(u))) = 0
    BY SumEmpty DEF LedgerInit, EntriesOf, Deltas
  <2>2. OpenOperations(u) = {}
    BY DEF LedgerInit, OpenOperations
  <2>3. Held(u) = 0
    BY <2>2, SumEmpty DEF Held
  <2> QED BY <2>1, <2>3, OpeningAssumption, MaxWalletQuotaAssumption DEF LedgerInit
<1>2. LedgerTypeOK /\ LedgerFinite /\ WalletReconciles /\ [LedgerNext]_ledgerVars => WalletReconciles'
  BY WalletStep
<1> QED BY <1>1, <1>2, LedgerTypeCorrect, LedgerStaysFinite, PTL DEF LedgerSpec

-----------------------------------------------------------------------------
(* The entries of a job grow by the entries posted for the job. *)
LEMMA JobSum ==
  ASSUME LedgerTypeOK, LedgerFinite, NEW u, NEW key, NEW kind, NEW q \in Int, NEW delta,
         appendBillingEntry(u, key, kind, q, delta), NEW j
  PROVE  /\ SumFunction(Quotas(JobEntries(j))) \in Int
         /\ SumFunction(Quotas(JobEntries(j)')) =
              SumFunction(Quotas(JobEntries(j))) + IF key[1] = "job" /\ key[2] = j THEN q ELSE 0
<1> DEFINE new == NewEntry(u, key, kind, q, delta)
<1>1. entries' = entries \cup {new} /\ new \notin entries /\ new.key = key /\ new.quota = q
  BY AppendedIsNew
<1>2. IsFiniteSet(JobEntries(j)) /\ \A e \in JobEntries(j) : e.quota \in Int
  BY FS_Subset DEF LedgerFinite, LedgerTypeOK, JobEntries, Entry
<1>3. SumFunction(Quotas(JobEntries(j))) \in Int
  BY <1>2, SumInt DEF Quotas
<1> HIDE DEF new
<1>4. CASE key[1] = "job" /\ key[2] = j
  <2>1. JobEntries(j)' = JobEntries(j) \cup {new} /\ new \notin JobEntries(j)
    BY <1>1, <1>4 DEF JobEntries
  <2>2. OneMore(Quotas(JobEntries(j)), Quotas(JobEntries(j)'), new)
    BY <1>1, <1>2, <2>1 DEF OneMore, Quotas
  <2>3. SumFunction(Quotas(JobEntries(j)')) = SumFunction(Quotas(JobEntries(j))) + Quotas(JobEntries(j)')[new]
    BY <2>2, SumAdd, Zenon
  <2>4. Quotas(JobEntries(j)')[new] = q
    BY <1>1, <2>1 DEF Quotas
  <2> QED BY <1>3, <1>4, <2>3, <2>4
<1>5. CASE ~(key[1] = "job" /\ key[2] = j)
  <2>1. JobEntries(j)' = JobEntries(j)
    BY <1>1, <1>5 DEF JobEntries
  <2> QED BY <1>3, <1>5, <2>1
<1> QED BY <1>4, <1>5

(* Only AdjustJob posts entries of a job, for the difference it writes to  *)
(* the quota column.                                                       *)
LEMMA JobStep ==
  ASSUME LedgerTypeOK, LedgerFinite, JobChargeReconciles, [LedgerNext]_ledgerVars
  PROVE  JobChargeReconciles'
<1> SUFFICES ASSUME NEW i \in Jobs
             PROVE  jobQuota'[i] = JobOpening[i] + SumFunction(Quotas(JobEntries(i)'))
  BY DEF JobChargeReconciles, Quotas
<1>1. jobQuota[i] = JobOpening[i] + SumFunction(Quotas(JobEntries(i)))
  BY DEF JobChargeReconciles, Quotas
<1>2. jobQuota \in [Jobs -> 0..MaxWalletQuota] /\ jobQuota[i] \in Int /\ JobOpening[i] \in Int
  BY JobOpeningAssumption, MaxWalletQuotaAssumption DEF LedgerTypeOK
<1>3. ASSUME entries' = entries, jobQuota' = jobQuota
      PROVE  jobQuota'[i] = JobOpening[i] + SumFunction(Quotas(JobEntries(i)'))
  BY <1>1, <1>3 DEF JobEntries
<1>4. ASSUME NEW u, NEW key, key[1] # "job", NEW kind, NEW q \in Int, NEW delta, jobQuota' = jobQuota,
             appendBillingEntry(u, key, kind, q, delta)
      PROVE  jobQuota'[i] = JobOpening[i] + SumFunction(Quotas(JobEntries(i)'))
  <2>1. SumFunction(Quotas(JobEntries(i))) \in Int /\ SumFunction(Quotas(JobEntries(i)')) = SumFunction(Quotas(JobEntries(i))) + 0
    BY <1>4, JobSum
  <2> QED BY <1>1, <1>2, <1>4, <2>1
<1>5. ASSUME ProfileStep PROVE jobQuota'[i] = JobOpening[i] + SumFunction(Quotas(JobEntries(i)'))
  BY <1>3, <1>5 DEF ProfileStep
<1>6. ASSUME NEW o \in Ops, NEW a, BeginBillingOperation(o, a) \/ ResizeBillingReservation(o, a) \/ RefundOperation(o)
      PROVE  jobQuota'[i] = JobOpening[i] + SumFunction(Quotas(JobEntries(i)'))
  BY <1>3, <1>6 DEF BeginBillingOperation, ResizeBillingReservation, RefundOperation
<1>7. ASSUME NEW o \in Ops, NEW a \in 0..MaxWalletQuota, SettleOperation(o, a)
      PROVE  jobQuota'[i] = JobOpening[i] + SumFunction(Quotas(JobEntries(i)'))
  <2>1. a \in Int /\ <<"settle", o>>[1] # "job"
    BY MaxWalletQuotaAssumption
  <2> QED BY <1>4, <1>7, <2>1 DEF SettleOperation
<1>8. ASSUME NEW k, NEW u, NEW kind, NEW q \in Int, NEW d, PostEntry(k, u, kind, q, d)
      PROVE  jobQuota'[i] = JobOpening[i] + SumFunction(Quotas(JobEntries(i)'))
  <2>1. <<"admin", k>>[1] # "job"
    OBVIOUS
  <2> QED BY <1>4, <1>8, <2>1 DEF PostEntry
<1>9. ASSUME NEW j \in Jobs, NEW target \in 0..MaxWalletQuota, AdjustJob(j, target)
      PROVE  jobQuota'[i] = JobOpening[i] + SumFunction(Quotas(JobEntries(i)'))
  <2> DEFINE u == Owner[j]
             q == target - jobQuota[j]
             key == <<"job", j, u, account[u].sequence + 1>>
  <2>1. q \in Int /\ target \in Int /\ key[1] = "job" /\ key[2] = j
    BY <1>2, MaxWalletQuotaAssumption
  <2>2. appendBillingEntry(u, key, "task_adjustment", q, -q) /\ jobQuota' = [jobQuota EXCEPT ![j] = target]
    BY <1>9 DEF AdjustJob
  <2>3. /\ SumFunction(Quotas(JobEntries(i))) \in Int
        /\ SumFunction(Quotas(JobEntries(i)')) = SumFunction(Quotas(JobEntries(i))) + IF j = i THEN q ELSE 0
    <3> HIDE DEF u, q, key
    <3> QED BY <2>1, <2>2, JobSum
  <2> QED BY <1>1, <1>2, <2>1, <2>2, <2>3
<1> QED BY StepCases, <1>5, <1>6, <1>7, <1>8, <1>9 DEF Transaction

(* The quota column of a job is its opening charge plus the entries posted *)
(* for it: no stale copy settles or refunds a job a second time            *)
(* (AdjustBillingTaskQuota, RefundBillingMidjourney).                      *)
THEOREM JobsReconcile == LedgerSpec => []JobChargeReconciles
<1>1. LedgerInit => JobChargeReconciles
  <2> SUFFICES ASSUME LedgerInit, NEW j \in Jobs
               PROVE  jobQuota[j] = JobOpening[j] + SumFunction(Quotas(JobEntries(j)))
    BY DEF JobChargeReconciles, Quotas
  <2>1. SumFunction(Quotas(JobEntries(j))) = 0
    BY SumEmpty DEF LedgerInit, JobEntries, Quotas
  <2> QED BY <2>1, JobOpeningAssumption, MaxWalletQuotaAssumption DEF LedgerInit
<1>2. LedgerTypeOK /\ LedgerFinite /\ JobChargeReconciles /\ [LedgerNext]_ledgerVars => JobChargeReconciles'
  BY JobStep
<1> QED BY <1>1, <1>2, LedgerTypeCorrect, LedgerStaysFinite, PTL DEF LedgerSpec

-----------------------------------------------------------------------------
Charges(es) == [e \in es |-> ChargeOf(e.quota)]
Refunds(es) == [e \in es |-> RefundOf(e.quota)]
Numbered(es) == {e.sequence : e \in es}
(* The summary that a recomputation from the entries es gives *)
Summary(es) ==
  [charge |-> SumFunction(Charges(es)), refund |-> SumFunction(Refunds(es)), count |-> Cardinality(es),
   first |-> IF es = {} THEN 0 ELSE Min(Numbered(es)), last |-> IF es = {} THEN 0 ELSE Max(Numbered(es))]

(* One more entry changes a recomputed summary the way HourWith does. *)
LEMMA SummaryGrows ==
  ASSUME NEW es, IsFiniteSet(es), \A e \in es : e.quota \in Int /\ e.sequence \in Nat \ {0},
         NEW new, new \notin es, new.quota \in Int, new.sequence \in Nat, \A e \in es : e.sequence < new.sequence
  PROVE  Summary(es \cup {new}) = HourWith(Summary(es), new.quota, new.sequence)
<1> DEFINE more == es \cup {new}
           n == new.sequence
<1>0. \A q \in Int : ChargeOf(q) \in Int /\ RefundOf(q) \in Int
  BY DEF ChargeOf, RefundOf
<1>1. SumFunction(Charges(more)) = SumFunction(Charges(es)) + ChargeOf(new.quota)
  <2>1. OneMore(Charges(es), Charges(more), new)
    BY <1>0 DEF OneMore, Charges
  <2>2. SumFunction(Charges(more)) = SumFunction(Charges(es)) + Charges(more)[new]
    BY <2>1, SumAdd, Zenon
  <2> QED BY <2>2 DEF Charges
<1>2. SumFunction(Refunds(more)) = SumFunction(Refunds(es)) + RefundOf(new.quota)
  <2>1. OneMore(Refunds(es), Refunds(more), new)
    BY <1>0 DEF OneMore, Refunds
  <2>2. SumFunction(Refunds(more)) = SumFunction(Refunds(es)) + Refunds(more)[new]
    BY <2>1, SumAdd, Zenon
  <2> QED BY <2>2 DEF Refunds
<1>3. Cardinality(more) = Cardinality(es) + 1
  BY FS_AddElement
<1>4. /\ Numbered(more) = Numbered(es) \cup {n} /\ Numbered(more) \in SUBSET Nat
      /\ Numbered(es) \in SUBSET Nat /\ \A m \in Numbered(es) : m < n /\ m # 0
  BY DEF Numbered
<1>5. Max(Numbered(more)) = n
  <2>1. n \in Numbered(more) /\ n \in Nat
    BY <1>4
  <2>2. ASSUME NEW m \in Numbered(more) PROVE n >= m
    <3>1. m \in Nat /\ (m < n \/ m = n)
      BY <1>4
    <3> QED BY <2>1, <3>1
  <2> QED BY <1>4, <2>1, <2>2, MinMaxIs
<1>6. Min(Numbered(more)) = IF Summary(es).first = 0 THEN n ELSE Summary(es).first
  <2>1. CASE es = {}
    <3>1. Numbered(more) = {n}
      BY <1>4, <2>1 DEF Numbered
    <3>2. Min(Numbered(more)) = n
      BY <3>1, MinMaxIs
    <3> QED BY <2>1, <3>2 DEF Summary
  <2>2. CASE es # {}
    <3> DEFINE least == Min(Numbered(es))
    <3>1. Numbered(es) # {}
      BY <2>2 DEF Numbered
    <3>2. least \in Numbered(es) /\ \A m \in Numbered(es) : least <= m
      BY <1>4, <3>1, MinNat
    <3>3. Summary(es).first = least
      BY <2>2 DEF Summary
    <3> HIDE DEF least
    <3>4. least # 0 /\ least \in Numbered(more) /\ \A m \in Numbered(more) : least <= m
      <4>1. least # 0 /\ least < n /\ least \in Nat /\ least \in Numbered(more)
        BY <1>4, <3>2
      <4>2. \A m \in Numbered(more) : m \in Numbered(es) \/ m = n
        BY <1>4
      <4>3. n \in Nat /\ (least < n => least <= n)
        BY <4>1
      <4> QED BY <3>2, <4>1, <4>2, <4>3
    <3>5. Min(Numbered(more)) = least
      BY <1>4, <3>4, MinMaxIs
    <3> QED BY <3>3, <3>4, <3>5
  <2> QED BY <2>1, <2>2
<1>7. more # {}
  OBVIOUS
<1> HIDE DEF more, n
<1>8. Summary(more) = [charge |-> SumFunction(Charges(es)) + ChargeOf(new.quota),
                       refund |-> SumFunction(Refunds(es)) + RefundOf(new.quota), count |-> Cardinality(es) + 1,
                       first |-> IF Summary(es).first = 0 THEN n ELSE Summary(es).first, last |-> n]
  BY <1>1, <1>2, <1>3, <1>5, <1>6, <1>7 DEF Summary
<1>9. /\ Summary(es).charge = SumFunction(Charges(es)) /\ Summary(es).refund = SumFunction(Refunds(es))
      /\ Summary(es).count = Cardinality(es)
  BY DEF Summary
<1>10. Summary(more) = HourWith(Summary(es), new.quota, n)
  BY <1>8, <1>9 DEF HourWith
<1> QED BY <1>10 DEF more, n

(* The entries of an hour are numbered from 1, up to the sequence of their *)
(* customer.                                                               *)
LEMMA HourEntriesFacts ==
  ASSUME LedgerTypeOK, LedgerFinite, SequenceGapless, NEW v \in Users, NEW h
  PROVE  /\ IsFiniteSet(HourEntries(v, h)) /\ account[v].sequence \in Nat
         /\ \A e \in FormalEntries(v) : e.sequence \in Nat /\ e.sequence <= account[v].sequence
         /\ \A e \in HourEntries(v, h) : e.quota \in Int /\ e.sequence \in Nat \ {0} /\ e.sequence <= account[v].sequence
<1>1. FormalEntries(v) \subseteq EntriesOf(v) /\ HourEntries(v, h) \subseteq FormalEntries(v) /\ EntriesOf(v) \subseteq entries
  BY DEF HourEntries, FormalEntries, EntriesOf
<1>2. account[v].sequence \in Nat /\ \A e \in entries : e.quota \in Int
  BY DEF LedgerTypeOK, AccountRow, Entry
<1>3. \A e \in EntriesOf(v) : e.sequence \in 1..account[v].sequence
  BY DEF SequenceGapless
<1>4. \A k \in 1..account[v].sequence : k \in Nat \ {0} /\ k <= account[v].sequence
  BY <1>2
<1>5. IsFiniteSet(HourEntries(v, h))
  BY <1>1, FS_Subset DEF LedgerFinite
<1> QED BY <1>1, <1>2, <1>3, <1>4, <1>5

(* Appending an entry updates exactly the summary that the entry belongs to. *)
LEMMA HourAppend ==
  ASSUME LedgerTypeOK, LedgerFinite, SequenceGapless, NEW u \in Users, NEW key, NEW kind, NEW q \in Int, NEW delta,
         appendBillingEntry(u, key, kind, q, delta), NEW v \in Users, NEW h \in 1..MaxHour,
         hours[v][h] = Summary(HourEntries(v, h))
  PROVE  hours'[v][h] = Summary(HourEntries(v, h)')
<1> DEFINE n == account[u].sequence + 1
           new == NewEntry(u, key, kind, q, delta)
<1>1. /\ entries' = entries \cup {new} /\ new \notin entries /\ new.user = u /\ new.kind = kind /\ new.quota = q
      /\ new.sequence = n /\ new.postedAt = now
  BY AppendedIsNew
<1>2. /\ account \in [Users -> AccountRow] /\ hours \in [Users -> [1..MaxHour -> HourRow]]
      /\ now \in 1..MaxHour /\ account[u].sequence \in Nat
  BY DEF LedgerTypeOK, AccountRow
<1>3. /\ account' = [account EXCEPT ![u].sequence = n]
      /\ hours' = IF Formal(u, kind, n) THEN [hours EXCEPT ![u][now] = HourWith(@, q, n)] ELSE hours
  BY DEF appendBillingEntry
<1>4. account'[v].startAt = account[v].startAt /\ account'[v].startSequence = account[v].startSequence
  BY <1>2, <1>3 DEF AccountRow
<1> HIDE DEF new
<1>5. HourEntries(v, h)' = HourEntries(v, h) \cup IF v = u /\ h = now /\ Formal(u, kind, n) THEN {new} ELSE {}
  <2>1. HourEntries(v, h)' =
          {e \in entries \cup {new} : /\ e.user = v /\ e.kind # "funding"
                                     /\ e.sequence >= account[v].startSequence
                                     /\ e.postedAt >= account[v].startAt
                                     /\ account[v].startAt # 0 /\ e.postedAt = h}
    BY <1>1, <1>4 DEF HourEntries, FormalEntries
  <2>2. HourEntries(v, h) =
          {e \in entries : /\ e.user = v /\ e.kind # "funding"
                           /\ e.sequence >= account[v].startSequence
                           /\ e.postedAt >= account[v].startAt
                           /\ account[v].startAt # 0 /\ e.postedAt = h}
    BY DEF HourEntries, FormalEntries
  <2>3. /\ new.user = v /\ new.kind # "funding" /\ new.sequence >= account[v].startSequence
        /\ new.postedAt >= account[v].startAt /\ account[v].startAt # 0 /\ new.postedAt = h
        <=> v = u /\ h = now /\ Formal(u, kind, n)
    BY <1>1 DEF Formal
  <2> QED BY <2>1, <2>2, <2>3
<1>6. CASE v = u /\ h = now /\ Formal(u, kind, n)
  <2>1. hours'[v][h] = HourWith(Summary(HourEntries(v, h)), q, n)
    BY <1>2, <1>3, <1>6
  <2>2. new \notin HourEntries(v, h)
    BY <1>1 DEF HourEntries, FormalEntries
  <2>3. \A e \in HourEntries(v, h) : e.sequence < n
    BY <1>2, <1>6, HourEntriesFacts
  <2>4. /\ IsFiniteSet(HourEntries(v, h))
        /\ \A e \in HourEntries(v, h) : e.quota \in Int /\ e.sequence \in Nat \ {0}
    BY HourEntriesFacts
  <2>5. n \in Nat
    BY <1>2
  <2>6. Summary(HourEntries(v, h) \cup {new}) = HourWith(Summary(HourEntries(v, h)), q, n)
    <3> HIDE DEF n
    <3> QED BY <1>1, <2>2, <2>3, <2>4, <2>5, SummaryGrows
  <2> QED BY <1>5, <1>6, <2>1, <2>6
<1>7. CASE ~(v = u /\ h = now /\ Formal(u, kind, n))
  <2>1. HourEntries(v, h)' = HourEntries(v, h)
    BY <1>5, <1>7
  <2>2. hours'[v][h] = hours[v][h]
    BY <1>2, <1>3, <1>7
  <2> QED BY <2>1, <2>2
<1> QED BY <1>6, <1>7

(* Every step keeps the summaries equal to a recomputation: transactions   *)
(* update them with the entry they post, and the accounting start moves    *)
(* only while nothing counts, to behind the last entry.                    *)
LEMMA HourStep ==
  ASSUME LedgerTypeOK, LedgerFinite, SequenceGapless, HoursReconcile, [LedgerNext]_ledgerVars
  PROVE  HoursReconcile'
<1> SUFFICES ASSUME NEW v \in Users, NEW h \in 1..MaxHour
             PROVE  hours'[v][h] = Summary(HourEntries(v, h)')
  BY DEF HoursReconcile, Summary, Charges, Refunds, Numbered
<1>1. hours[v][h] = Summary(HourEntries(v, h))
  BY DEF HoursReconcile, Summary, Charges, Refunds, Numbered
<1>2. ASSUME UNCHANGED <<hours, entries>>, StartKept(v)
      PROVE  hours'[v][h] = Summary(HourEntries(v, h)')
  <2>1. HourEntries(v, h)' = HourEntries(v, h)
    BY <1>2 DEF StartKept, HourEntries, FormalEntries
  <2> QED BY <1>1, <1>2, <2>1
<1>3. ASSUME ProfileStep PROVE hours'[v][h] = Summary(HourEntries(v, h)')
  <2>1. CASE StartKept(v)
    BY <1>2, <1>3, <2>1 DEF ProfileStep
  <2>2. CASE StartMoved(v)
    <3>1. HourEntries(v, h) = {}
      <4>1. account[v].startAt \in Nat
        BY ClockAssumption DEF LedgerTypeOK, AccountRow
      <4> QED BY <2>2, <4>1 DEF StartMoved, HourEntries
    <3>2. HourEntries(v, h)' = {}
      <4>1. account'[v].startSequence = account[v].sequence + 1 /\ entries' = entries
        BY <1>3, <2>2 DEF ProfileStep, StartMoved
      <4>2. account[v].sequence \in Nat /\ \A e \in EntriesOf(v) : e.sequence \in 1..account[v].sequence
        BY DEF LedgerTypeOK, AccountRow, SequenceGapless
      <4>3. \A e \in EntriesOf(v) : ~(e.sequence >= account[v].sequence + 1)
        BY <4>2
      <4>4. HourEntries(v, h)' \subseteq {e \in EntriesOf(v) : e.sequence >= account[v].sequence + 1}
        BY <4>1 DEF HourEntries, FormalEntries, EntriesOf
      <4> QED BY <4>3, <4>4
    <3> QED BY <1>1, <1>3, <3>1, <3>2 DEF ProfileStep
  <2> QED BY <1>3, <2>1, <2>2 DEF ProfileStep
<1>4. ASSUME NEW o \in Ops, NEW a, BeginBillingOperation(o, a) \/ ResizeBillingReservation(o, a) \/ RefundOperation(o)
      PROVE  hours'[v][h] = Summary(HourEntries(v, h)')
  BY <1>2, <1>4 DEF BeginBillingOperation, ResizeBillingReservation, RefundOperation, StartKept
<1>5. ASSUME NEW o \in Ops, NEW a \in 0..MaxWalletQuota, SettleOperation(o, a)
      PROVE  hours'[v][h] = Summary(HourEntries(v, h)')
  <2>1. a \in Int /\ Owner[o] \in Users
    BY OwnerAssumption, MaxWalletQuotaAssumption
  <2> QED BY <1>1, <1>5, <2>1, HourAppend DEF SettleOperation
<1>6. ASSUME NEW k, NEW u \in Users, NEW kind, NEW q \in Int, NEW d, PostEntry(k, u, kind, q, d)
      PROVE  hours'[v][h] = Summary(HourEntries(v, h)')
  BY <1>1, <1>6, HourAppend DEF PostEntry
<1>7. ASSUME NEW j \in Jobs, NEW target \in 0..MaxWalletQuota, AdjustJob(j, target)
      PROVE  hours'[v][h] = Summary(HourEntries(v, h)')
  <2>1. Owner[j] \in Users /\ target - jobQuota[j] \in Int
    BY OwnerAssumption, MaxWalletQuotaAssumption DEF LedgerTypeOK
  <2> QED BY <1>1, <1>7, <2>1, HourAppend DEF AdjustJob
<1> QED BY StepCases, <1>3, <1>4, <1>5, <1>6, <1>7 DEF Transaction

(* The BillingHour rows are what a recomputation from the journal gives,   *)
(* although the accounting start may move (appendBillingEntry keeps them   *)
(* up incrementally, UpdateBillingProfile moves the start).                *)
THEOREM SummariesReconcile == LedgerSpec => []HoursReconcile
<1>1. LedgerInit => HoursReconcile
  <2> SUFFICES ASSUME LedgerInit, NEW u \in Users, NEW h \in 1..MaxHour
               PROVE  hours[u][h] = Summary(HourEntries(u, h))
    BY DEF HoursReconcile, Summary, Charges, Refunds, Numbered
  <2>1. HourEntries(u, h) = {}
    BY DEF LedgerInit, HourEntries, FormalEntries
  <2>2. SumFunction(Charges({})) = 0 /\ SumFunction(Refunds({})) = 0
    BY SumEmpty DEF Charges, Refunds
  <2>3. Summary({}) = EmptyHour
    BY <2>2, FS_EmptySet DEF Summary, EmptyHour
  <2> QED BY <2>1, <2>3 DEF LedgerInit
<1>2. LedgerTypeOK /\ LedgerFinite /\ SequenceGapless /\ HoursReconcile /\ [LedgerNext]_ledgerVars => HoursReconcile'
  BY HourStep
<1> QED BY <1>1, <1>2, LedgerTypeCorrect, LedgerStaysFinite, JournalGapless, PTL DEF LedgerSpec
=============================================================================
