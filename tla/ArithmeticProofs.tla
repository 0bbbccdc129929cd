-------------------------- MODULE ArithmeticProofs --------------------------
(***************************************************************************)
(* The arithmetic of all engines: facts about the commission, for every    *)
(* amount and rate, and about SumFunctionOnSet of Functions, for finite    *)
(* sets of any size: the sum over a set is that over the set without an    *)
(* element plus what the function gives for the element, whichever it is.  *)
(*                                                                         *)
(* The sum is defined by recursion over the subsets of the set, each time  *)
(* taking out an element of CHOOSE's liking.  The proofs are by induction  *)
(* over finite sets in the form: a family of subsets of a finite set that  *)
(* is not empty has an element none of whose proper subsets is in it.      *)
(***************************************************************************)
EXTENDS Commission, Functions, FiniteSetTheorems, WellFoundedInduction, TLAPS

\* The commission is a natural number (state/escrow.rs calculate_commission).
LEMMA CommissionNat ==
    ASSUME NEW a \in Nat, NEW r \in Nat
    PROVE  CalculateCommission(a, r) \in Nat
<1>1. a * r \in Nat
  OBVIOUS
<1> QED
  BY <1>1 DEF CalculateCommission, BpsDenominator

\* Nothing is charged on nothing: remaining_commission of an escrow that has
\* released nothing is its whole commission.
LEMMA CommissionOfZero ==
    ASSUME NEW r \in Nat
    PROVE  CalculateCommission(0, r) = 0
BY DEF CalculateCommission, BpsDenominator

\* Within the permitted rates the commission never exceeds the amount, so the
\* cast back to u64 in calculate_commission cannot truncate.
LEMMA CommissionBounded ==
    ASSUME NEW a \in Nat, NEW r \in 0..MaxCommissionRateBps
    PROVE  CalculateCommission(a, r) <= a
<1>1. a * r <= a * BpsDenominator
  BY DEF MaxCommissionRateBps, BpsDenominator
<1>2. a * r \in Nat
  OBVIOUS
<1>3. ASSUME NEW p \in Nat, p <= a * 10000
      PROVE  p \div 10000 <= a
  BY <1>3
<1> QED
  BY <1>1, <1>2, <1>3 DEF CalculateCommission, BpsDenominator

\* Commission is monotone in the amount: what a cumulative counter has been
\* charged never goes down as the counter grows.
LEMMA CommissionMonotone ==
    ASSUME NEW a \in Nat, NEW b \in Nat, a <= b, NEW r \in Nat
    PROVE  CalculateCommission(a, r) <= CalculateCommission(b, r)
<1>1. a * r <= b * r /\ a * r \in Nat /\ b * r \in Nat
  OBVIOUS
<1>2. ASSUME NEW p \in Nat, NEW q \in Nat, p <= q
      PROVE  p \div 10000 <= q \div 10000
  BY <1>2
<1> QED
  BY <1>1, <1>2 DEF CalculateCommission, BpsDenominator

\* Commission is additive to within one unit: the growth of a cumulative
\* commission is the commission on what was added, rounded down or up.
LEMMA CommissionGrowth ==
    ASSUME NEW a \in Nat, NEW b \in Nat, NEW r \in Nat
    PROVE  /\ CalculateCommission(a, r) + CalculateCommission(b, r)
              <= CalculateCommission(a + b, r)
           /\ CalculateCommission(a + b, r)
              <= CalculateCommission(a, r) + CalculateCommission(b, r) + 1
<1>1. a * r \in Nat /\ b * r \in Nat /\ (a + b) * r = a * r + b * r
  OBVIOUS
<1>2. ASSUME NEW p \in Nat, NEW q \in Nat
      PROVE  /\ p \div 10000 + q \div 10000 <= (p + q) \div 10000
             /\ (p + q) \div 10000 <= p \div 10000 + q \div 10000 + 1
  OBVIOUS
<1> QED
  BY <1>1, <1>2 DEF CalculateCommission, BpsDenominator

LEMMA SaturatingSubNat ==
    ASSUME NEW a \in Nat, NEW b \in Nat
    PROVE  SaturatingSub(a, b) \in Nat /\ SaturatingSub(a, b) <= a
BY DEF SaturatingSub

LEMMA LeastNat ==
    ASSUME NEW a \in Nat, NEW b \in Nat
    PROVE  Least(a, b) \in Nat /\ Least(a, b) <= a /\ Least(a, b) <= b
BY DEF Least

-----------------------------------------------------------------------------
(* Finite sums. *)

\* A function that is additive on the subsets of S.
IsSum(g, f, S) ==
    /\ g \in [SUBSET S -> Nat]
    /\ g[{}] = 0
    /\ \A T \in SUBSET S : \A x \in T : g[T] = f[x] + g[T \ {x}]

Chosen(T) == CHOOSE x \in T : TRUE

\* The recursion by which the sum is defined.
IsRecursiveSum(g, f, S) ==
    g = [T \in SUBSET S |->
            IF T = {} THEN 0 ELSE f[Chosen(T)] + g[T \ {Chosen(T)}]]

\* A non-empty family of subsets of a finite set has a minimal element.
LEMMA MinimalSubset ==
    ASSUME NEW S, IsFiniteSet(S), NEW Family, Family \subseteq SUBSET S, Family # {}
    PROVE  \E T \in Family : \A U \in SUBSET T : U # T => U \notin Family
<1>1. IsWellFoundedOn(StrictSubsetOrdering(S), SUBSET S)
  BY FS_StrictSubsetOrderingWellFounded, FS_FiniteSubsetsOfFinite
<1>2. PICK T \in Family : \A U \in Family : ~(<<U, T>> \in StrictSubsetOrdering(S))
  BY <1>1, WFMin
<1>3. ASSUME NEW U \in SUBSET T, U # T, U \in Family
      PROVE  FALSE
  BY <1>2, <1>3 DEF StrictSubsetOrdering
<1> QED
  BY <1>3

\* An additive function on the subsets of T extends to those of T with one
\* more element x.
LEMMA SumExtends ==
    ASSUME NEW f, NEW T, NEW x, x \notin T, f[x] \in Nat, \A y \in T : f[y] \in Nat,
           NEW g, IsSum(g, f, T)
    PROVE  \E e : IsSum(e, f, T \cup {x})
<1> DEFINE e == [U \in SUBSET (T \cup {x}) |->
                    IF x \in U THEN f[x] + g[U \ {x}] ELSE g[U]]
<1>1. ASSUME NEW U \in SUBSET (T \cup {x})
      PROVE  /\ U \ {x} \in SUBSET T /\ (x \notin U => U \in SUBSET T)
             /\ e[U] = IF x \in U THEN f[x] + g[U \ {x}] ELSE g[U]
  OBVIOUS
<1>2. e \in [SUBSET (T \cup {x}) -> Nat]
  BY <1>1 DEF IsSum
<1>3. e[{}] = 0
  BY DEF IsSum
<1>4. ASSUME NEW U \in SUBSET (T \cup {x}), NEW y \in U
      PROVE  e[U] = f[y] + e[U \ {y}]
  <2>1. U \ {y} \in SUBSET (T \cup {x})
    OBVIOUS
  <2>2. CASE x \notin U
    BY <1>1, <2>1, <2>2 DEF IsSum
  <2>3. CASE x \in U /\ y = x
    BY <1>1, <2>1, <2>3
  <2>4. CASE x \in U /\ y # x
    <3>1. /\ e[U] = f[x] + g[U \ {x}]
          /\ e[U \ {y}] = f[x] + g[(U \ {y}) \ {x}]
      BY <1>1, <2>1, <2>4
    <3>2. g[U \ {x}] = f[y] + g[(U \ {x}) \ {y}]
      <4>1. U \ {x} \in SUBSET T /\ y \in U \ {x}
        BY <2>4
      <4>2. \A V \in SUBSET T : \A z \in V : g[V] = f[z] + g[V \ {z}]
        BY DEF IsSum
      <4> HIDE DEF e
      <4> QED
        BY <4>1, <4>2
    <3>3. (U \ {x}) \ {y} = (U \ {y}) \ {x}
      OBVIOUS
    <3>4. f[y] \in Nat /\ g[(U \ {x}) \ {y}] \in Nat
      BY <2>4 DEF IsSum
    <3>5. e[U \ {y}] = f[x] + g[(U \ {x}) \ {y}]
      BY <3>1, <3>3
    <3> DEFINE r == g[(U \ {x}) \ {y}]
    <3>6. e[U] = f[x] + (f[y] + r) /\ e[U \ {y}] = f[x] + r /\ r \in Nat
      BY <3>1, <3>2, <3>4, <3>5
    <3> HIDE DEF e, r
    <3> QED
      BY <3>4, <3>6
  <2> QED
    BY <2>2, <2>3, <2>4
<1> HIDE DEF e
<1>5. IsSum(e, f, T \cup {x})
  BY <1>2, <1>3, <1>4 DEF IsSum
<1> QED
  BY <1>5

\* There is an additive function on the subsets of every finite set.
LEMMA SumExists ==
    ASSUME NEW f, NEW S, IsFiniteSet(S), \A x \in S : f[x] \in Nat
    PROVE  \E g : IsSum(g, f, S)
<1> DEFINE Bad == {T \in SUBSET S : ~ \E g : IsSum(g, f, T)}
<1>1. SUFFICES ASSUME Bad # {} PROVE FALSE
  OBVIOUS
<1>2. PICK T \in Bad : \A U \in SUBSET T : U # T => U \notin Bad
  <2>1. Bad \subseteq SUBSET S
    OBVIOUS
  <2> HIDE DEF Bad
  <2> QED
    BY <1>1, <2>1, MinimalSubset
<1>3. CASE T = {}
  <2>1. IsSum([U \in SUBSET {} |-> 0], f, {})
    BY DEF IsSum
  <2> QED
    BY <1>3, <2>1
<1>4. CASE T # {}
  <2>1. PICK x \in T : TRUE
    BY <1>4
  <2>2. PICK g : IsSum(g, f, T \ {x})
    BY <1>2, <2>1
  <2>3. \E e : IsSum(e, f, (T \ {x}) \cup {x})
    BY <2>1, <2>2, SumExtends
  <2>4. (T \ {x}) \cup {x} = T
    BY <2>1
  <2> QED
    BY <2>3, <2>4
<1> QED
  BY <1>3, <1>4

\* The recursion has one solution.
LEMMA RecursiveSumUnique ==
    ASSUME NEW f, NEW S, IsFiniteSet(S), NEW g, NEW h,
           IsRecursiveSum(g, f, S), IsRecursiveSum(h, f, S)
    PROVE  g = h
<1> DEFINE Bad == {T \in SUBSET S : g[T] # h[T]}
<1>1. Bad = {}
  <2> SUFFICES ASSUME Bad # {} PROVE FALSE
    OBVIOUS
  <2>1. PICK T \in Bad : \A U \in SUBSET T : U # T => U \notin Bad
    <3>1. Bad \subseteq SUBSET S
      OBVIOUS
    <3> HIDE DEF Bad
    <3> QED
      BY <3>1, MinimalSubset
  <2>2. T # {}
    BY DEF IsRecursiveSum
  <2>3. Chosen(T) \in T
    BY <2>2 DEF Chosen
  <2>4. g[T \ {Chosen(T)}] = h[T \ {Chosen(T)}]
    BY <2>1, <2>3
  <2> QED
    BY <2>2, <2>4 DEF IsRecursiveSum
<1>2. DOMAIN g = SUBSET S /\ DOMAIN h = SUBSET S
  BY DEF IsRecursiveSum
<1>3. g = [T \in SUBSET S |-> g[T]] /\ h = [T \in SUBSET S |-> h[T]]
  BY <1>2 DEF IsRecursiveSum
<1> QED
  BY <1>1, <1>3

LEMMA SumDefinition ==
    ASSUME NEW f, NEW S
    PROVE  SumFunctionOnSet(f, S) = (CHOOSE g : IsRecursiveSum(g, f, S))[S]
BY DEF SumFunctionOnSet, FoldFunctionOnSet, MapThenFoldSet, IsRecursiveSum, Chosen

\* Any additive function is the sum.
LEMMA AdditiveIsSum ==
    ASSUME NEW f, NEW S, IsFiniteSet(S), NEW g, IsSum(g, f, S), NEW T \in SUBSET S
    PROVE  SumFunctionOnSet(f, T) = g[T]
<1> DEFINE k == [U \in SUBSET T |-> g[U]]
<1>1. k = [U \in SUBSET T |-> IF U = {} THEN 0 ELSE f[Chosen(U)] + k[U \ {Chosen(U)}]]
  <2>1. ASSUME NEW U \in SUBSET T, U # {}
        PROVE  g[U] = f[Chosen(U)] + k[U \ {Chosen(U)}]
    <3>1. Chosen(U) \in U /\ U \in SUBSET S
      BY <2>1 DEF Chosen
    <3> QED
      BY <3>1 DEF IsSum
  <2>2. g[{}] = 0
    BY DEF IsSum
  <2> QED
    BY <2>1, <2>2
<1> HIDE DEF k
<1>2. IsRecursiveSum(k, f, T)
  BY <1>1, Zenon DEF IsRecursiveSum
<1>3. IsRecursiveSum(CHOOSE h : IsRecursiveSum(h, f, T), f, T)
  BY <1>2, Zenon
<1>4. IsFiniteSet(T)
  BY FS_Subset
<1>5. (CHOOSE h : IsRecursiveSum(h, f, T)) = k
  BY <1>2, <1>3, <1>4, RecursiveSumUnique, Zenon
<1> QED
  BY <1>5, SumDefinition DEF k

-----------------------------------------------------------------------------
(***************************************************************************)
(* What the other modules use.                                             *)
(***************************************************************************)

\* A sum of naturals is a natural, and that over no element is 0.
LEMMA SumNat ==
    ASSUME NEW f, NEW S, IsFiniteSet(S), \A x \in S : f[x] \in Nat
    PROVE  SumFunctionOnSet(f, S) \in Nat
<1>1. PICK g : IsSum(g, f, S)
  BY SumExists
<1>2. SumFunctionOnSet(f, S) = g[S]
  BY <1>1, AdditiveIsSum
<1> QED
  BY <1>1, <1>2 DEF IsSum

LEMMA SumEmpty ==
    ASSUME NEW f
    PROVE  SumFunctionOnSet(f, {}) = 0
<1>1. PICK g : IsSum(g, f, {})
  BY SumExists, FS_EmptySet
<1>2. SumFunctionOnSet(f, {}) = g[{}]
  BY <1>1, AdditiveIsSum, FS_EmptySet
<1> QED
  BY <1>1, <1>2 DEF IsSum

\* The sum without x, whichever element x is.
LEMMA SumRemove ==
    ASSUME NEW f, NEW S, IsFiniteSet(S), \A y \in S : f[y] \in Nat, NEW x \in S
    PROVE  /\ SumFunctionOnSet(f, S) = f[x] + SumFunctionOnSet(f, S \ {x})
           /\ SumFunctionOnSet(f, S \ {x}) \in Nat
<1>1. PICK g : IsSum(g, f, S)
  BY SumExists
<1>2. SumFunctionOnSet(f, S) = g[S] /\ SumFunctionOnSet(f, S \ {x}) = g[S \ {x}]
  BY <1>1, AdditiveIsSum
<1> QED
  BY <1>1, <1>2 DEF IsSum

\* The sum with one more element.
LEMMA SumAdd ==
    ASSUME NEW f, NEW S, IsFiniteSet(S), \A y \in S : f[y] \in Nat,
           NEW x, x \notin S, f[x] \in Nat
    PROVE  SumFunctionOnSet(f, S \cup {x}) = f[x] + SumFunctionOnSet(f, S)
<1>1. IsFiniteSet(S \cup {x})
  BY FS_AddElement
<1>2. (S \cup {x}) \ {x} = S
  OBVIOUS
<1>3. x \in S \cup {x} /\ \A y \in S \cup {x} : f[y] \in Nat
  OBVIOUS
<1>4. SumFunctionOnSet(f, S \cup {x})
        = f[x] + SumFunctionOnSet(f, (S \cup {x}) \ {x})
  BY <1>1, <1>3, SumRemove
<1> QED
  BY <1>2, <1>4

\* The sum depends on the values over the set alone.
LEMMA SumCongruence ==
    ASSUME NEW f, NEW h, NEW S, IsFiniteSet(S),
           \A x \in S : f[x] \in Nat /\ f[x] = h[x]
    PROVE  SumFunctionOnSet(f, S) = SumFunctionOnSet(h, S)
<1>1. PICK g : IsSum(g, f, S)
  BY SumExists
<1>2. IsSum(g, h, S)
  BY <1>1 DEF IsSum
<1>3. SumFunctionOnSet(f, S) = g[S] /\ SumFunctionOnSet(h, S) = g[S]
  BY <1>1, <1>2, AdditiveIsSum
<1> QED
  BY <1>3

\* Nothing adds up to nothing.
LEMMA SumOfZeros ==
    ASSUME NEW f, NEW S, IsFiniteSet(S), \A x \in S : f[x] = 0
    PROVE  SumFunctionOnSet(f, S) = 0
<1> DEFINE g == [T \in SUBSET S |-> 0]
<1>1. IsSum(g, f, S)
  BY DEF IsSum
<1>2. g[S] = 0
  OBVIOUS
<1> HIDE DEF g
<1> QED
  BY <1>1, <1>2, AdditiveIsSum

\* Sums of several functions add up.
LEMMA SumPlus ==
    ASSUME NEW f, NEW h, NEW k, NEW S, IsFiniteSet(S),
           \A x \in S : f[x] \in Nat /\ h[x] \in Nat /\ k[x] = f[x] + h[x]
    PROVE  SumFunctionOnSet(k, S) = SumFunctionOnSet(f, S) + SumFunctionOnSet(h, S)
<1>1. PICK a : IsSum(a, f, S)
  BY SumExists
<1>2. PICK b : IsSum(b, h, S)
  BY SumExists
<1> DEFINE c == [T \in SUBSET S |-> a[T] + b[T]]
<1>3. IsSum(c, k, S)
  <2>1. c \in [SUBSET S -> Nat] /\ c[{}] = 0
    BY <1>1, <1>2 DEF IsSum
  <2>2. ASSUME NEW T \in SUBSET S, NEW x \in T
        PROVE  c[T] = k[x] + c[T \ {x}]
    <3>1. /\ a[T] = f[x] + a[T \ {x}] /\ a[T \ {x}] \in Nat
          /\ b[T] = h[x] + b[T \ {x}] /\ b[T \ {x}] \in Nat
      BY <1>1, <1>2 DEF IsSum
    <3>2. f[x] \in Nat /\ h[x] \in Nat /\ k[x] = f[x] + h[x]
      OBVIOUS
    <3>3. c[T] = a[T] + b[T] /\ c[T \ {x}] = a[T \ {x}] + b[T \ {x}]
      OBVIOUS
    <3> DEFINE r == a[T \ {x}]
               s == b[T \ {x}]
    <3>4. /\ c[T] = (f[x] + r) + (h[x] + s) /\ c[T \ {x}] = r + s
          /\ r \in Nat /\ s \in Nat
      BY <3>1, <3>3
    <3> HIDE DEF c, r, s
    <3> QED
      BY <3>2, <3>4
  <2> HIDE DEF c
  <2> QED
    BY <2>1, <2>2 DEF IsSum
<1>4. /\ SumFunctionOnSet(f, S) = a[S] /\ SumFunctionOnSet(h, S) = b[S]
      /\ c[S] = a[S] + b[S]
  BY <1>1, <1>2, AdditiveIsSum
<1>5. SumFunctionOnSet(k, S) = c[S]
  <2> HIDE DEF c
  <2> QED
    BY <1>3, AdditiveIsSum
<1> QED
  BY <1>4, <1>5

\* One value is replaced by another.
LEMMA SumReplace ==
    ASSUME NEW f, NEW h, NEW S, IsFiniteSet(S), NEW x \in S,
           \A y \in S : f[y] \in Nat /\ h[y] \in Nat,
           \A y \in S \ {x} : f[y] = h[y]
    PROVE  SumFunctionOnSet(h, S) = SumFunctionOnSet(f, S) - f[x] + h[x]
<1>1. IsFiniteSet(S \ {x})
  BY FS_Subset
<1>2. /\ SumFunctionOnSet(f, S) = f[x] + SumFunctionOnSet(f, S \ {x})
      /\ SumFunctionOnSet(f, S \ {x}) \in Nat
      /\ SumFunctionOnSet(h, S) = h[x] + SumFunctionOnSet(h, S \ {x})
  <2>1. (\A y \in S : f[y] \in Nat) /\ \A y \in S : h[y] \in Nat
    OBVIOUS
  <2>2. /\ SumFunctionOnSet(f, S) = f[x] + SumFunctionOnSet(f, S \ {x})
        /\ SumFunctionOnSet(f, S \ {x}) \in Nat
    BY <2>1, SumRemove
  <2>3. SumFunctionOnSet(h, S) = h[x] + SumFunctionOnSet(h, S \ {x})
    BY <2>1, SumRemove
  <2> QED
    BY <2>2, <2>3
<1>3. SumFunctionOnSet(f, S \ {x}) = SumFunctionOnSet(h, S \ {x})
  BY <1>1, SumCongruence
<1>4. f[x] \in Nat /\ h[x] \in Nat
  OBVIOUS
<1> DEFINE r == SumFunctionOnSet(f, S \ {x})
<1>5. /\ SumFunctionOnSet(f, S) = f[x] + r /\ SumFunctionOnSet(h, S) = h[x] + r
      /\ r \in Nat
  BY <1>2, <1>3
<1> HIDE DEF r
<1> QED
  BY <1>4, <1>5
=============================================================================
