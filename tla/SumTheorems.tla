---------------------------- MODULE SumTheorems ----------------------------
(***************************************************************************)
(* The mathematics that the proofs share: induction, recursion, division   *)
(* and sums.                                                               *)
(*                                                                         *)
(* The library states induction with an operator for a parameter, which    *)
(* the provers cannot instantiate.  Here it is stated with a SET: of       *)
(* numbers in SetInduction, of subsets in FiniteInduction; Recursion       *)
(* states with a FUNCTION that what is defined by recursion exists.        *)
(*                                                                         *)
(* The sums are those of the community module Functions, for any finite    *)
(* set and any integers: the ORDER in which SumFunctionOnSet takes the     *)
(* elements does not matter, a sum over disjoint parts is the sum of their *)
(* sums, and more of what is not negative sums to more.                    *)
(***************************************************************************)
EXTENDS Integers, FiniteSets, Functions, FiniteSetTheorems, WellFoundedInduction, TLAPS

\* A set of numbers with 0 and the successor of each of its numbers has them all.
LEMMA SetInduction ==
  ASSUME NEW I, 0 \in I, \A n \in Nat : n \in I => n + 1 \in I
  PROVE  Nat \subseteq I
<1> DEFINE Less == OpToRel(<, Nat)
<1>1. \A m, n \in Nat : m < n => <<m, n>> \in Less
  BY DEF OpToRel
<1>2. IsWellFoundedOn(Less, Nat)
  BY NatLessThanWellFounded
<1> HIDE DEF Less
<1> SUFFICES ASSUME Nat \ I # {} PROVE FALSE
  OBVIOUS
<1>3. PICK n \in Nat \ I : \A k \in Nat \ I : ~(<<k, n>> \in Less)
  BY <1>2, WFMin
<1>4. n # 0 /\ n - 1 \in Nat
  BY <1>3
<1>5. n - 1 \in I
  <2>1. n - 1 < n
    BY <1>4
  <2>2. <<n - 1, n>> \in Less
    BY <1>1, <1>4, <2>1
  <2>3. n - 1 \notin Nat \ I
    BY <1>3, <2>2
  <2>4. QED
    BY <1>4, <2>3
<1>6. QED
  BY <1>3, <1>4, <1>5

\* Induction over the subsets of a finite set.
LEMMA FiniteInduction ==
  ASSUME NEW S, IsFiniteSet(S), NEW C, {} \in C,
         \A T \in SUBSET S : \A x \in S \ T : T \in C => T \union {x} \in C
  PROVE  S \in C
<1> DEFINE I == {n \in Nat : \A T \in SUBSET S : Cardinality(T) = n => T \in C}
<1>1. \A T \in SUBSET S : IsFiniteSet(T) /\ Cardinality(T) \in Nat
  BY FS_Subset, FS_CardinalityType
<1>2. 0 \in I
  BY <1>1, FS_EmptySet
<1>3. \A n \in Nat : n \in I => n + 1 \in I
  <2> SUFFICES ASSUME NEW n \in Nat, n \in I, NEW T \in SUBSET S, Cardinality(T) = n + 1
               PROVE  T \in C
    OBVIOUS
  <2>1. T # {}
    BY FS_EmptySet
  <2>2. PICK x \in T : TRUE
    BY <2>1
  <2>3. Cardinality(T \ {x}) = n
    BY <1>1, FS_RemoveElement
  <2>4. T \ {x} \in C
    BY <2>3
  <2>5. T = (T \ {x}) \union {x} /\ x \in S \ (T \ {x})
    OBVIOUS
  <2>6. QED
    BY <2>4, <2>5
<1> HIDE DEF I
<1>4. Nat \subseteq I
  BY <1>2, <1>3, SetInduction
<1>5. QED
  BY <1>1, <1>4 DEF I

\* What a function takes a finite set to is finite.
ImageOf(f, S) == {f[x] : x \in S}

\* The image of a finite set is finite.
LEMMA FiniteImage ==
  ASSUME NEW S, IsFiniteSet(S), NEW f
  PROVE  IsFiniteSet(ImageOf(f, S))
<1> DEFINE C == {T \in SUBSET S : IsFiniteSet(ImageOf(f, T))}
<1>1. {} \in C
  <2>1. ImageOf(f, {}) = {}
    BY DEF ImageOf
  <2>2. QED
    BY <2>1, FS_EmptySet
<1>2. ASSUME NEW T \in SUBSET S, NEW x \in S \ T, T \in C PROVE T \union {x} \in C
  <2>1. ImageOf(f, T \union {x}) = ImageOf(f, T) \union {f[x]}
    BY DEF ImageOf
  <2>2. IsFiniteSet(ImageOf(f, T) \union {f[x]})
    BY <1>2, FS_AddElement
  <2>3. QED
    BY <2>1, <2>2
<1> HIDE DEF C
<1>3. S \in C
  BY <1>1, <1>2, FiniteInduction
<1>4. QED
  BY <1>3 DEF C

\* A non-empty set of numbers has a least one.
LEMMA LeastNumber ==
  ASSUME NEW N \in SUBSET Nat, N # {}
  PROVE  \E m \in N : \A n \in N : m <= n
<1> DEFINE I == {n \in Nat : \A k \in N : n <= k}
<1> SUFFICES ASSUME \A m \in N : \E n \in N : ~(m <= n) PROVE FALSE
  OBVIOUS
<1>1. 0 \in I
  OBVIOUS
<1>2. ASSUME NEW n \in Nat, n \in I PROVE n + 1 \in I
  <2>1. n \notin N
    BY <1>2
  <2>2. QED
    BY <1>2, <2>1
<1>3. Nat \subseteq I
  <2> HIDE DEF I
  <2>1. QED
    BY <1>1, <1>2, SetInduction
<1>4. PICK k \in N : TRUE
  OBVIOUS
<1>5. k + 1 \in I /\ k \in Nat
  BY <1>3
<1>6. QED
  BY <1>4, <1>5

\* What is defined by recursion on numbers exists.
IsRecursion(F, V, b, step) ==
  F \in [Nat -> V] /\ F[0] = b /\ \A n \in Nat : F[n + 1] = step[<<n, F[n]>>]

\* A first value and a step define a function on the numbers.
LEMMA Recursion ==
  ASSUME NEW V, NEW b \in V, NEW step, \A n \in Nat, x \in V : step[<<n, x>>] \in V
  PROVE  \E F : IsRecursion(F, V, b, step)
<1> DEFINE Upto(F, n) == /\ F \in [Nat -> V] /\ F[0] = b
                         /\ \A k \in Nat : k < n => F[k + 1] = step[<<k, F[k]>>]
           I == {n \in Nat : \E F : Upto(F, n)}
<1>1. 0 \in I
  <2> DEFINE F == [k \in Nat |-> b]
  <2>1. Upto(F, 0)
    OBVIOUS
  <2> HIDE DEF F
  <2>2. QED
    BY <2>1
<1>2. ASSUME NEW n \in Nat, n \in I PROVE n + 1 \in I
  <2>1. PICK F : Upto(F, n)
    BY <1>2
  <2> DEFINE G == [k \in Nat |-> IF k = n + 1 THEN step[<<n, F[n]>>] ELSE F[k]]
  <2>2. step[<<n, F[n]>>] \in V
    BY <2>1
  <2>3. G \in [Nat -> V] /\ G[0] = b /\ G[n + 1] = step[<<n, F[n]>>]
        /\ \A k \in Nat : k <= n => G[k] = F[k]
    BY <2>1, <2>2
  <2> HIDE DEF G
  <2>4. \A k \in Nat : k < n + 1 => G[k + 1] = step[<<k, G[k]>>]
    <3> TAKE k \in Nat
    <3>1. CASE k < n
      <4>1. G[k + 1] = F[k + 1] /\ G[k] = F[k]
        BY <2>3, <3>1
      <4>2. F[k + 1] = step[<<k, F[k]>>]
        BY <2>1, <3>1
      <4>3. QED
        BY <4>1, <4>2
    <3>2. CASE k = n
      BY <2>3, <3>2
    <3>3. QED
      BY <3>1, <3>2
  <2>5. QED
    BY <2>3, <2>4
<1>3. Nat \subseteq I
  <2> HIDE DEF I
  <2>1. QED
    BY <1>1, <1>2, SetInduction
<1>4. \A F, G, m, n :
        Upto(F, m) /\ Upto(G, n) /\ m \in Nat /\ n \in Nat /\ m <= n
          => \A k \in Nat : k <= m => F[k] = G[k]
  <2> SUFFICES ASSUME NEW F, NEW G, NEW m \in Nat, NEW n \in Nat, m <= n, Upto(F, m), Upto(G, n)
               PROVE  \A k \in Nat : k <= m => F[k] = G[k]
    OBVIOUS
  <2> DEFINE J == {k \in Nat : k <= m => F[k] = G[k]}
  <2>1. 0 \in J
    OBVIOUS
  <2>2. ASSUME NEW k \in Nat, k \in J PROVE k + 1 \in J
    <3> SUFFICES ASSUME k + 1 <= m PROVE F[k + 1] = G[k + 1]
      OBVIOUS
    <3>1. F[k] = G[k] /\ k < m /\ k < n
      BY <2>2
    <3>2. F[k + 1] = step[<<k, F[k]>>] /\ G[k + 1] = step[<<k, G[k]>>]
      BY <3>1
    <3>3. QED
      BY <3>1, <3>2
  <2> HIDE DEF J
  <2>3. Nat \subseteq J
    BY <2>1, <2>2, SetInduction
  <2>4. QED
    BY <2>3 DEF J
<1> DEFINE of(n) == CHOOSE F : Upto(F, n)
           H == [n \in Nat |-> of(n)[n]]
<1>5. \A n \in Nat : Upto(of(n), n)
  BY <1>3
<1>6. H \in [Nat -> V] /\ \A n \in Nat : H[n] = of(n)[n]
  BY <1>5
<1> HIDE DEF H, of
<1>7. H[0] = b
  BY <1>5, <1>6
<1>8. ASSUME NEW n \in Nat PROVE H[n + 1] = step[<<n, H[n]>>]
  <2>1. Upto(of(n), n) /\ Upto(of(n + 1), n + 1)
    BY <1>5
  <2>2. of(n)[n] = of(n + 1)[n]
    <3>1. PICK F, G : F = of(n) /\ G = of(n + 1)
      OBVIOUS
    <3>2. Upto(F, n) /\ Upto(G, n + 1) /\ n + 1 \in Nat /\ n <= n + 1 /\ n <= n
      BY <2>1, <3>1
    <3> HIDE DEF Upto
    <3>3. F[n] = G[n]
      BY <1>4, <3>2
    <3>4. QED
      BY <3>1, <3>3
  <2>3. of(n + 1)[n + 1] = step[<<n, of(n + 1)[n]>>]
    BY <2>1
  <2>4. QED
    BY <1>6, <2>2, <2>3
<1>9. QED
  BY <1>6, <1>7, <1>8 DEF IsRecursion

-----------------------------------------------------------------------------
(* Numbers.                                                                *)

\* Multiples are in the order of their factors.
LEMMA MultiplesInOrder ==
  ASSUME NEW m \in Int, NEW n \in Int, NEW d \in Nat \ {0}
  PROVE  m * d < n * d <=> m < n
<1>1. ASSUME NEW x \in Int, NEW y \in Int, x < y PROVE x * d < y * d
  <2>1. PICK z \in Nat \ {0} : y = x + z
    <3>1. y - x \in Nat \ {0} /\ y = x + (y - x)
      BY <1>1
    <3>2. QED
      BY <3>1
  <2>2. z * d >= d
    <3>1. z * d = d + (z - 1) * d /\ (z - 1) * d >= 0
      OBVIOUS
    <3>2. (z - 1) * d \in Int
      OBVIOUS
    <3>3. QED
      BY <3>1, <3>2
  <2>3. y * d = x * d + z * d
    BY <2>1
  <2>4. x * d \in Int /\ z * d \in Int /\ d > 0
    OBVIOUS
  <2>5. QED
    BY <2>2, <2>3, <2>4
<1>2. m < n => m * d < n * d
  BY <1>1
<1>3. n < m => n * d < m * d
  BY <1>1
<1>4. m = n => m * d = n * d
  OBVIOUS
<1>5. m * d \in Int /\ n * d \in Int
  OBVIOUS
<1>6. QED
  BY <1>2, <1>3, <1>4, <1>5

\* Quotient and remainder are the only ones.
LEMMA DivisionOf ==
  ASSUME NEW x \in Int, NEW m \in Nat \ {0}
  PROVE  /\ x \div m \in Int /\ x % m \in Nat /\ x % m < m
         /\ x = m * (x \div m) + (x % m)
         /\ x \in Nat => x \div m \in Nat
OBVIOUS

\* No other quotient and remainder fit.
LEMMA DivisionUnique ==
  ASSUME NEW x \in Int, NEW m \in Nat \ {0}, NEW q \in Int, NEW r \in Nat, r < m,
         x = m * q + r
  PROVE  q = x \div m /\ r = x % m
<1>1. PICK p \in Int, s \in Nat : p = x \div m /\ s = x % m /\ s < m /\ x = m * p + s
  BY DivisionOf
<1>2. m * q \in Int /\ m * p \in Int /\ m * q = q * m /\ m * p = p * m
  OBVIOUS
<1>3. (q + 1) * m = q * m + m /\ (p + 1) * m = p * m + m /\ q * m \in Int /\ p * m \in Int
  OBVIOUS
<1>4. q * m < (p + 1) * m /\ p * m < (q + 1) * m
  BY <1>1, <1>2, <1>3
<1>5. q < p + 1 <=> q * m < (p + 1) * m
  <2>1. p + 1 \in Int
    OBVIOUS
  <2>2. QED
    BY <2>1, MultiplesInOrder
<1>6. p < q + 1 <=> p * m < (q + 1) * m
  <2>1. q + 1 \in Int
    OBVIOUS
  <2>2. QED
    BY <2>1, MultiplesInOrder
<1>7. q = p
  BY <1>4, <1>5, <1>6
<1>8. QED
  BY <1>1, <1>2, <1>7

-----------------------------------------------------------------------------
(* Sums.                                                                   *)

Pick(T) == CHOOSE x \in T : TRUE
Rest(T) == T \ {Pick(T)}

\* The function SumFunctionOnSet(f, S) computes: what it is at T.
SumStep(F, f, T) == IF T = {} THEN 0 ELSE f[Pick(T)] + F[Rest(T)]
IsSum(F, f, S) == F = [T \in SUBSET S |-> SumStep(F, f, T)]
IsIntSum(F, f, S) == F \in [SUBSET S -> Int] /\ IsSum(F, f, S)

\* What SumFunctionOnSet takes first, and what is left for later.
LEMMA PickRest ==
  ASSUME NEW S, IsFiniteSet(S), NEW T \in SUBSET S
  PROVE  /\ IsFiniteSet(T) /\ Cardinality(T) \in Nat
         /\ Cardinality(T) = 0 <=> T = {}
         /\ T # {} => /\ Pick(T) \in T /\ Rest(T) \in SUBSET S
                      /\ Cardinality(Rest(T)) = Cardinality(T) - 1
<1>1. IsFiniteSet(T) /\ Cardinality(T) \in Nat /\ (Cardinality(T) = 0 <=> T = {})
  BY FS_Subset, FS_CardinalityType, FS_EmptySet
<1>2. ASSUME T # {} PROVE Pick(T) \in T
  BY <1>2 DEF Pick
<1>3. ASSUME T # {} PROVE Cardinality(Rest(T)) = Cardinality(T) - 1
  BY <1>1, <1>2, <1>3, FS_RemoveElement DEF Rest
<1>4. Rest(T) \in SUBSET S
  BY DEF Rest
<1>5. QED
  BY <1>1, <1>2, <1>3, <1>4

\* F is right for the sets of at most n elements.
SumUpto(F, f, S, n) ==
  /\ F \in [SUBSET S -> Int]
  /\ \A T \in SUBSET S : Cardinality(T) <= n => F[T] = SumStep(F, f, T)

\* The equation of the sum has a solution.
LEMMA SumExists ==
  ASSUME NEW S, IsFiniteSet(S), NEW f, \A x \in S : f[x] \in Int
  PROVE  \E F : IsIntSum(F, f, S)
<1> DEFINE I == {n \in Nat : \E F : SumUpto(F, f, S, n)}
<1>1. 0 \in I
  <2> DEFINE F == [T \in SUBSET S |-> 0]
  <2>1. F \in [SUBSET S -> Int] /\ \A T \in SUBSET S : F[T] = 0
    OBVIOUS
  <2> HIDE DEF F
  <2>2. \A T \in SUBSET S : Cardinality(T) <= 0 => T = {}
    BY PickRest
  <2>3. SumUpto(F, f, S, 0)
    BY <2>1, <2>2 DEF SumUpto, SumStep
  <2>4. QED
    BY <2>3
<1>2. ASSUME NEW n \in Nat, n \in I PROVE n + 1 \in I
  <2>1. PICK F : SumUpto(F, f, S, n)
    BY <1>2
  <2> DEFINE G == [T \in SUBSET S |-> SumStep(F, f, T)]
  <2>2. \A T \in SUBSET S : SumStep(F, f, T) \in Int
    <3> TAKE T \in SUBSET S
    <3>1. CASE T = {}
      BY <3>1 DEF SumStep
    <3>2. CASE T # {}
      <4>1. Pick(T) \in S /\ Rest(T) \in SUBSET S
        BY <3>2, PickRest
      <4>2. f[Pick(T)] \in Int /\ F[Rest(T)] \in Int
        BY <2>1, <4>1 DEF SumUpto
      <4>3. QED
        BY <3>2, <4>2 DEF SumStep
    <3>3. QED
      BY <3>1, <3>2
  <2>3. G \in [SUBSET S -> Int] /\ \A T \in SUBSET S : G[T] = SumStep(F, f, T)
    BY <2>2
  <2> HIDE DEF G
  <2>4. \A T \in SUBSET S : Cardinality(T) <= n => G[T] = F[T]
    BY <2>1, <2>3 DEF SumUpto
  <2>5. \A T \in SUBSET S : Cardinality(T) <= n + 1 => G[T] = SumStep(G, f, T)
    <3> SUFFICES ASSUME NEW T \in SUBSET S, Cardinality(T) <= n + 1
                 PROVE  SumStep(F, f, T) = SumStep(G, f, T)
      BY <2>3
    <3>1. CASE T = {}
      BY <3>1 DEF SumStep
    <3>2. CASE T # {}
      <4>1. Rest(T) \in SUBSET S /\ Cardinality(T) \in Nat /\ Cardinality(Rest(T)) = Cardinality(T) - 1
        BY <3>2, PickRest
      <4>2. Cardinality(Rest(T)) <= n
        BY <4>1
      <4>3. G[Rest(T)] = F[Rest(T)]
        BY <2>4, <4>1, <4>2
      <4>4. QED
        BY <4>3 DEF SumStep
    <3>3. QED
      BY <3>1, <3>2
  <2>6. SumUpto(G, f, S, n + 1)
    BY <2>3, <2>5 DEF SumUpto
  <2>7. QED
    BY <2>6
<1> HIDE DEF I
<1>3. Cardinality(S) \in I
  BY <1>1, <1>2, SetInduction, FS_CardinalityType
<1>4. PICK F : SumUpto(F, f, S, Cardinality(S))
  BY <1>3 DEF I
<1>5. \A T \in SUBSET S : Cardinality(T) <= Cardinality(S)
  BY FS_Subset
<1>6. \A T \in SUBSET S : F[T] = SumStep(F, f, T)
  BY <1>4, <1>5 DEF SumUpto
<1>7. F \in [SUBSET S -> Int]
  BY <1>4 DEF SumUpto
<1>8. IsSum(F, f, S)
  BY <1>6, <1>7 DEF IsSum
<1>9. QED
  BY <1>7, <1>8 DEF IsIntSum

\* SumFunctionOnSet is defined by such a solution.
LEMMA SumComputed ==
  ASSUME NEW S, IsFiniteSet(S), NEW f, \A x \in S : f[x] \in Int
  PROVE  \E F : IsSum(F, f, S) /\ SumFunctionOnSet(f, S) = F[S]
<1>1. PICK F : IsSum(F, f, S)
  BY SumExists DEF IsIntSum
<1>2. QED
  BY <1>1 DEF IsSum, SumStep, Rest, Pick, SumFunctionOnSet, FoldFunctionOnSet, MapThenFoldSet

\* Two functions that compute the sums agree on every subset of both.
LEMMA SumUnique ==
  ASSUME NEW S, IsFiniteSet(S), NEW R \in SUBSET S, NEW f, NEW g, \A x \in R : f[x] = g[x],
         NEW F, IsSum(F, f, S), NEW G, IsSum(G, g, R)
  PROVE  G[R] = F[R]
<1> DEFINE I == {n \in Nat : \A T \in SUBSET R : Cardinality(T) = n => F[T] = G[T]}
<1>1. \A T \in SUBSET R : F[T] = SumStep(F, f, T) /\ G[T] = SumStep(G, g, T)
  BY DEF IsSum
<1>2. IsFiniteSet(R) /\ Cardinality(R) \in Nat
  BY FS_Subset, FS_CardinalityType
<1>3. 0 \in I
  <2>1. \A T \in SUBSET R : Cardinality(T) = 0 => T = {}
    BY <1>2, PickRest
  <2>2. QED
    BY <1>1, <2>1 DEF SumStep
<1>4. ASSUME NEW n \in Nat, n \in I PROVE n + 1 \in I
  <2> SUFFICES ASSUME NEW T \in SUBSET R, Cardinality(T) = n + 1
               PROVE  F[T] = G[T]
    OBVIOUS
  <2>1. /\ T # {} /\ Pick(T) \in R /\ Rest(T) \in SUBSET R
        /\ Cardinality(Rest(T)) = n
    BY <1>2, PickRest
  <2>2. F[Rest(T)] = G[Rest(T)]
    BY <1>4, <2>1
  <2>3. QED
    BY <1>1, <2>1, <2>2 DEF SumStep
<1> HIDE DEF I
<1>5. Cardinality(R) \in I
  BY <1>2, <1>3, <1>4, SetInduction
<1>6. QED
  BY <1>5 DEF I

-----------------------------------------------------------------------------
(* The laws of sums.                                                       *)

\* Any element may be taken first.
LEMMA SumAnyFirst ==
  ASSUME NEW S, IsFiniteSet(S), NEW f, \A x \in S : f[x] \in Int,
         NEW F, IsIntSum(F, f, S)
  PROVE  \A x \in S : F[S] = f[x] + F[S \ {x}]
<1> DEFINE First(T) == \A x \in T : F[T] = f[x] + F[T \ {x}]
           I == {n \in Nat : \A T \in SUBSET S : Cardinality(T) = n => First(T)}
<1>0. F \in [SUBSET S -> Int] /\ IsSum(F, f, S)
  BY DEF IsIntSum
<1>1. \A T \in SUBSET S : T # {} => F[T] = f[Pick(T)] + F[T \ {Pick(T)}]
  BY <1>0 DEF IsSum, SumStep, Rest
<1>2. 0 \in I
  <2>1. \A T \in SUBSET S : Cardinality(T) = 0 => T = {}
    BY PickRest
  <2>2. QED
    BY <2>1
<1>3. ASSUME NEW n \in Nat, n \in I PROVE n + 1 \in I
  <2> SUFFICES ASSUME NEW T \in SUBSET S, Cardinality(T) = n + 1, NEW x \in T
               PROVE  F[T] = f[x] + F[T \ {x}]
    OBVIOUS
  <2>1. PICK y \in T : y = Pick(T) /\ F[T] = f[y] + F[T \ {y}]
    BY <1>1, PickRest
  <2>2. CASE x = y
    BY <2>1, <2>2
  <2>3. CASE x # y
    <3>0. IsFiniteSet(T)
      BY FS_Subset
    <3>1. /\ Cardinality(T \ {x}) = n /\ Cardinality(T \ {y}) = n
          /\ T \ {x} \in SUBSET S /\ T \ {y} \in SUBSET S
      <4>1. Cardinality(T \ {x}) = Cardinality(T) - 1
        BY <3>0, FS_RemoveElement
      <4>2. Cardinality(T \ {y}) = Cardinality(T) - 1
        BY <3>0, FS_RemoveElement
      <4>3. QED
        BY <4>1, <4>2
    <3>2. First(T \ {x}) /\ First(T \ {y})
      BY <1>3, <3>1
    <3>3. (T \ {x}) \ {y} = (T \ {y}) \ {x}
      OBVIOUS
    <3>4. x \in T \ {y} /\ y \in T \ {x}
      BY <2>3
    <3>5. F[T \ {y}] = f[x] + F[(T \ {y}) \ {x}]
      BY <3>2, <3>4
    <3>6. F[T \ {x}] = f[y] + F[(T \ {y}) \ {x}]
      BY <3>2, <3>3, <3>4
    <3>7. f[x] \in Int /\ f[y] \in Int /\ F[(T \ {y}) \ {x}] \in Int
      BY <1>0
    <3>8. QED
      BY <2>1, <3>5, <3>6, <3>7
  <2>4. QED
    BY <2>2, <2>3
<1> HIDE DEF I
<1>4. Cardinality(S) \in I
  BY <1>2, <1>3, SetInduction, FS_CardinalityType
<1>5. QED
  BY <1>4 DEF I

\* The sum over no element is 0.
LEMMA SumEmpty ==
  ASSUME NEW f
  PROVE  SumFunctionOnSet(f, {}) = 0
<1>1. PICK F : IsSum(F, f, {}) /\ SumFunctionOnSet(f, {}) = F[{}]
  BY SumComputed, FS_EmptySet
<1>2. QED
  BY <1>1 DEF IsSum, SumStep

\* Sums of integers are integers.
LEMMA SumType ==
  ASSUME NEW S, IsFiniteSet(S), NEW f, \A x \in S : f[x] \in Int
  PROVE  SumFunctionOnSet(f, S) \in Int
<1>1. PICK F \in [SUBSET S -> Int] : IsSum(F, f, S)
  BY SumExists DEF IsIntSum
<1>2. PICK G : IsSum(G, f, S) /\ SumFunctionOnSet(f, S) = G[S]
  BY SumComputed
<1>3. G[S] = F[S]
  BY <1>1, <1>2, SumUnique
<1>4. QED
  BY <1>1, <1>2, <1>3

\* Equal values have equal sums.
LEMMA SumEqual ==
  ASSUME NEW S, IsFiniteSet(S), NEW f, NEW g, \A x \in S : f[x] \in Int /\ g[x] = f[x]
  PROVE  SumFunctionOnSet(g, S) = SumFunctionOnSet(f, S)
<1>1. PICK F : IsSum(F, f, S) /\ SumFunctionOnSet(f, S) = F[S]
  BY SumComputed
<1>2. PICK G : IsSum(G, g, S) /\ SumFunctionOnSet(g, S) = G[S]
  BY SumComputed
<1>3. \A x \in S : f[x] = g[x]
  OBVIOUS
<1>4. G[S] = F[S]
  BY <1>1, <1>2, <1>3, SumUnique
<1>5. QED
  BY <1>1, <1>2, <1>4

\* One element more adds its value.
LEMMA SumAdd ==
  ASSUME NEW S, IsFiniteSet(S), NEW x, x \notin S, NEW f, \A y \in S \union {x} : f[y] \in Int
  PROVE  SumFunctionOnSet(f, S \union {x}) = f[x] + SumFunctionOnSet(f, S)
<1> DEFINE U == S \union {x}
<1>1. IsFiniteSet(U) /\ S \in SUBSET U /\ U \ {x} = S /\ x \in U
  BY FS_AddElement
<1>2. \A y \in U : f[y] \in Int
  OBVIOUS
<1> HIDE DEF U
<1>3. PICK F : IsIntSum(F, f, U)
  BY <1>1, <1>2, SumExists
<1>4. PICK G : IsSum(G, f, U) /\ SumFunctionOnSet(f, U) = G[U]
  BY <1>1, <1>2, SumComputed
<1>5. PICK H : IsSum(H, f, S) /\ SumFunctionOnSet(f, S) = H[S]
  BY <1>1, <1>2, SumComputed
<1>6. G[U] = F[U]
  BY <1>1, <1>3, <1>4, SumUnique DEF IsIntSum
<1>7. H[S] = F[S]
  BY <1>1, <1>3, <1>5, SumUnique DEF IsIntSum
<1>8. F[U] = f[x] + F[U \ {x}]
  <2>1. \A y \in U : F[U] = f[y] + F[U \ {y}]
    BY <1>1, <1>2, <1>3, SumAnyFirst
  <2>2. QED
    BY <1>1, <2>1
<1>9. QED
  BY <1>1, <1>4, <1>5, <1>6, <1>7, <1>8 DEF U

\* The sum over two disjoint sets.
LEMMA SumUnion ==
  ASSUME NEW S, IsFiniteSet(S), NEW R, IsFiniteSet(R), S \cap R = {},
         NEW f, \A x \in S \union R : f[x] \in Int
  PROVE  SumFunctionOnSet(f, S \union R) = SumFunctionOnSet(f, S) + SumFunctionOnSet(f, R)
<1> DEFINE C == {T \in SUBSET R : SumFunctionOnSet(f, S \union T)
                                    = SumFunctionOnSet(f, S) + SumFunctionOnSet(f, T)}
<1>1. SumFunctionOnSet(f, S) \in Int
  BY SumType
<1>2. {} \in C
  <2>1. S \union {} = S
    OBVIOUS
  <2>2. QED
    BY <1>1, <2>1, SumEmpty
<1>3. ASSUME NEW T \in SUBSET R, NEW x \in R \ T, T \in C PROVE T \union {x} \in C
  <2>1. /\ IsFiniteSet(T) /\ IsFiniteSet(S \union T)
        /\ x \notin T /\ x \notin S \union T
        /\ \A y \in T \union {x} : f[y] \in Int
        /\ \A y \in (S \union T) \union {x} : f[y] \in Int
        /\ S \union (T \union {x}) = (S \union T) \union {x}
    BY FS_Subset, FS_Union
  <2>2. SumFunctionOnSet(f, (S \union T) \union {x}) = f[x] + SumFunctionOnSet(f, S \union T)
    BY <2>1, SumAdd
  <2>3. SumFunctionOnSet(f, T \union {x}) = f[x] + SumFunctionOnSet(f, T)
    BY <2>1, SumAdd
  <2>4. SumFunctionOnSet(f, T) \in Int /\ f[x] \in Int
    BY <2>1, SumType
  <2>5. SumFunctionOnSet(f, S \union T) = SumFunctionOnSet(f, S) + SumFunctionOnSet(f, T)
    BY <1>3
  <2>6. SumFunctionOnSet(f, S \union (T \union {x}))
          = f[x] + (SumFunctionOnSet(f, S) + SumFunctionOnSet(f, T))
    BY <2>1, <2>2, <2>5
  <2>7. SumFunctionOnSet(f, S) + SumFunctionOnSet(f, T \union {x})
          = f[x] + (SumFunctionOnSet(f, S) + SumFunctionOnSet(f, T))
    BY <1>1, <2>3, <2>4
  <2>8. QED
    BY <2>6, <2>7
<1> HIDE DEF C
<1>4. R \in C
  BY <1>2, <1>3, FiniteInduction
<1>5. QED
  BY <1>4 DEF C

\* Sums grow with the values and, when these are not negative, with the set.
LEMMA SumMonotone ==
  ASSUME NEW S, IsFiniteSet(S), NEW R \in SUBSET S, NEW f, NEW g,
         \A x \in R : f[x] \in Nat, \A x \in S : g[x] \in Nat, \A x \in R : f[x] <= g[x]
  PROVE  /\ SumFunctionOnSet(f, R) \in Nat /\ SumFunctionOnSet(g, S) \in Nat
         /\ SumFunctionOnSet(f, R) <= SumFunctionOnSet(g, S)
<1> DEFINE C == {T \in SUBSET S :
                   /\ SumFunctionOnSet(f, T \cap R) \in Nat /\ SumFunctionOnSet(g, T) \in Nat
                   /\ SumFunctionOnSet(f, T \cap R) <= SumFunctionOnSet(g, T)}
<1>1. {} \in C
  <2>1. {} \cap R = {}
    OBVIOUS
  <2>2. QED
    BY <2>1, SumEmpty
<1>2. ASSUME NEW T \in SUBSET S, NEW x \in S \ T, T \in C PROVE T \union {x} \in C
  <2>1. /\ IsFiniteSet(T) /\ IsFiniteSet(T \cap R) /\ x \notin T /\ x \notin T \cap R
        /\ \A y \in T \union {x} : g[y] \in Int
        /\ \A y \in T \cap R : f[y] \in Int
    BY FS_Subset
  <2>2. SumFunctionOnSet(g, T \union {x}) = g[x] + SumFunctionOnSet(g, T)
    BY <2>1, SumAdd
  <2>3. CASE x \in R
    <3>1. (T \union {x}) \cap R = (T \cap R) \union {x} /\ \A y \in (T \cap R) \union {x} : f[y] \in Int
      BY <2>1, <2>3
    <3>2. SumFunctionOnSet(f, (T \cap R) \union {x}) = f[x] + SumFunctionOnSet(f, T \cap R)
      BY <2>1, <3>1, SumAdd
    <3>3. f[x] \in Nat /\ g[x] \in Nat /\ f[x] <= g[x]
      BY <2>3
    <3>4. QED
      BY <1>2, <2>2, <3>1, <3>2, <3>3
  <2>4. CASE x \notin R
    <3>1. (T \union {x}) \cap R = T \cap R /\ g[x] \in Nat
      BY <2>4
    <3>2. SumFunctionOnSet(g, T) \in Nat /\ SumFunctionOnSet(f, T \cap R) \in Nat
          /\ SumFunctionOnSet(f, T \cap R) <= SumFunctionOnSet(g, T)
      BY <1>2
    <3>3. SumFunctionOnSet(g, T \union {x}) \in Nat
          /\ SumFunctionOnSet(f, T \cap R) <= SumFunctionOnSet(g, T \union {x})
      BY <2>2, <3>1, <3>2
    <3>4. QED
      BY <3>1, <3>2, <3>3
  <2>5. QED
    BY <2>3, <2>4
<1> HIDE DEF C
<1>3. S \in C
  BY <1>1, <1>2, FiniteInduction
<1>4. S \cap R = R
  OBVIOUS
<1>5. QED
  BY <1>3, <1>4 DEF C

\* The parts of the elements of G, and that they are disjoint parts of S.
AllParts(part, G) == UNION {part[g] : g \in G}
Disjoint(part, G, S) ==
  /\ \A g \in G : part[g] \subseteq S
  /\ \A g, h \in G : g # h => part[g] \cap part[h] = {}

\* What is summed part by part is summed.
THEOREM SumOfParts ==
  ASSUME NEW G, IsFiniteSet(G), NEW part, NEW S, IsFiniteSet(S), Disjoint(part, G, S),
         NEW f, \A x \in S : f[x] \in Int,
         NEW v, \A g \in G : v[g] = SumFunctionOnSet(f, part[g])
  PROVE  SumFunctionOnSet(v, G) = SumFunctionOnSet(f, AllParts(part, G))
<1> DEFINE All(T) == AllParts(part, T)
           C == {T \in SUBSET G : SumFunctionOnSet(v, T) = SumFunctionOnSet(f, All(T))}
<1>1. {} \in C
  <2>1. All({}) = {}
    BY DEF AllParts
  <2> HIDE DEF All
  <2>2. QED
    BY <2>1, SumEmpty
<1>2. ASSUME NEW T \in SUBSET G, NEW x \in G \ T, T \in C PROVE T \union {x} \in C
  <2>1. /\ All(T \union {x}) = All(T) \union part[x]
        /\ All(T) \cap part[x] = {}
        /\ All(T) \subseteq S
        /\ part[x] \subseteq S
    BY DEF AllParts, Disjoint
  <2> HIDE DEF All
  <2>2. /\ IsFiniteSet(T) /\ IsFiniteSet(All(T)) /\ IsFiniteSet(part[x])
        /\ \A y \in All(T) \union part[x] : f[y] \in Int
    BY <2>1, FS_Subset
  <2>3. SumFunctionOnSet(f, All(T) \union part[x])
          = SumFunctionOnSet(f, All(T)) + SumFunctionOnSet(f, part[x])
    BY <2>1, <2>2, SumUnion
  <2>4. \A g \in G : v[g] \in Int
    <3> TAKE g \in G
    <3>1. IsFiniteSet(part[g]) /\ \A y \in part[g] : f[y] \in Int
      BY FS_Subset DEF Disjoint
    <3>2. SumFunctionOnSet(f, part[g]) \in Int
      BY <3>1, SumType
    <3>3. QED
      BY <3>2
  <2>5. SumFunctionOnSet(v, T \union {x}) = v[x] + SumFunctionOnSet(v, T)
    BY <2>2, <2>4, SumAdd
  <2>6. SumFunctionOnSet(v, T) \in Int /\ v[x] \in Int
    BY <2>2, <2>4, SumType
  <2>7. SumFunctionOnSet(v, T) = SumFunctionOnSet(f, All(T)) /\ v[x] = SumFunctionOnSet(f, part[x])
    BY <1>2
  <2>8. SumFunctionOnSet(f, All(T \union {x}))
          = SumFunctionOnSet(v, T) + v[x]
    BY <2>1, <2>3, <2>7
  <2>9. SumFunctionOnSet(v, T \union {x}) = SumFunctionOnSet(v, T) + v[x]
    BY <2>5, <2>6
  <2>10. QED
    BY <2>8, <2>9
<1> HIDE DEF C
<1>3. G \in C
  BY <1>1, <1>2, FiniteInduction
<1>4. QED
  BY <1>3 DEF C
=============================================================================
