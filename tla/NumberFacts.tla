----------------------------- MODULE NumberFacts -----------------------------
(***************************************************************************)
(* Facts about numbers and finite sets that the proofs of several          *)
(* components need.  A statement about all numbers is proved with Least:   *)
(* among the numbers it is false for, if any, there is a least one.        *)
(***************************************************************************)
EXTENDS Integers, FiniteSetsExt, FiniteSetTheorems, WellFoundedInduction, TLAPS

\* A nonempty set of numbers has a least element.
LEMMA Least ==
  ASSUME NEW S \in SUBSET Nat, S # {}
  PROVE  \E x \in S : \A y \in S : x <= y
<1>1. PICK x \in S : \A y \in S : ~(<<y, x>> \in OpToRel(<, Nat))
  BY NatLessThanWellFounded, WFMin, Zenon
<1>2. ASSUME NEW y \in S PROVE x <= y
  <2>1. <<y, x>> \notin OpToRel(<, Nat)
    BY <1>1
  <2>2. ~(y < x)
    BY <2>1 DEF OpToRel
  <2> QED
    BY <2>2
<1> QED
  BY <1>2

\* One that is bounded has a greatest.
LEMMA Greatest ==
  ASSUME NEW n \in Nat, NEW S \in SUBSET (1..n), S # {}
  PROVE  \E x \in S : \A y \in S : x >= y
<1> DEFINE Mirror == {m \in 0..n : n - m \in S}
<1>1. Mirror \in SUBSET Nat /\ Mirror # {}
  <2>1. PICK y \in S : y \in 1..n
    OBVIOUS
  <2>2. n - y \in 0..n /\ n - (n - y) = y
    BY <2>1
  <2>3. n - y \in Mirror
    BY <2>1, <2>2
  <2>4. \A m \in Mirror : m \in Nat
    OBVIOUS
  <2> HIDE DEF Mirror
  <2> QED
    BY <2>3, <2>4
<1>2. PICK m \in Mirror : \A k \in Mirror : m <= k
  BY <1>1, Least
<1>3. ASSUME NEW y \in S PROVE n - m >= y
  <2>1. n - y \in 0..n /\ n - (n - y) = y
    OBVIOUS
  <2>2. m <= n - y
    BY <1>2, <2>1
  <2> QED
    BY <2>2
<1> QED
  BY <1>2, <1>3

LEMMA Bounds ==
  ASSUME NEW n \in Nat, NEW S \in SUBSET (1..n), S # {}
  PROVE  /\ Min(S) \in S /\ \A y \in S : Min(S) <= y
         /\ Max(S) \in S /\ \A y \in S : Max(S) >= y
<1>1. S \in SUBSET Nat
  OBVIOUS
<1>2. \E x \in S : \A y \in S : x <= y
  BY <1>1, Least
<1>3. \E x \in S : \A y \in S : x >= y
  BY Greatest
<1> QED
  BY <1>2, <1>3 DEF Min, Max

\* Numbers that enclose a set from within are its Max and its Min.
LEMMA Extremes ==
  ASSUME NEW S \in SUBSET Int, NEW m \in S
  PROVE  /\ (\A i \in S : m >= i) => Max(S) = m
         /\ (\A i \in S : m <= i) => Min(S) = m
<1>1. ASSUME \A i \in S : m >= i PROVE Max(S) = m
  <2>1. Max(S) \in S /\ \A i \in S : Max(S) >= i
    BY <1>1, Zenon DEF Max
  <2>2. Max(S) >= m /\ m >= Max(S) /\ m \in Int /\ Max(S) \in Int
    BY <1>1, <2>1, Zenon
  <2> QED
    BY <2>2
<1>2. ASSUME \A i \in S : m <= i PROVE Min(S) = m
  <2>1. Min(S) \in S /\ \A i \in S : Min(S) <= i
    BY <1>2, Zenon DEF Min
  <2>2. Min(S) <= m /\ m <= Min(S) /\ m \in Int /\ Min(S) \in Int
    BY <1>2, <2>1, Zenon
  <2> QED
    BY <2>2
<1> QED
  BY <1>1, <1>2

-----------------------------------------------------------------------------
(* Sums: SumFunctionOnSet(f, S) adds the values of f at the elements of S, *)
(* in the order in which CHOOSE takes them.                                *)

\* What holds for a set as soon as it holds for those with one element less, holds for
\* every subset of a finite set.
LEMMA Shrinking ==
  ASSUME NEW S, IsFiniteSet(S), NEW P,
         \A T \in SUBSET S : (\A x \in T : T \ {x} \in P) => T \in P
  PROVE  \A T \in SUBSET S : T \in P
<1> DEFINE Bad == {n \in Nat : \E T \in SUBSET S : T \notin P /\ Cardinality(T) = n}
<1>1. ASSUME NEW T \in SUBSET S PROVE IsFiniteSet(T) /\ Cardinality(T) \in Nat
  BY FS_Subset, FS_CardinalityType
<1> SUFFICES ASSUME NEW U \in SUBSET S, U \notin P PROVE FALSE
  OBVIOUS
<1>2. Bad \in SUBSET Nat /\ Bad # {}
  BY <1>1
<1>3. PICK n \in Bad : \A m \in Bad : n <= m
  BY <1>2, Least
<1>4. PICK T \in SUBSET S : T \notin P /\ Cardinality(T) = n
  OBVIOUS
<1>5. PICK x \in T : T \ {x} \notin P
  BY <1>4
<1>6. Cardinality(T \ {x}) = n - 1 /\ n - 1 \in Nat
  <2>1. IsFiniteSet(T) /\ Cardinality(T) \in Nat /\ Cardinality(T \ {x}) \in Nat
    BY <1>1
  <2>2. Cardinality(T \ {x}) = Cardinality(T) - 1
    BY <1>5, <2>1, FS_RemoveElement
  <2> QED
    BY <1>4, <2>1, <2>2
<1>7. n - 1 \in Bad
  BY <1>5, <1>6
<1> QED
  BY <1>3, <1>6, <1>7

\* How the sum is computed.
Taken(s) == CHOOSE x \in s : TRUE
SumOf(g, f, s) == IF s = {} THEN 0 ELSE f[Taken(s)] + g[s \ {Taken(s)}]
Sums(g, f, S) == g = [s \in SUBSET S |-> SumOf(g, f, s)]

LEMMA SumDefined ==
  ASSUME NEW S, NEW f
  PROVE  SumFunctionOnSet(f, S) = (CHOOSE g : Sums(g, f, S))[S]
BY DEF SumFunctionOnSet, FoldFunctionOnSet, MapThenFoldSet, Sums, SumOf, Taken

LEMMA SumsExist ==
  ASSUME NEW S, IsFiniteSet(S), NEW f
  PROVE  \E g : Sums(g, f, S)
<1> DEFINE Layer(n) == {s \in SUBSET S : Cardinality(s) <= n}
           Built(n) == \E g : g = [s \in Layer(n) |-> SumOf(g, f, s)]
           Bad == {n \in Nat : ~Built(n)}
<1>1. ASSUME NEW s \in SUBSET S
      PROVE  /\ IsFiniteSet(s) /\ Cardinality(s) \in Nat /\ Cardinality(s) <= Cardinality(S)
             /\ Cardinality(s) = 0 <=> s = {}
             /\ s # {} => /\ Taken(s) \in s /\ s \ {Taken(s)} \in SUBSET S
                          /\ Cardinality(s \ {Taken(s)}) = Cardinality(s) - 1
  <2>1. IsFiniteSet(s) /\ Cardinality(s) \in Nat /\ Cardinality(s) <= Cardinality(S)
    BY FS_Subset, FS_CardinalityType
  <2>2. Cardinality(s) = 0 <=> s = {}
    BY <2>1, FS_EmptySet
  <2>3. s # {} => Taken(s) \in s
    BY DEF Taken
  <2>4. s # {} => Cardinality(s \ {Taken(s)}) = Cardinality(s) - 1
    BY <2>1, <2>3, FS_RemoveElement
  <2> QED
    BY <2>1, <2>2, <2>3, <2>4
<1>2. Built(0)
  <2> DEFINE g == [s \in Layer(0) |-> 0]
  <2>1. ASSUME NEW s \in Layer(0) PROVE s = {}
    <3>1. s \in SUBSET S /\ Cardinality(s) <= 0
      OBVIOUS
    <3>2. Cardinality(s) \in Nat /\ (Cardinality(s) = 0 => s = {})
      BY <1>1, <3>1
    <3> QED
      BY <3>1, <3>2
  <2>2. \A s \in Layer(0) : SumOf(g, f, s) = 0
    BY <2>1 DEF SumOf
  <2> HIDE DEF Layer
  <2>3. g = [s \in Layer(0) |-> SumOf(g, f, s)]
    BY <2>2
  <2> QED
    BY <2>3
<1>3. ASSUME NEW n \in Nat, Built(n) PROVE Built(n + 1)
  <2>1. PICK g : g = [s \in Layer(n) |-> SumOf(g, f, s)]
    BY <1>3
  <2> DEFINE h == [s \in Layer(n + 1) |-> SumOf(g, f, s)]
  <2>2. ASSUME NEW s \in Layer(n) PROVE s \in Layer(n + 1)
    <3>1. s \in SUBSET S /\ Cardinality(s) <= n /\ Cardinality(s) \in Nat
      BY <1>1
    <3> QED
      BY <3>1
  <2>3. \A s \in Layer(n + 1) : s # {} => s \ {Taken(s)} \in Layer(n)
    BY <1>1
  <2> HIDE DEF Layer
  <2>4. \A s \in Layer(n) : h[s] = g[s]
    BY <2>1, <2>2
  <2>5. \A s \in Layer(n + 1) : SumOf(g, f, s) = SumOf(h, f, s)
    <3> HIDE DEF h
    <3> QED
      BY <2>3, <2>4 DEF SumOf
  <2>6. h = [s \in Layer(n + 1) |-> SumOf(h, f, s)]
    <3>1. h = [s \in Layer(n + 1) |-> SumOf(g, f, s)]
      OBVIOUS
    <3> HIDE DEF h
    <3> QED
      BY <2>5, <3>1
  <2> QED
    BY <2>6
<1>4. Bad = {}
  <2> SUFFICES ASSUME Bad # {} PROVE FALSE
    OBVIOUS
  <2>1. Bad \in SUBSET Nat
    OBVIOUS
  <2>2. PICK n \in Bad : \A m \in Bad : n <= m
    BY <2>1, Least
  <2> HIDE DEF Built
  <2>3. n \in Nat /\ n # 0 /\ n - 1 \in Nat /\ n - 1 \notin Bad
    BY <1>2, <2>2
  <2>4. Built((n - 1) + 1)
    BY <1>3, <2>3
  <2> QED
    BY <2>2, <2>3, <2>4
<1>5. Layer(Cardinality(S)) = SUBSET S /\ Cardinality(S) \in Nat
  BY <1>1
<1>6. Built(Cardinality(S))
  <2> HIDE DEF Built
  <2> QED
    BY <1>4, <1>5
<1> HIDE DEF Layer
<1> QED
  BY <1>5, <1>6 DEF Sums

\* The result is a number, and any element may be taken first.
LEMMA SumsAnyOrder ==
  ASSUME NEW S, IsFiniteSet(S), NEW f, \A x \in S : f[x] \in Int, NEW g, Sums(g, f, S)
  PROVE  \A T \in SUBSET S : g[T] \in Int /\ \A y \in T : g[T] = f[y] + g[T \ {y}]
<1> DEFINE N == {T \in SUBSET S : g[T] \in Int}
           P == {T \in SUBSET S : \A y \in T : g[T] = f[y] + g[T \ {y}]}
<1>1. \A T \in SUBSET S : g[T] = SumOf(g, f, T)
  BY DEF Sums
<1>2. ASSUME NEW T \in SUBSET S, T # {}
      PROVE  /\ Taken(T) \in T /\ f[Taken(T)] \in Int
             /\ g[T] = f[Taken(T)] + g[T \ {Taken(T)}]
  BY <1>1, <1>2 DEF SumOf, Taken
<1>3. \A T \in SUBSET S : g[T] \in Int
  <2>1. ASSUME NEW T \in SUBSET S, \A x \in T : T \ {x} \in N PROVE T \in N
    <3>1. CASE T = {}
      <4>1. g[T] = 0
        BY <1>1, <3>1 DEF SumOf
      <4> QED
        BY <4>1
    <3>2. CASE T # {}
      <4> DEFINE x == Taken(T)
      <4>1. x \in T /\ f[x] \in Int /\ g[T] = f[x] + g[T \ {x}]
        BY <1>2, <3>2
      <4> HIDE DEF x
      <4>2. T \ {x} \in N
        BY <2>1, <4>1
      <4>3. g[T \ {x}] \in Int
        BY <4>2
      <4>4. g[T] \in Int
        BY <4>1, <4>3
      <4> QED
        BY <4>4
    <3> QED
      BY <3>1, <3>2
  <2> HIDE DEF N
  <2>2. \A T \in SUBSET S : T \in N
    BY <2>1, Shrinking
  <2> QED
    BY <2>2 DEF N
<1>4. ASSUME NEW T \in SUBSET S, \A x \in T : T \ {x} \in P PROVE T \in P
  <2> SUFFICES ASSUME NEW y \in T PROVE g[T] = f[y] + g[T \ {y}]
    OBVIOUS
  <2> DEFINE x == Taken(T)
  <2>1. x \in T /\ f[x] \in Int /\ g[T] = f[x] + g[T \ {x}]
    BY <1>2
  <2> HIDE DEF x
  <2>2. CASE y # x
    <3>1. /\ T \ {x} \in P /\ T \ {y} \in P /\ y \in T \ {x} /\ x \in T \ {y} /\ f[y] \in Int
      BY <1>4, <2>1, <2>2
    <3>2. g[T \ {x}] = f[y] + g[(T \ {x}) \ {y}] /\ g[T \ {y}] = f[x] + g[(T \ {y}) \ {x}]
      BY <3>1
    <3>3. (T \ {x}) \ {y} = (T \ {y}) \ {x} /\ (T \ {y}) \ {x} \in SUBSET S
      OBVIOUS
    <3>4. g[(T \ {y}) \ {x}] \in Int
      BY <1>3, <3>3
    <3> DEFINE a == f[x]
               b == f[y]
               rest == g[(T \ {y}) \ {x}]
               withoutX == g[T \ {x}]
               withoutY == g[T \ {y}]
    <3>5. withoutX = b + rest
      BY <3>2, <3>3
    <3>6. withoutY = a + rest
      BY <3>2
    <3>7. g[T] = a + withoutX
      BY <2>1
    <3>8. a \in Int /\ b \in Int /\ rest \in Int
      BY <2>1, <3>1, <3>4
    <3>9. g[T] = b + withoutY
      <4> HIDE DEF a, b, rest, withoutX, withoutY
      <4> QED
        BY <3>5, <3>6, <3>7, <3>8
    <3> QED
      BY <3>9
  <2> QED
    BY <2>1, <2>2
<1>5. \A T \in SUBSET S : T \in P
  <2> HIDE DEF P
  <2> QED
    BY <1>4, Shrinking
<1> QED
  BY <1>3, <1>5

\* The sum over a part of the set is computed alike, and depends on the values alone.
LEMMA SumsAlike ==
  ASSUME NEW S, NEW f, NEW g, Sums(g, f, S),
         NEW U \in SUBSET S, IsFiniteSet(U), NEW d, NEW h, Sums(h, d, U), \A x \in U : f[x] = d[x]
  PROVE  \A T \in SUBSET U : g[T] = h[T]
<1> DEFINE P == {T \in SUBSET U : g[T] = h[T]}
<1>1. \A T \in SUBSET U : g[T] = SumOf(g, f, T) /\ h[T] = SumOf(h, d, T)
  BY DEF Sums
<1>2. ASSUME NEW T \in SUBSET U, \A x \in T : T \ {x} \in P PROVE T \in P
  <2>1. CASE T = {}
    BY <1>1, <2>1 DEF SumOf
  <2>2. CASE T # {}
    <3>1. Taken(T) \in T
      BY <2>2 DEF Taken
    <3> QED
      BY <1>1, <1>2, <2>2, <3>1 DEF SumOf
  <2> QED
    BY <2>1, <2>2
<1> HIDE DEF P
<1>3. \A T \in SUBSET U : T \in P
  BY <1>2, Shrinking
<1> QED
  BY <1>3 DEF P

\* What a sum is, element by element.
LEMMA SumFacts ==
  ASSUME NEW S, IsFiniteSet(S), NEW f, \A x \in S : f[x] \in Int
  PROVE  /\ SumFunctionOnSet(f, {}) = 0
         /\ SumFunctionOnSet(f, S) \in Int
         /\ \A y \in S : SumFunctionOnSet(f, S) = f[y] + SumFunctionOnSet(f, S \ {y})
<1>1. ASSUME NEW U, IsFiniteSet(U)
      PROVE  \E g : Sums(g, f, U) /\ SumFunctionOnSet(f, U) = g[U]
  <2>1. \E g : Sums(g, f, U)
    BY <1>1, SumsExist
  <2>2. Sums(CHOOSE g : Sums(g, f, U), f, U)
    BY <2>1, Zenon
  <2> QED
    BY <2>2, SumDefined
<1>2. PICK g : Sums(g, f, S) /\ SumFunctionOnSet(f, S) = g[S]
  BY <1>1
<1>3. SumFunctionOnSet(f, {}) = 0
  <2>1. PICK h : Sums(h, f, {}) /\ SumFunctionOnSet(f, {}) = h[{}]
    BY <1>1, FS_EmptySet
  <2>2. h[{}] = SumOf(h, f, {})
    BY <2>1 DEF Sums
  <2> QED
    BY <2>1, <2>2 DEF SumOf
<1>4. S \in SUBSET S
  OBVIOUS
<1>5. g[S] \in Int /\ \A y \in S : g[S] = f[y] + g[S \ {y}]
  BY <1>2, <1>4, SumsAnyOrder
<1>6. ASSUME NEW y \in S PROVE g[S \ {y}] = SumFunctionOnSet(f, S \ {y})
  <2> DEFINE U == S \ {y}
  <2>1. U \in SUBSET S /\ U \in SUBSET U /\ IsFiniteSet(U)
    BY FS_Subset
  <2> HIDE DEF U
  <2>2. PICK h : Sums(h, f, U) /\ SumFunctionOnSet(f, U) = h[U]
    BY <1>1, <2>1
  <2>3. g[U] = h[U]
    BY <1>2, <2>1, <2>2, SumsAlike
  <2> QED
    BY <2>2, <2>3 DEF U
<1> QED
  BY <1>2, <1>3, <1>5, <1>6

LEMMA SumSame ==
  ASSUME NEW S, IsFiniteSet(S), NEW f, NEW d, \A x \in S : f[x] = d[x]
  PROVE  SumFunctionOnSet(f, S) = SumFunctionOnSet(d, S)
<1>1. ASSUME NEW e PROVE \E g : Sums(g, e, S) /\ SumFunctionOnSet(e, S) = g[S]
  <2>1. \E g : Sums(g, e, S)
    BY SumsExist
  <2>2. Sums(CHOOSE g : Sums(g, e, S), e, S)
    BY <2>1, Zenon
  <2> QED
    BY <2>2, SumDefined
<1>2. PICK g : Sums(g, f, S) /\ SumFunctionOnSet(f, S) = g[S]
  BY <1>1
<1>3. PICK h : Sums(h, d, S) /\ SumFunctionOnSet(d, S) = h[S]
  BY <1>1
<1>4. S \in SUBSET S
  OBVIOUS
<1>5. g[S] = h[S]
  BY <1>2, <1>3, <1>4, SumsAlike
<1> QED
  BY <1>2, <1>3, <1>5

\* The sum of a set is that of two parts.
LEMMA SumUnion ==
  ASSUME NEW S, IsFiniteSet(S), NEW T, IsFiniteSet(T), S \cap T = {},
         NEW f, \A x \in S \cup T : f[x] \in Int
  PROVE  SumFunctionOnSet(f, S \cup T) = SumFunctionOnSet(f, S) + SumFunctionOnSet(f, T)
<1> DEFINE Sum(U) == SumFunctionOnSet(f, U)
           P == {U \in SUBSET T : Sum(S \cup U) = Sum(S) + Sum(U)}
<1>1. ASSUME NEW U, IsFiniteSet(U), U \subseteq S \cup T
      PROVE  /\ Sum({}) = 0 /\ Sum(U) \in Int
             /\ \A y \in U : Sum(U) = f[y] + Sum(U \ {y})
  BY <1>1, SumFacts
<1>2. \A U \in SUBSET T : IsFiniteSet(U) /\ IsFiniteSet(S \cup U)
  BY FS_Subset, FS_Union
<1> HIDE DEF Sum
<1>3. ASSUME NEW U \in SUBSET T, \A x \in U : U \ {x} \in P
      PROVE  U \in P
  <2>1. CASE U = {}
    <3>1. S \cup U = S /\ Sum(S) \in Int /\ Sum(U) = 0
      BY <1>1, <2>1
    <3>2. Sum(S \cup U) = Sum(S) + Sum(U)
      BY <3>1
    <3> QED
      BY <3>2
  <2>2. CASE U # {}
    <3>1. PICK x \in U : TRUE
      BY <2>2
    <3>2. Sum(S \cup (U \ {x})) = Sum(S) + Sum(U \ {x})
      BY <1>3, <3>1
    <3>3. (S \cup U) \ {x} = S \cup (U \ {x})
      BY <3>1
    <3>4. Sum(S \cup U) = f[x] + Sum(S \cup (U \ {x}))
      BY <1>1, <1>2, <3>3
    <3>5. Sum(U) = f[x] + Sum(U \ {x})
      BY <1>1, <1>2
    <3>6. Sum(S) \in Int /\ Sum(U \ {x}) \in Int /\ f[x] \in Int
      BY <1>1, <1>2
    <3>7. Sum(S \cup U) = Sum(S) + Sum(U)
      BY <3>2, <3>4, <3>5, <3>6
    <3> QED
      BY <3>7
  <2> QED
    BY <2>1, <2>2
<1> HIDE DEF P
<1>4. \A U \in SUBSET T : U \in P
  BY <1>3, Shrinking
<1>5. T \in P
  BY <1>4
<1> QED
  BY <1>5 DEF P, Sum

\* The sums of the classes of a set add up to its sum.
LEMMA SumSplit ==
  ASSUME NEW S, IsFiniteSet(S), NEW K, IsFiniteSet(K), NEW f, \A x \in S : f[x] \in Int,
         NEW class, \A x \in S : class[x] \in K
  PROVE  SumFunctionOnSet([c \in K |-> SumFunctionOnSet(f, {x \in S : class[x] = c})], K)
           = SumFunctionOnSet(f, S)
<1> DEFINE Sum(U) == SumFunctionOnSet(f, U)
           Of(U) == {x \in S : class[x] \in U}
           g == [c \in K |-> Sum({x \in S : class[x] = c})]
           Sums_(U) == SumFunctionOnSet(g, U)
           P == {U \in SUBSET K : Sums_(U) = Sum(Of(U))}
<1>1. ASSUME NEW U \in SUBSET S PROVE IsFiniteSet(U) /\ Sum({}) = 0 /\ Sum(U) \in Int
  <2>1. IsFiniteSet(U) /\ \A x \in U : f[x] \in Int
    BY FS_Subset
  <2> QED
    BY <2>1, SumFacts
<1>2. \A c \in K : g[c] \in Int
  BY <1>1
<1>3. ASSUME NEW U \in SUBSET K
      PROVE  /\ Sums_({}) = 0 /\ Sums_(U) \in Int
             /\ \A c \in U : Sums_(U) = g[c] + Sums_(U \ {c})
  <2>1. IsFiniteSet(U) /\ \A c \in U : g[c] \in Int
    BY <1>2, FS_Subset
  <2> HIDE DEF g
  <2> QED
    BY <2>1, SumFacts
<1>4. ASSUME NEW U \in SUBSET K, NEW c \in U
      PROVE  Sum(Of(U)) = g[c] + Sum(Of(U \ {c}))
  <2> DEFINE A == {x \in S : class[x] = c}
             B == Of(U \ {c})
  <2>1. Of(U) = A \cup B /\ A \cap B = {} /\ A \in SUBSET S /\ B \in SUBSET S
    OBVIOUS
  <2>2. IsFiniteSet(A) /\ IsFiniteSet(B) /\ \A x \in A \cup B : f[x] \in Int
    BY <1>1, <2>1
  <2>3. g[c] = Sum(A)
    OBVIOUS
  <2> HIDE DEF A, B, g
  <2>4. SumFunctionOnSet(f, A \cup B) = SumFunctionOnSet(f, A) + SumFunctionOnSet(f, B)
    BY <2>1, <2>2, SumUnion
  <2> QED
    BY <2>1, <2>3, <2>4 DEF B
<1>5. Of({}) = {} /\ Of(K) = S /\ \A U \in SUBSET K : Of(U) \in SUBSET S
  OBVIOUS
<1> HIDE DEF Sum, Sums_, Of, g
<1>6. ASSUME NEW U \in SUBSET K, \A c \in U : U \ {c} \in P
      PROVE  U \in P
  <2>1. CASE U = {}
    BY <1>1, <1>3, <1>5, <2>1
  <2>2. CASE U # {}
    <3>1. PICK c \in U : TRUE
      BY <2>2
    <3>2. Sums_(U \ {c}) = Sum(Of(U \ {c}))
      BY <1>6, <3>1
    <3>3. Sums_(U) = g[c] + Sums_(U \ {c}) /\ Sum(Of(U)) = g[c] + Sum(Of(U \ {c}))
      BY <1>3, <1>4
    <3>4. Sums_(U) = Sum(Of(U))
      BY <3>2, <3>3
    <3> QED
      BY <3>4
  <2> QED
    BY <2>1, <2>2
<1> HIDE DEF P
<1>7. \A U \in SUBSET K : U \in P
  BY <1>6, Shrinking
<1>8. K \in P
  BY <1>7
<1>9. Sums_(K) = Sum(S)
  BY <1>5, <1>8 DEF P
<1> QED
  BY <1>9 DEF Sums_, Sum, g

LEMMA SumNegated ==
  ASSUME NEW S, IsFiniteSet(S), NEW f, \A x \in S : f[x] \in Int,
         NEW d, \A x \in S : d[x] = -f[x]
  PROVE  SumFunctionOnSet(d, S) = -SumFunctionOnSet(f, S)
<1> DEFINE Sum(U) == SumFunctionOnSet(f, U)
           Minus(U) == SumFunctionOnSet(d, U)
           P == {U \in SUBSET S : Minus(U) = -Sum(U)}
<1>1. ASSUME NEW U \in SUBSET S
      PROVE  /\ Sum({}) = 0 /\ Sum(U) \in Int /\ Minus({}) = 0 /\ Minus(U) \in Int
             /\ \A y \in U : Sum(U) = f[y] + Sum(U \ {y}) /\ Minus(U) = d[y] + Minus(U \ {y})
  <2>1. IsFiniteSet(U) /\ \A x \in U : f[x] \in Int /\ d[x] \in Int
    BY FS_Subset
  <2> QED
    BY <2>1, SumFacts
<1> HIDE DEF Sum, Minus
<1>2. ASSUME NEW U \in SUBSET S, \A x \in U : U \ {x} \in P
      PROVE  U \in P
  <2>1. CASE U = {}
    BY <1>1, <2>1
  <2>2. CASE U # {}
    <3>1. PICK x \in U : TRUE
      BY <2>2
    <3>2. Minus(U \ {x}) = -Sum(U \ {x})
      BY <1>2, <3>1
    <3>3. Sum(U) = f[x] + Sum(U \ {x}) /\ Minus(U) = d[x] + Minus(U \ {x})
      BY <1>1
    <3>4. f[x] \in Int /\ d[x] = -f[x] /\ Sum(U \ {x}) \in Int
      BY <1>1
    <3>5. Minus(U) = -Sum(U)
      BY <3>2, <3>3, <3>4
    <3> QED
      BY <3>5
  <2> QED
    BY <2>1, <2>2
<1> HIDE DEF P
<1>3. \A U \in SUBSET S : U \in P
  BY <1>2, Shrinking
<1>4. S \in P
  BY <1>3
<1> QED
  BY <1>4 DEF P, Sum, Minus

\* Sums of natural numbers grow with the set.
LEMMA SumNat ==
  ASSUME NEW S, IsFiniteSet(S), NEW f, \A x \in S : f[x] \in Nat
  PROVE  \A U \in SUBSET S :
           /\ SumFunctionOnSet(f, U) \in Nat
           /\ SumFunctionOnSet(f, U) <= SumFunctionOnSet(f, S)
<1> DEFINE Sum(U) == SumFunctionOnSet(f, U)
           P == {U \in SUBSET S : Sum(U) \in Nat}
<1>1. ASSUME NEW U \in SUBSET S
      PROVE  /\ IsFiniteSet(U) /\ Sum({}) = 0
             /\ \A y \in U : Sum(U) = f[y] + Sum(U \ {y})
  <2>1. IsFiniteSet(U) /\ \A x \in U : f[x] \in Int
    BY FS_Subset
  <2> QED
    BY <2>1, SumFacts
<1>2. ASSUME NEW U \in SUBSET S, NEW V \in SUBSET S, U \cap V = {}
      PROVE  Sum(U \cup V) = Sum(U) + Sum(V)
  <2>1. IsFiniteSet(U) /\ IsFiniteSet(V) /\ \A x \in U \cup V : f[x] \in Int
    BY <1>1
  <2> QED
    BY <1>2, <2>1, SumUnion
<1> HIDE DEF Sum
<1>3. ASSUME NEW U \in SUBSET S, \A x \in U : U \ {x} \in P
      PROVE  U \in P
  <2>1. CASE U = {}
    BY <1>1, <2>1
  <2>2. CASE U # {}
    <3>1. PICK x \in U : TRUE
      BY <2>2
    <3>2. Sum(U \ {x}) \in Nat /\ f[x] \in Nat /\ Sum(U) = f[x] + Sum(U \ {x})
      BY <1>1, <1>3
    <3>3. Sum(U) \in Nat
      BY <3>2
    <3> QED
      BY <3>3
  <2> QED
    BY <2>1, <2>2
<1> HIDE DEF P
<1>4. \A U \in SUBSET S : U \in P
  BY <1>3, Shrinking
<1>5. ASSUME NEW U \in SUBSET S PROVE Sum(U) \in Nat /\ Sum(U) <= Sum(S)
  <2>1. U \cup (S \ U) = S /\ U \cap (S \ U) = {} /\ S \ U \in SUBSET S
    OBVIOUS
  <2>2. Sum(S) = Sum(U) + Sum(S \ U)
    BY <1>2, <2>1
  <2>3. Sum(U) \in Nat /\ Sum(S \ U) \in Nat
    BY <1>4, <2>1 DEF P
  <2> QED
    BY <2>2, <2>3
<1> QED
  BY <1>5 DEF Sum
=============================================================================
