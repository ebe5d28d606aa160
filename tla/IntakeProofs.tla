---------------------------- MODULE IntakeProofs ----------------------------
(***************************************************************************)
(* A stored import profile is what its form shows, a text has the records  *)
(* of its grammar, and a preview tells invalid rows and duplicates from    *)
(* those to import: for every text, ledger and set of profiles.            *)
(***************************************************************************)
EXTENDS IntakeProperties, NumberFacts, SequenceTheorems

-----------------------------------------------------------------------------
(* The numbers of a set in order.                                          *)

LEMMA InOrderEmpty == InOrder({}) = <<>>
<1>1. Cardinality({}) = 0
  BY FS_EmptySet
<1> QED
  BY <1>1 DEF InOrder

\* A number above all others comes last.
LEMMA InOrderAppend ==
  ASSUME NEW S \in SUBSET Nat, IsFiniteSet(S), NEW m \in Nat, \A x \in S : x < m
  PROVE  /\ InOrder(S \cup {m}) = Append(InOrder(S), m)
         /\ Cardinality(S \cup {m}) = Cardinality(S) + 1
<1> DEFINE T == S \cup {m}
           n == Cardinality(S)
           rank(x) == Cardinality({y \in S : y <= x})
           rankT(x) == Cardinality({y \in T : y <= x})
<1>1. n \in Nat /\ Cardinality(T) = n + 1
  BY FS_CardinalityType, FS_AddElement
<1>2. ASSUME NEW x \in S PROVE rankT(x) = rank(x) /\ rank(x) \in Nat /\ rank(x) <= n
  <2>1. {y \in T : y <= x} = {y \in S : y <= x}
    OBVIOUS
  <2>2. {y \in S : y <= x} \in SUBSET S
    OBVIOUS
  <2> QED
    BY <2>1, <2>2, FS_Subset, FS_CardinalityType
<1>3. rankT(m) = n + 1
  <2>1. \A y \in T : y <= m
    OBVIOUS
  <2>2. {y \in T : y <= m} = T
    BY <2>1
  <2> QED
    BY <1>1, <2>2
<1>6. InOrder(T) = [k \in 1..(n + 1) |-> CHOOSE x \in T : rankT(x) = k]
  BY <1>1 DEF InOrder
<1>7. InOrder(S) = [k \in 1..n |-> CHOOSE x \in S : rank(x) = k]
  BY DEF InOrder
<1> HIDE DEF n, rank, rankT
<1>4. ASSUME NEW k \in 1..n
      PROVE  (CHOOSE x \in T : rankT(x) = k) = (CHOOSE x \in S : rank(x) = k)
  <2>1. k # n + 1 /\ \A x \in S : rankT(x) = rank(x)
    BY <1>1, <1>2
  <2>2. \A x : (x \in T /\ rankT(x) = k) <=> (x \in S /\ rank(x) = k)
    BY <1>3, <2>1, Zenon
  <2> QED
    BY <2>2, Zenon
<1>5. (CHOOSE x \in T : rankT(x) = n + 1) = m
  <2>1. \A x \in T : rankT(x) = n + 1 <=> x = m
    BY <1>1, <1>2, <1>3
  <2> QED
    BY <2>1
<1> HIDE DEF T
<1>8. InOrder(T) = Append(InOrder(S), m)
  BY <1>1, <1>4, <1>5, <1>6, <1>7
<1> QED
  BY <1>1, <1>8 DEF T, n

\* S is listed from the smallest to the largest, each number once.
Listed(S) ==
  LET e == InOrder(S) IN
  /\ e \in Seq(S) /\ Len(e) = Cardinality(S)
  /\ \A i, j \in 1..Len(e) : i < j => e[i] < e[j]
  /\ \A x \in S : \E i \in 1..Len(e) : e[i] = x

LEMMA ListedAppend ==
  ASSUME NEW S \in SUBSET Nat, IsFiniteSet(S), Listed(S), NEW m \in Nat, \A x \in S : x < m
  PROVE  Listed(S \cup {m})
<1> DEFINE e == InOrder(S)
           T == S \cup {m}
           d == InOrder(T)
<1>1. d = Append(e, m) /\ Cardinality(T) = Cardinality(S) + 1
  BY InOrderAppend
<1>2. /\ e \in Seq(S) /\ Len(e) = Cardinality(S) /\ Len(e) \in Nat
      /\ \A i, j \in 1..Len(e) : i < j => e[i] < e[j]
      /\ \A x \in S : \E i \in 1..Len(e) : e[i] = x
      /\ \A i \in 1..Len(e) : e[i] \in S
  BY DEF Listed
<1> HIDE DEF e, d
<1>3. e \in Seq(T) /\ m \in T
  BY <1>2
<1> HIDE DEF T
<1>4. /\ d \in Seq(T) /\ Len(d) = Len(e) + 1 /\ d[Len(e) + 1] = m
      /\ \A i \in 1..Len(e) : d[i] = e[i]
  BY <1>1, <1>2, <1>3
<1>5. ASSUME NEW i \in 1..Len(d), NEW j \in 1..Len(d), i < j PROVE d[i] < d[j]
  <2>1. i \in 1..Len(e) /\ d[i] = e[i] /\ e[i] \in S
    BY <1>2, <1>4, <1>5
  <2>2. CASE j = Len(e) + 1
    BY <1>4, <2>1, <2>2
  <2>3. CASE j # Len(e) + 1
    <3>1. j \in 1..Len(e)
      BY <1>2, <1>4, <2>3
    <3> QED
      BY <1>2, <1>4, <1>5, <2>1, <3>1
  <2> QED
    BY <2>2, <2>3
<1>6. ASSUME NEW x \in T PROVE \E i \in 1..Len(d) : d[i] = x
  <2>1. CASE x = m
    BY <1>2, <1>4, <2>1
  <2>2. CASE x # m
    <3>1. x \in S
      BY <2>2 DEF T
    <3>2. PICK i \in 1..Len(e) : e[i] = x
      BY <1>2, <3>1
    <3>3. i \in 1..Len(d) /\ d[i] = x
      BY <1>2, <1>4, <3>2
    <3> QED
      BY <3>3
  <2> QED
    BY <2>1, <2>2
<1> QED
  BY <1>1, <1>2, <1>4, <1>5, <1>6 DEF Listed, T, d

LEMMA InOrderLists ==
  ASSUME NEW n \in Nat, NEW S \in SUBSET (1..n)
  PROVE  IsFiniteSet(S) /\ Listed(S)
<1> DEFINE Bad == {k \in Nat : \E T \in SUBSET (1..k) : ~Listed(T)}
<1>1. \A k \in Nat : \A T \in SUBSET (1..k) : IsFiniteSet(T) /\ T \in SUBSET Nat
  <2> SUFFICES ASSUME NEW k \in Nat, NEW T \in SUBSET (1..k)
               PROVE  IsFiniteSet(T) /\ T \in SUBSET Nat
    OBVIOUS
  <2>1. IsFiniteSet(1..k)
    BY FS_Interval
  <2>2. IsFiniteSet(T)
    BY <2>1, FS_Subset
  <2> QED
    BY <2>2
<1>2. ASSUME Bad # {} PROVE FALSE
  <2>1. PICK k \in Bad : \A j \in Bad : k <= j
    BY <1>2, Least
  <2>2. PICK T \in SUBSET (1..k) : ~Listed(T)
    BY <2>1
  <2>3. CASE T = {}
    <3>1. InOrder({}) = <<>> /\ Cardinality({}) = 0
      BY InOrderEmpty, FS_EmptySet
    <3>2. <<>> \in Seq({}) /\ Len(<<>>) = 0 /\ 1..Len(<<>>) = {}
      OBVIOUS
    <3>3. Listed({})
      BY <3>1, <3>2, Zenon DEF Listed
    <3> QED
      BY <2>2, <2>3, <3>3
  <2>4. CASE T # {}
    <3>0. PICK x \in T : x \in 1..k
      BY <2>4
    <3>1. k \in Nat /\ k - 1 \in Nat /\ k - 1 < k /\ k \in 1..k
      BY <2>1, <3>0
    <3>2. k - 1 \notin Bad
      <4> HIDE DEF Bad
      <4> QED
        BY <2>1, <3>1
    <3>3. \A U \in SUBSET (1..(k - 1)) : Listed(U)
      BY <3>1, <3>2
    <3> DEFINE U == T \ {k}
    <3>4. U \in SUBSET (1..(k - 1)) /\ \A y \in U : y < k
      BY <3>1
    <3>5. IsFiniteSet(U) /\ U \in SUBSET Nat /\ Listed(U)
      BY <1>1, <3>1, <3>3, <3>4
    <3>6. Listed(U \cup {k})
      BY <3>1, <3>4, <3>5, ListedAppend
    <3>7. T = U \/ T = U \cup {k}
      OBVIOUS
    <3> QED
      BY <2>2, <3>5, <3>6, <3>7
  <2> QED
    BY <2>3, <2>4
<1> QED
  BY <1>1, <1>2

-----------------------------------------------------------------------------
(* Trimming.                                                               *)

\* Trimming twice is trimming once, and leaves the symbols that are not white space.
LEMMA TrimmedFacts ==
  ASSUME NEW X, NEW s \in Seq(X)
  PROVE  /\ Trimmed(s) \in Seq(X)
         /\ Trimmed(Trimmed(s)) = Trimmed(s)
         /\ Inked(s) = {} => Trimmed(s) = <<>>
         /\ Inked(s) # {} => Inked(Trimmed(s)) # {} /\ Trimmed(s) # <<>>
         /\ Trimmed(s) # <<>> => {1, Len(Trimmed(s))} \subseteq Inked(Trimmed(s))
<1>1. Inked(s) \in SUBSET (1..Len(s)) /\ Len(s) \in Nat
  BY DEF Inked
<1>2. Inked(<<>>) = {}
  BY DEF Inked
<1>3. CASE Inked(s) = {}
  BY <1>2, <1>3 DEF Trimmed
<1>4. CASE Inked(s) # {}
  <2> DEFINE first == Min(Inked(s))
             last == Max(Inked(s))
             t == SubSeq(s, first, last)
  <2>1. first \in Inked(s) /\ last \in Inked(s) /\ first <= last
    BY <1>1, <1>4, Bounds
  <2>2. first \in 1..Len(s) /\ last \in 1..Len(s) /\ s[first] \notin White /\ s[last] \notin White
    BY <1>1, <2>1 DEF Inked
  <2> HIDE DEF first, last
  <2>3. /\ t \in Seq(X) /\ Len(t) = last - first + 1
        /\ \A i \in 1..(last - first + 1) : t[i] = s[first + i - 1]
    BY <2>1, <2>2, SubSeqProperties
  <2> HIDE DEF t
  <2>4. Len(t) \in Nat /\ Len(t) >= 1 /\ t[1] = s[first] /\ t[Len(t)] = s[last]
    BY <2>1, <2>2, <2>3
  <2>5. 1 \in Inked(t) /\ Len(t) \in Inked(t) /\ Inked(t) \in SUBSET (1..Len(t))
    BY <2>2, <2>3, <2>4, SMTT(40) DEF Inked
  <2>6. Min(Inked(t)) = 1 /\ Max(Inked(t)) = Len(t)
    <3>1. /\ Min(Inked(t)) \in 1..Len(t) /\ Min(Inked(t)) <= 1
          /\ Max(Inked(t)) \in 1..Len(t) /\ Max(Inked(t)) >= Len(t)
      BY <2>4, <2>5, Bounds
    <3> QED
      BY <2>4, <3>1
  <2>7. SubSeq(t, 1, Len(t)) = t
    BY <2>3, SubSeqFull
  <2>8. Trimmed(s) = t
    BY <1>4 DEF Trimmed, t, first, last
  <2>9. Trimmed(t) = t
    BY <2>5, <2>6, <2>7 DEF Trimmed
  <2> QED
    BY <1>2, <1>4, <2>3, <2>5, <2>8, <2>9
<1> QED
  BY <1>3, <1>4

-----------------------------------------------------------------------------
(* Displayed texts.                                                        *)

\* A text without white space around it, and one space wherever there is some inside.
Clean(t) ==
  /\ t \in Seq(Characters)
  /\ \A i \in 1..Len(t) : t[i] \in White =>
       t[i] = Space /\ i > 1 /\ i < Len(t) /\ t[i - 1] \notin White

LEMMA DisplayClean ==
  ASSUME NEW s \in Seq(Characters)
  PROVE  Clean(Display(s))
<1> DEFINE t == Trimmed(s)
           kept == {i \in DOMAIN t : i \in Inked(t) \/ i - 1 \in Inked(t)}
           e == InOrder(kept)
           d == [k \in DOMAIN e |-> IF t[e[k]] \in White THEN Space ELSE t[e[k]]]
<1>1. /\ t \in Seq(Characters) /\ Len(t) \in Nat /\ DOMAIN t = 1..Len(t)
      /\ t # <<>> => 1 \in Inked(t) /\ Len(t) \in Inked(t)
  BY TrimmedFacts
<1>2. Display(s) = d
  BY DEF Display
<1> HIDE DEF t
<1>3. Inked(t) \in SUBSET (1..Len(t)) /\ \A i \in 1..Len(t) : i \in Inked(t) <=> t[i] \notin White
  BY <1>1 DEF Inked
<1>4. kept \in SUBSET (1..Len(t)) /\ Inked(t) \in SUBSET kept
  BY <1>1, <1>3
<1>5. /\ e \in Seq(kept) /\ Len(e) \in Nat /\ DOMAIN e = 1..Len(e)
      /\ \A i, j \in 1..Len(e) : i < j => e[i] < e[j]
      /\ \A x \in kept : \E i \in 1..Len(e) : e[i] = x
      /\ \A i \in 1..Len(e) : e[i] \in kept /\ e[i] \in 1..Len(t)
  <2>1. Listed(kept)
    BY <1>1, <1>4, InOrderLists
  <2> HIDE DEF kept
  <2>2. /\ e \in Seq(kept)
        /\ \A i, j \in 1..Len(e) : i < j => e[i] < e[j]
        /\ \A x \in kept : \E i \in 1..Len(e) : e[i] = x
    BY <2>1 DEF Listed
  <2> HIDE DEF e
  <2>3. Len(e) \in Nat /\ DOMAIN e = 1..Len(e) /\ \A i \in 1..Len(e) : e[i] \in kept
    BY <2>2
  <2>4. \A i \in kept : i \in 1..Len(t)
    BY <1>4
  <2> QED
    BY <2>2, <2>3, <2>4
<1>6. \A x \in kept : x \in Inked(t) \/ x - 1 \in Inked(t)
  OBVIOUS
<1> HIDE DEF kept, e
<1>7. Space \in White /\ White \in SUBSET Characters
  BY DEF White, Characters
<1>8. d \in Seq(Characters) /\ Len(d) = Len(e)
  <2>1. \A k \in 1..Len(e) : (IF t[e[k]] \in White THEN Space ELSE t[e[k]]) \in Characters
    BY <1>1, <1>5, <1>7
  <2> QED
    BY <1>5, <2>1
<1>9. ASSUME NEW k \in 1..Len(d), d[k] \in White
      PROVE  d[k] = Space /\ k > 1 /\ k < Len(d) /\ d[k - 1] \notin White
  <2>1. k \in 1..Len(e) /\ t[e[k]] \in White /\ d[k] = Space
    BY <1>5, <1>8, <1>9
  <2>2. e[k] \in kept /\ e[k] \in 1..Len(t) /\ e[k] \notin Inked(t)
    BY <1>3, <1>5, <2>1
  <2>3. e[k] - 1 \in Inked(t)
    BY <1>6, <2>2
  <2>4. PICK j \in 1..Len(e) : e[j] = e[k] - 1
    BY <1>4, <1>5, <2>3
  <2>5. j = k - 1
    <3>1. j < k
      BY <1>5, <2>1, <2>2, <2>4
    <3>2. ASSUME j < k - 1 PROVE FALSE
      <4>1. k - 1 \in 1..Len(e)
        BY <1>5, <2>1, <3>1
      <4>2. k \in Int /\ k - 1 < k
        BY <1>5, <2>1
      <4>4. e[j] < e[k - 1] /\ e[k - 1] < e[k]
        BY <1>5, <2>1, <3>2, <4>1, <4>2
      <4>3. e[k - 1] \in Int /\ e[k] \in Int
        BY <1>5, <2>1, <4>1
      <4> QED
        BY <2>4, <4>4, <4>3
    <3> QED
      BY <2>1, <3>1, <3>2
  <2>6. t[e[k - 1]] \notin White /\ d[k - 1] = t[e[k - 1]]
    BY <1>3, <1>5, <2>3, <2>4, <2>5
  <2>7. t # <<>>
    BY <2>2, <1>1
  <2>8. PICK m \in 1..Len(e) : e[m] = Len(t)
    BY <1>1, <1>4, <1>5, <2>7
  <2>9. m # k /\ e[k] <= e[m]
    BY <1>1, <1>3, <2>1, <2>2, <2>7, <2>8
  <2>10. k < m
    BY <1>5, <2>1, <2>8, <2>9
  <2> QED
    BY <1>8, <2>1, <2>4, <2>5, <2>6, <2>8, <2>10
<1> QED
  BY <1>2, <1>8, <1>9 DEF Clean

\* All numbers up to n, in order.
LEMMA InOrderInterval ==
  ASSUME NEW n \in Nat
  PROVE  InOrder(1..n) = [k \in 1..n |-> k]
<1> DEFINE Bad == {k \in Nat : InOrder(1..k) # [i \in 1..k |-> i]}
<1>1. ASSUME Bad # {} PROVE FALSE
  <2>1. PICK k \in Bad : \A j \in Bad : k <= j
    BY <1>1, Least
  <2>2. CASE k = 0
    <3>1. 1..0 = {} /\ [i \in 1..0 |-> i] = <<>>
      OBVIOUS
    <3> QED
      BY <2>1, <2>2, <3>1, InOrderEmpty
  <2>3. CASE k # 0
    <3>1. k \in Nat /\ k - 1 \in Nat
      BY <2>1, <2>3
    <3>2. k - 1 \notin Bad
      <4> HIDE DEF Bad
      <4> QED
        BY <2>1, <3>1
    <3>3. InOrder(1..(k - 1)) = [i \in 1..(k - 1) |-> i]
      BY <3>1, <3>2
    <3>4. 1..k = (1..(k - 1)) \cup {k} /\ 1..(k - 1) \in SUBSET Nat /\ \A i \in 1..(k - 1) : i < k
      BY <3>1
    <3>5. IsFiniteSet(1..(k - 1))
      BY <3>1, FS_Interval
    <3>6. InOrder(1..k) = Append(InOrder(1..(k - 1)), k)
      BY <3>1, <3>4, <3>5, InOrderAppend
    <3>7. Append([i \in 1..(k - 1) |-> i], k) = [i \in 1..k |-> i]
      BY <3>1
    <3> QED
      BY <2>1, <3>3, <3>6, <3>7
  <2> QED
    BY <2>2, <2>3
<1> QED
  BY <1>1

\* There is nothing to change in a text that has been displayed.
LEMMA CleanDisplayed ==
  ASSUME NEW t, Clean(t)
  PROVE  Display(t) = t
<1> DEFINE n == Len(t)
           kept == {i \in DOMAIN t : i \in Inked(t) \/ i - 1 \in Inked(t)}
<1>1. t \in Seq(Characters) /\ n \in Nat /\ DOMAIN t = 1..n /\ Space \in White
  BY DEF Clean, White
<1>2. /\ Inked(t) \in SUBSET (1..n)
      /\ \A i \in 1..n : i \in Inked(t) <=> t[i] \notin White
  BY <1>1 DEF Inked
<1>3. Trimmed(t) = t
  <2>1. CASE n = 0
    BY <1>1, <1>2, <2>1 DEF Trimmed
  <2>2. CASE n # 0
    <3>1. 1 \in Inked(t) /\ n \in Inked(t)
      BY <1>1, <1>2, <2>2 DEF Clean
    <3>2. Min(Inked(t)) = 1 /\ Max(Inked(t)) = n
      <4>1. /\ Min(Inked(t)) \in 1..n /\ Min(Inked(t)) <= 1
            /\ Max(Inked(t)) \in 1..n /\ Max(Inked(t)) >= n
        BY <1>1, <1>2, <3>1, Bounds
      <4> QED
        BY <1>1, <4>1
    <3>3. SubSeq(t, 1, n) = t
      BY <1>1, SubSeqFull
    <3> QED
      BY <3>1, <3>2, <3>3 DEF Trimmed
  <2> QED
    BY <2>1, <2>2
<1>4. kept = 1..n
  <2>1. ASSUME NEW i \in 1..n, i \notin Inked(t) PROVE i - 1 \in Inked(t)
    <3>1. t[i] \in White
      BY <1>2, <2>1
    <3>2. i > 1 /\ t[i - 1] \notin White /\ i - 1 \in 1..n
      BY <1>1, <3>1 DEF Clean
    <3> QED
      BY <1>2, <3>2
  <2> QED
    BY <1>1, <2>1
<1>5. InOrder(kept) = [k \in 1..n |-> k]
  BY <1>1, <1>4, InOrderInterval
<1>6. Display(t) = [k \in DOMAIN InOrder(kept) |->
                      IF t[InOrder(kept)[k]] \in White THEN Space ELSE t[InOrder(kept)[k]]]
  BY <1>3 DEF Display
<1> HIDE DEF kept
<1>7. Display(t) = [k \in 1..n |-> IF t[k] \in White THEN Space ELSE t[k]]
  BY <1>5, <1>6
<1>8. \A k \in 1..n : (IF t[k] \in White THEN Space ELSE t[k]) = t[k]
  BY DEF Clean
<1>9. t = [k \in 1..n |-> t[k]]
  BY <1>1
<1> HIDE DEF n
<1> QED
  BY <1>7, <1>8, <1>9

LEMMA JoinedFacts ==
  ASSUME NEW X, NEW x \in X, NEW s \in Seq(X), NEW t \in Seq(X)
  PROVE  /\ s \o <<x>> \o t \in Seq(X) /\ Len(s \o <<x>> \o t) = Len(s) + 1 + Len(t)
         /\ \A i \in 1..Len(s) : (s \o <<x>> \o t)[i] = s[i]
         /\ (s \o <<x>> \o t)[Len(s) + 1] = x
         /\ \A i \in 1..Len(t) : (s \o <<x>> \o t)[Len(s) + 1 + i] = t[i]
<1> DEFINE one == <<x>>
           h == s \o one
<1>1. one \in Seq(X) /\ Len(one) = 1 /\ one[1] = x /\ Len(s) \in Nat /\ Len(t) \in Nat
  OBVIOUS
<1> HIDE DEF one
<1>2. /\ h \in Seq(X) /\ Len(h) = Len(s) + Len(one)
      /\ \A i \in 1..(Len(s) + Len(one)) :
           h[i] = IF i <= Len(s) THEN s[i] ELSE one[i - Len(s)]
  BY <1>1, ConcatProperties, Zenon
<1> HIDE DEF h
<1>7. h \in Seq(X)
  BY <1>2
<1>3. /\ h \o t \in Seq(X) /\ Len(h \o t) = Len(h) + Len(t)
      /\ \A i \in 1..(Len(h) + Len(t)) : (h \o t)[i] = IF i <= Len(h) THEN h[i] ELSE t[i - Len(h)]
  BY <1>7, ConcatProperties, Zenon
<1>4. \A i \in 1..Len(s) : (h \o t)[i] = s[i]
  BY <1>1, <1>2, <1>3
<1>5. (h \o t)[Len(s) + 1] = x
  BY <1>1, <1>2, <1>3
<1>6. \A i \in 1..Len(t) : (h \o t)[Len(s) + 1 + i] = t[i]
  BY <1>1, <1>2, <1>3
<1> QED
  BY <1>2, <1>3, <1>4, <1>5, <1>6 DEF h, one

\* The hash of the first release joins description and payee as it shows them.
LEMMA JoinedText ==
  ASSUME NEW s, NEW t, Clean(s), Clean(t)
  PROVE  LegacyText(s \o <<Bar>> \o t) = LegacyText(s) \o <<Bar>> \o LegacyText(t)
<1> DEFINE u == s \o <<Bar>> \o t
           n == Len(s)
           m == Len(t)
<1>1. s \in Seq(Characters) /\ t \in Seq(Characters) /\ n \in Nat /\ m \in Nat
  BY DEF Clean
<1>2. Bar \in Characters /\ Bar \notin White /\ Lower[Bar] = Bar
  BY BarAssumption DEF Characters
<1>3. /\ u \in Seq(Characters) /\ Len(u) = n + 1 + m
      /\ \A i \in 1..n : u[i] = s[i]
      /\ u[n + 1] = Bar
      /\ \A i \in 1..m : u[n + 1 + i] = t[i]
  BY <1>1, <1>2, JoinedFacts
<1> HIDE DEF u, n, m
<1>4. ASSUME NEW i \in 1..Len(u)
      PROVE  i \in 1..n \/ i = n + 1 \/ \E j \in 1..m : i = n + 1 + j
  <2>1. i > n + 1 => i - n - 1 \in 1..m /\ i = n + 1 + (i - n - 1)
    BY <1>1, <1>3
  <2> QED
    BY <1>1, <1>3, <2>1
<1>5. Clean(u)
  <2> SUFFICES ASSUME NEW i \in 1..Len(u), u[i] \in White
               PROVE  u[i] = Space /\ i > 1 /\ i < Len(u) /\ u[i - 1] \notin White
    BY <1>3 DEF Clean
  <2>1. CASE i \in 1..n
    <3>1. s[i] = Space /\ i > 1 /\ i < n /\ s[i - 1] \notin White
      BY <1>3, <2>1 DEF Clean, n
    <3> QED
      BY <1>1, <1>3, <2>1, <3>1, SMTT(40)
  <2>2. CASE \E j \in 1..m : i = n + 1 + j
    <3>1. PICK j \in 1..m : i = n + 1 + j
      BY <2>2
    <3>2. t[j] = Space /\ j > 1 /\ j < m /\ t[j - 1] \notin White
      BY <1>3, <3>1 DEF Clean, m
    <3>3. j - 1 \in 1..m /\ i - 1 = n + 1 + (j - 1)
      BY <1>1, <3>1, <3>2
    <3>4. u[i - 1] = t[j - 1]
      BY <1>3, <3>3
    <3> QED
      BY <1>1, <1>3, <3>1, <3>2, <3>4
  <2> QED
    BY <1>2, <1>3, <1>4, <2>1, <2>2
<1>6. Display(s) = s /\ Display(t) = t /\ Display(u) = u
  BY <1>5, CleanDisplayed
<1> DEFINE a == Mapping(s, Lower)
           b == Mapping(t, Lower)
           c == Mapping(u, Lower)
           X == {Lower[x] : x \in Characters}
<1>7. /\ a \in Seq(X) /\ Len(a) = n /\ \A i \in 1..n : a[i] = Lower[s[i]]
      /\ b \in Seq(X) /\ Len(b) = m /\ \A i \in 1..m : b[i] = Lower[t[i]]
      /\ c \in Seq(X) /\ Len(c) = n + 1 + m /\ \A i \in 1..(n + 1 + m) : c[i] = Lower[u[i]]
      /\ Bar \in X
  <2>1. ASSUME NEW r \in Seq(Characters)
        PROVE  /\ Mapping(r, Lower) \in Seq(X) /\ Len(Mapping(r, Lower)) = Len(r)
               /\ \A i \in 1..Len(r) : Mapping(r, Lower)[i] = Lower[r[i]]
    <3>1. DOMAIN r = 1..Len(r) /\ Len(r) \in Nat /\ \A i \in 1..Len(r) : r[i] \in Characters
      OBVIOUS
    <3>2. Mapping(r, Lower) = [i \in 1..Len(r) |-> Lower[r[i]]]
      BY <3>1 DEF Mapping
    <3>3. \A i \in 1..Len(r) : Lower[r[i]] \in X
      BY <3>1
    <3> HIDE DEF X
    <3> QED
      BY <3>1, <3>2, <3>3
  <2>2. Bar \in X
    BY <1>2
  <2> HIDE DEF X, a, b, c
  <2> QED
    BY <1>1, <1>3, <2>1, <2>2 DEF a, b, c, n, m
<1> HIDE DEF a, b, c, X
<1> DEFINE g == a \o <<Bar>> \o b
<1>9. /\ g \in Seq(X) /\ Len(g) = n + 1 + m
      /\ \A i \in 1..n : g[i] = a[i]
      /\ g[n + 1] = Bar
      /\ \A i \in 1..m : g[n + 1 + i] = b[i]
  <2>1. a \in Seq(X) /\ b \in Seq(X) /\ Bar \in X /\ Len(a) = n /\ Len(b) = m
    BY <1>7
  <2>2. g \in Seq(X)
    BY <2>1, JoinedFacts
  <2>5. Len(g) = Len(a) + 1 + Len(b)
    BY <2>1, JoinedFacts
  <2>6. \A i \in 1..Len(a) : g[i] = a[i]
    BY <2>1, JoinedFacts
  <2>3. g[Len(a) + 1] = Bar
    BY <2>1, JoinedFacts
  <2>4. \A i \in 1..Len(b) : g[Len(a) + 1 + i] = b[i]
    BY <2>1, JoinedFacts
  <2> QED
    BY <1>1, <2>1, <2>2, <2>3, <2>4, <2>5, <2>6
<1> HIDE DEF g
<1>10. ASSUME NEW i \in 1..(n + 1 + m) PROVE c[i] = g[i]
  <2>0. c[i] = Lower[u[i]]
    BY <1>7
  <2>1. CASE i \in 1..n
    <3>1. u[i] = s[i] /\ a[i] = Lower[s[i]] /\ g[i] = a[i]
      BY <1>3, <1>7, <1>9, <2>1
    <3> QED
      BY <2>0, <3>1
  <2>2. CASE i = n + 1
    BY <1>1, <1>2, <1>3, <1>7, <1>9, <2>2
  <2>3. CASE \E j \in 1..m : i = n + 1 + j
    <3>1. PICK j \in 1..m : i = n + 1 + j
      BY <2>3
    <3>2. c[i] = Lower[u[n + 1 + j]] /\ u[n + 1 + j] = t[j] /\ b[j] = Lower[t[j]]
      BY <1>3, <1>7, <3>1
    <3> QED
      BY <1>9, <3>1, <3>2
  <2> QED
    BY <1>3, <1>4, <2>1, <2>2, <2>3
<1>11. c = g
  BY <1>7, <1>9, <1>10, SeqEqual
<1> QED
  BY <1>6, <1>11 DEF LegacyText, a, b, c, u, g

-----------------------------------------------------------------------------
(* Profiles.                                                               *)

\* A column is shown as its trimmed text, and read back as it was.
LEMMA ColumnFacts ==
  ASSUME NEW s \in Text
  PROVE  /\ Column(s) # NoColumn <=> Inked(s) # {}
         /\ (IF Column(s) = NoColumn THEN <<>> ELSE Column(s)) = Trimmed(s)
         /\ Column(Trimmed(s)) = Column(s)
<1>1. Trimmed(s) # NoColumn
  BY TrimmedFacts, NoColumnAssumption DEF Text
<1>2. Inked(<<>>) = {}
  BY DEF Inked
<1> QED
  BY <1>1, <1>2, TrimmedFacts DEF Column, Text

\* The texts of the form that shows a saved profile.
LEMMA Reshown ==
  ASSUME NEW form, FormTexts(form)
  PROVE  FormOf(Profile(form)) = [name |-> Trimmed(form.name), delimiter |-> form.delimiter,
           encoding |-> form.encoding, dateFormat |-> form.dateFormat,
           decimalFormat |-> form.decimalFormat,
           columns |-> [f \in Fields |-> Trimmed(form.columns[f])]]
<1>1. \A f \in Fields : form.columns[f] \in Text
  BY DEF FormTexts
<1>2. \A f \in Fields : (IF Profile(form).options.columns[f] = NoColumn THEN <<>>
                        ELSE Profile(form).options.columns[f]) = Trimmed(form.columns[f])
  BY <1>1, ColumnFacts DEF Profile, Options
<1> QED
  BY <1>2 DEF FormOf, Filled, Profile, Options

LEMMA ProfileKept ==
  ASSUME NEW form, FormTexts(form), Readable(Profile(form))
  PROVE  Kept(Profile(form))
<1> DEFINE again == FormOf(Profile(form))
<1>1. /\ again.name = Trimmed(form.name)
      /\ again.delimiter = form.delimiter /\ again.encoding = form.encoding
      /\ again.dateFormat = form.dateFormat /\ again.decimalFormat = form.decimalFormat
      /\ again.columns = [f \in Fields |-> Trimmed(form.columns[f])]
  BY Reshown
<1>2. form.name \in Text /\ \A f \in Fields : form.columns[f] \in Text
  BY DEF FormTexts
<1>3. FormTexts(again)
  BY <1>1, <1>2, TrimmedFacts DEF FormTexts, Text
<1> HIDE DEF again
<1>4. Options(again) = Options(form)
  <2>1. \A f \in Fields : Column(again.columns[f]) = Column(form.columns[f])
    BY <1>1, <1>2, ColumnFacts
  <2> QED
    BY <1>1, <2>1 DEF Options
<1>5. Profile(again) = Profile(form)
  BY <1>1, <1>2, <1>4, TrimmedFacts DEF Profile, Text
<1>6. \A f \in Required : Inked(again.columns[f]) # {}
  <2> SUFFICES ASSUME NEW f \in Required PROVE Inked(again.columns[f]) # {}
    OBVIOUS
  <2>1. f \in Fields
    BY DEF Fields
  <2>2. Column(form.columns[f]) # NoColumn
    BY <2>1 DEF Readable, Profile, Options
  <2> QED
    BY <1>1, <1>2, <2>1, <2>2, ColumnFacts, TrimmedFacts DEF Text
<1> QED
  BY <1>3, <1>5, <1>6 DEF Kept, again

\* A form that is saved makes a profile that every page can list.
LEMMA SavedReadable ==
  ASSUME NEW form, FormTexts(form), ~FormRefused(form), Inked(form.name) # {}
  PROVE  Readable(Profile(form))
<1>1. Trimmed(form.name) # <<>>
  BY TrimmedFacts DEF FormTexts, Text
<1>2. \A f \in Required : Column(form.columns[f]) # NoColumn
  BY ColumnFacts DEF FormTexts, FormRefused, Fields
<1> QED
  BY <1>1, <1>2 DEF Readable, Profile, Options, FormRefused, Fields

LEMMA InitProfiles == Init => ProfilesInv
<1> SUFFICES ASSUME Init PROVE ProfilesInv
  OBVIOUS
<1>1. FormTexts(BlankForm)
  <2>1. <<>> \in Text
    BY DEF Text
  <2> QED
    BY <2>1, DefaultColumnsAssumption DEF FormTexts, BlankForm
<1>2. shown.form = BlankForm
  BY DEF Init, BlankPage
<1>3. ASSUME NEW p \in ProfileIds, profiles[p] # NoProfile PROVE Kept(profiles[p])
  <2>1. scenario \in Scenarios
    BY DEF Init
  <2>2. StoredForms[scenario][p] # NoProfile /\ profiles[p] = Profile(StoredForms[scenario][p])
    BY <1>3 DEF Init
  <2> QED
    BY <2>1, <2>2, StoredFormsAssumption, ProfileKept
<1> QED
  BY <1>1, <1>2, <1>3 DEF ProfilesInv, Init

\* Saving a profile, and showing one.
LEMMA ProfilesStep == ProfilesInv /\ Profiles => ProfilesInv'
<1> SUFFICES ASSUME ProfilesInv, Profiles PROVE ProfilesInv'
  OBVIOUS
<1>5. scenario' = scenario /\ scenario \in Scenarios
  BY DEF Profiles, ProfilesInv
<1>1. FormTexts(BlankForm)
  <2>1. <<>> \in Text
    BY DEF Text
  <2> QED
    BY <2>1, DefaultColumnsAssumption DEF FormTexts, BlankForm
<1>2. CASE ShowPage
  <2>1. FormTexts(shown'.form)
    BY <1>1, <1>2 DEF ShowPage, BlankPage, PageOf, ProfilesInv, Kept
  <2> QED
    BY <1>2, <1>5, <2>1 DEF ShowPage, ProfilesInv
<1>3. CASE SaveProfile(Forms[scenario])
  <2>1. PICK form \in Forms[scenario] \cup {shown.form}, p \in ProfileIds :
          /\ ~FormRefused(form) /\ Inked(form.name) # {}
          /\ profiles' = [profiles EXCEPT ![p] = Profile(form)]
          /\ shown' = [id |-> p, form |-> FormOf(Profile(form))]
    BY <1>3 DEF SaveProfile
  <2>2. FormTexts(form)
    BY <1>5, FormsAssumption DEF ProfilesInv
  <2>3. Kept(Profile(form))
    BY <2>1, <2>2, SavedReadable, ProfileKept
  <2>4. \A q \in ProfileIds : profiles'[q] # NoProfile => Kept(profiles'[q])
    BY <2>1, <2>3 DEF ProfilesInv
  <2> QED
    BY <1>5, <2>1, <2>3, <2>4 DEF ProfilesInv, Kept
<1>4. CASE SaveProfileRefused(Forms[scenario])
  BY <1>1, <1>4, <1>5 DEF SaveProfileRefused, BlankPage, ProfilesInv
<1> QED
  BY <1>2, <1>3, <1>4 DEF Profiles

LEMMA StepProfiles == ProfilesInv /\ [Next]_vars => ProfilesInv'
<1> SUFFICES ASSUME ProfilesInv, [Next]_vars PROVE ProfilesInv'
  OBVIOUS
<1>1. CASE Profiles
  BY <1>1, ProfilesStep DEF Profiles
<1>2. CASE Upload
  <2>1. FormTexts(BlankForm)
    <3>1. <<>> \in Text
      BY DEF Text
    <3> QED
      BY <3>1, DefaultColumnsAssumption DEF FormTexts, BlankForm
  <2> QED
    BY <1>2, <2>1 DEF Upload, BlankPage, ProfilesInv
<1>3. CASE UNCHANGED <<profileVars, scenario>>
  BY <1>3 DEF profileVars, ProfilesInv
<1> QED
  BY <1>1, <1>2, <1>3
  DEF Next, vars, others, ScanStep, Preview, StructureRefused, Confirm, Abandon, EditPurpose,
      DeleteRow

-----------------------------------------------------------------------------

\* Every stored profile whose delimiter is no tab is accepted when it is submitted as
\* shown, and any that is accepted is read as the same profile, whatever its texts are
\* and were trimmed of.
THEOREM ProfilesRoundTrip == Spec => []ProfilesReload
<1>1. ProfilesInv => ProfilesReload
  <2> SUFFICES ASSUME ProfilesInv, NEW p \in ProfileIds, profiles[p] # NoProfile
               PROVE  LET form == FormOf(profiles[p]) IN
                        /\ profiles[p].options.delimiter # Tab => ~FormRefused(form)
                        /\ ~FormRefused(form) => Profile(form) = profiles[p]
    BY DEF ProfilesReload
  <2> DEFINE form == FormOf(profiles[p])
  <2>1. Kept(profiles[p])
    BY DEF ProfilesInv
  <2>2. /\ form.delimiter = profiles[p].options.delimiter
        /\ form.encoding = profiles[p].options.encoding
        /\ form.dateFormat = profiles[p].options.dateFormat
        /\ form.decimalFormat = profiles[p].options.decimalFormat
    BY DEF FormOf, Filled
  <2>3. ASSUME profiles[p].options.delimiter # Tab
        PROVE  ~FormRefused(form)
    <3>1. form.delimiter \in {Comma, Semicolon} /\ form.delimiter \in Delimiters
      BY <2>1, <2>2, <2>3 DEF Kept, Readable, Delimiters
    <3>2. ~DelimiterMissing(form.delimiter)
      BY <3>1, CharactersAssumption DEF DelimiterMissing
    <3> QED
      BY <2>1, <2>2, <3>1, <3>2 DEF Kept, Readable, FormRefused
  <2>4. Profile(form) = profiles[p]
    BY <2>1 DEF Kept
  <2> QED
    BY <2>3, <2>4
<1> QED
  BY <1>1, InitProfiles, StepProfiles, PTL DEF Spec

-----------------------------------------------------------------------------
(* The automaton.                                                          *)

\* The successor of a state of the automaton, field by field.
Scanned(state, next, cell, record, records) ==
  [state |-> state, next |-> next, cell |-> cell, record |-> record, records |-> records]

LEMMA ScanEffects ==
  ASSUME ScanInv
  PROVE  /\ scan = Scanned(scan.state, scan.next, scan.cell, scan.record, scan.records)
         /\ EscapedQuote => scan' = Scanned(scan.state, scan.next + 2, Append(scan.cell, Quote),
                                            scan.record, scan.records)
         /\ CloseQuote => scan' = Scanned("after-quote", scan.next + 1, scan.cell,
                                          scan.record, scan.records)
         /\ QuotedCharacter \/ PlainCharacter =>
              scan' = Scanned(scan.state, scan.next + 1, Append(scan.cell, Current),
                              scan.record, scan.records)
         /\ OpenQuote => scan' = Scanned("quoted", scan.next + 1, scan.cell,
                                         scan.record, scan.records)
         /\ MalformedQuote => scan' = scan
         /\ EndCell => scan' = Scanned("plain", scan.next + 1, <<>>,
                                       Append(scan.record, scan.cell), scan.records)
         /\ EndRecord => scan' = Scanned("plain", scan.next + LineEndLength, <<>>, <<>>,
                                   Append(scan.records, Append(scan.record, scan.cell)))
         /\ EndOfFile => scan' = scan \/
              scan' = Scanned(scan.state, scan.next, scan.cell, scan.record,
                              Append(scan.records, Append(scan.record, scan.cell)))
<1>1. /\ scan = Scanned(scan.state, scan.next, scan.cell, scan.record, scan.records)
      /\ scan.next \in Int
  BY DEF ScanInv, Scanned
<1>2. scan.next + 1 + 1 = scan.next + 2
  BY <1>1
<1>3. ASSUME NEW state, NEW next, NEW cell, NEW record, NEW records
      PROVE  /\ [scan EXCEPT !.cell = cell, !.next = next]
                  = Scanned(scan.state, next, cell, scan.record, scan.records)
             /\ [scan EXCEPT !.state = state, !.next = next]
                  = Scanned(state, next, scan.cell, scan.record, scan.records)
             /\ [scan EXCEPT !.record = record, !.cell = cell, !.state = "plain", !.next = next]
                  = Scanned("plain", next, cell, record, scan.records)
             /\ [scan EXCEPT !.records = records]
                  = Scanned(scan.state, scan.next, scan.cell, scan.record, records)
  <2> DEFINE f == scan.state
             g == scan.next
             h == scan.cell
             i == scan.record
             j == scan.records
  <2>1. scan = Scanned(f, g, h, i, j)
    BY <1>1
  <2> HIDE DEF f, g, h, i, j
  <2>2. [scan EXCEPT !.cell = cell] = Scanned(f, g, cell, i, j)
    BY <2>1 DEF Scanned
  <2>3. [scan EXCEPT !.state = state] = Scanned(state, g, h, i, j)
    BY <2>1 DEF Scanned
  <2>4. [scan EXCEPT !.record = record] = Scanned(f, g, h, record, j)
    BY <2>1 DEF Scanned
  <2>5. [scan EXCEPT !.records = records] = Scanned(f, g, h, i, records)
    BY <2>1 DEF Scanned
  <2>6. [[scan EXCEPT !.cell = cell] EXCEPT !.next = next] = Scanned(f, next, cell, i, j)
    <3>1. [Scanned(f, g, cell, i, j) EXCEPT !.next = next] = Scanned(f, next, cell, i, j)
      BY DEF Scanned
    <3> QED
      BY <2>2, <3>1
  <2>7. [[scan EXCEPT !.state = state] EXCEPT !.next = next] = Scanned(state, next, h, i, j)
    <3>1. [Scanned(state, g, h, i, j) EXCEPT !.next = next] = Scanned(state, next, h, i, j)
      BY DEF Scanned
    <3> QED
      BY <2>3, <3>1
  <2>8. [[[[scan EXCEPT !.record = record] EXCEPT !.cell = cell] EXCEPT !.state = "plain"]
           EXCEPT !.next = next] = Scanned("plain", next, cell, record, j)
    <3>1. [Scanned(f, g, h, record, j) EXCEPT !.cell = cell] = Scanned(f, g, cell, record, j)
      BY DEF Scanned
    <3>2. [Scanned(f, g, cell, record, j) EXCEPT !.state = "plain"]
            = Scanned("plain", g, cell, record, j)
      BY DEF Scanned
    <3>3. [Scanned("plain", g, cell, record, j) EXCEPT !.next = next]
            = Scanned("plain", next, cell, record, j)
      BY DEF Scanned
    <3> QED
      BY <2>4, <3>1, <3>2, <3>3
  <2>9. [scan EXCEPT !.cell = cell, !.next = next] = Scanned(f, next, cell, i, j)
    BY <2>6
  <2>10. [scan EXCEPT !.state = state, !.next = next] = Scanned(state, next, h, i, j)
    BY <2>7
  <2>11. [scan EXCEPT !.record = record, !.cell = cell, !.state = "plain", !.next = next]
           = Scanned("plain", next, cell, record, j)
    BY <2>8
  <2> QED
    BY <2>5, <2>9, <2>10, <2>11 DEF f, g, h, i, j
<1>4. EscapedQuote => scan' = Scanned(scan.state, scan.next + 2, Append(scan.cell, Quote),
                                      scan.record, scan.records)
  <2>1. ASSUME EscapedQuote
        PROVE  scan' = [[scan EXCEPT !.cell = Append(scan.cell, Quote), !.next = scan.next + 1]
                          EXCEPT !.next = @ + 1]
    BY <2>1 DEF EscapedQuote, Keep
  <2>2. [scan EXCEPT !.cell = Append(scan.cell, Quote), !.next = scan.next + 1]
          = Scanned(scan.state, scan.next + 1, Append(scan.cell, Quote), scan.record, scan.records)
    BY <1>3
  <2> QED
    BY <1>2, <2>1, <2>2 DEF Scanned
<1>5. QuotedCharacter \/ PlainCharacter =>
        scan' = Scanned(scan.state, scan.next + 1, Append(scan.cell, Current),
                        scan.record, scan.records)
  BY <1>3 DEF QuotedCharacter, PlainCharacter, Keep
<1>6. CloseQuote => scan' = Scanned("after-quote", scan.next + 1, scan.cell,
                                    scan.record, scan.records)
  BY <1>3 DEF CloseQuote
<1>7. OpenQuote => scan' = Scanned("quoted", scan.next + 1, scan.cell, scan.record, scan.records)
  BY <1>3 DEF OpenQuote
<1>8. MalformedQuote => scan' = scan
  BY DEF MalformedQuote
<1>9. EndCell => scan' = Scanned("plain", scan.next + 1, <<>>,
                                 Append(scan.record, scan.cell), scan.records)
  <2>1. ASSUME EndCell
        PROVE  scan' = [scan EXCEPT !.record = Append(scan.record, scan.cell), !.cell = <<>>,
                                    !.state = "plain", !.next = scan.next + 1]
    BY <2>1 DEF EndCell
  <2> DEFINE next == scan.next + 1
             record == Append(scan.record, scan.cell)
  <2>2. [scan EXCEPT !.record = record, !.cell = <<>>, !.state = "plain", !.next = next]
          = Scanned("plain", next, <<>>, record, scan.records)
    <3> HIDE DEF next, record
    <3> QED
      BY <1>3
  <2> QED
    BY <2>1, <2>2
<1>10. EndRecord => scan' = Scanned("plain", scan.next + LineEndLength, <<>>, <<>>,
                              Append(scan.records, Append(scan.record, scan.cell)))
  BY DEF EndRecord, Start, Scanned
<1>11. EndOfFile => scan' = scan \/
         scan' = Scanned(scan.state, scan.next, scan.cell, scan.record,
                         Append(scan.records, Append(scan.record, scan.cell)))
  BY <1>3 DEF EndOfFile
<1> QED
  BY <1>1, <1>4, <1>5, <1>6, <1>7, <1>8, <1>9, <1>10, <1>11

LEMMA TypedScan ==
  ASSUME ScanInv, Scan
  PROVE  ScanInv'
<1> DEFINE C == Characters
           n == Len(content)
<1>1. /\ content \in Seq(C) /\ n \in Nat
      /\ scan = Scanned(scan.state, scan.next, scan.cell, scan.record, scan.records)
      /\ scan.state \in {"plain", "quoted", "after-quote"} /\ scan.next \in 1..(n + 1)
      /\ scan.cell \in Seq(C) /\ scan.record \in Seq(Seq(C))
      /\ scan.records \in Seq(Seq(Seq(C)))
  BY ScanEffects DEF ScanInv
<1>2. content' = content
  BY DEF Scan, EscapedQuote, CloseQuote, QuotedCharacter, OpenQuote, MalformedQuote, EndCell,
         EndRecord, PlainCharacter, EndOfFile
<1> HIDE DEF C
<1>3. Quote \in C /\ <<>> \in Seq(C) /\ <<>> \in Seq(Seq(C)) /\ <<>> \in Seq(Seq(Seq(C)))
  BY DEF C, Characters
<1>4. scan.next <= n => Current \in C
  BY <1>1 DEF Current
<1>5. SUFFICES scan' \in [state : {"plain", "quoted", "after-quote"}, next : 1..(n + 1),
                          cell : Seq(C), record : Seq(Seq(C)), records : Seq(Seq(Seq(C)))]
  BY <1>1, <1>2 DEF ScanInv, C
<1>6. /\ Append(scan.record, scan.cell) \in Seq(Seq(C))
      /\ Append(scan.records, Append(scan.record, scan.cell)) \in Seq(Seq(Seq(C)))
  <2>1. Append(scan.record, scan.cell) \in Seq(Seq(C))
    BY <1>1
  <2> QED
    BY <1>1, <2>1
<1>7. ASSUME NEW state \in {"plain", "quoted", "after-quote"}, NEW next \in 1..(n + 1),
             NEW cell \in Seq(C), NEW record \in Seq(Seq(C)), NEW records \in Seq(Seq(Seq(C)))
      PROVE  Scanned(state, next, cell, record, records) \in
               [state : {"plain", "quoted", "after-quote"}, next : 1..(n + 1),
                cell : Seq(C), record : Seq(Seq(C)), records : Seq(Seq(Seq(C)))]
  BY DEF Scanned
<1>8. CASE EscapedQuote
  <2>1. scan.next + 2 \in 1..(n + 1) /\ Append(scan.cell, Quote) \in Seq(C)
    BY <1>1, <1>3, <1>8 DEF EscapedQuote, Scanning, Follows
  <2>2. scan' = Scanned(scan.state, scan.next + 2, Append(scan.cell, Quote),
                        scan.record, scan.records)
    BY <1>8, ScanEffects
  <2> QED
    BY <1>1, <1>7, <2>1, <2>2
<1>9. CASE CloseQuote \/ OpenQuote
  <2>1. scan.next + 1 \in 1..(n + 1)
    BY <1>1, <1>9 DEF CloseQuote, OpenQuote, Scanning
  <2> QED
    BY <1>1, <1>7, <1>9, <2>1, ScanEffects
<1>10. CASE QuotedCharacter \/ PlainCharacter
  <2>1. scan.next + 1 \in 1..(n + 1) /\ Append(scan.cell, Current) \in Seq(C)
    BY <1>1, <1>4, <1>10 DEF QuotedCharacter, PlainCharacter, Scanning
  <2>2. scan' = Scanned(scan.state, scan.next + 1, Append(scan.cell, Current),
                        scan.record, scan.records)
    BY <1>10, ScanEffects
  <2> QED
    BY <1>1, <1>7, <2>1, <2>2
<1>11. CASE MalformedQuote \/ EndOfFile
  <2>1. scan' = scan \/ scan' = Scanned(scan.state, scan.next, scan.cell, scan.record,
                                       Append(scan.records, Append(scan.record, scan.cell)))
    BY <1>11, ScanEffects
  <2>2. CASE scan' = scan
    BY <2>2 DEF ScanInv, C
  <2>3. CASE scan' = Scanned(scan.state, scan.next, scan.cell, scan.record,
                             Append(scan.records, Append(scan.record, scan.cell)))
    BY <1>1, <1>6, <1>7, <2>3
  <2> QED
    BY <2>1, <2>2, <2>3
<1>12. CASE EndCell
  <2>1. scan.next + 1 \in 1..(n + 1)
    BY <1>1, <1>12 DEF EndCell, Scanning
  <2>2. scan' = Scanned("plain", scan.next + 1, <<>>, Append(scan.record, scan.cell),
                        scan.records)
    BY <1>12, ScanEffects
  <2> QED
    BY <1>1, <1>3, <1>6, <1>7, <2>1, <2>2
<1>13. CASE EndRecord
  <2>1. scan.next + LineEndLength \in 1..(n + 1)
    BY <1>1, <1>13 DEF EndRecord, Scanning, LineEndLength, Follows
  <2>2. scan' = Scanned("plain", scan.next + LineEndLength, <<>>, <<>>,
                        Append(scan.records, Append(scan.record, scan.cell)))
    BY <1>13, ScanEffects
  <2> QED
    BY <1>1, <1>3, <1>6, <1>7, <2>1, <2>2
<1> QED
  BY <1>8, <1>9, <1>10, <1>11, <1>12, <1>13 DEF Scan

LEMMA InitScan == Init => ScanInv
BY DEF Init, ScanInv, Start

LEMMA StepScan == ProfilesInv /\ ScanInv /\ [Next]_vars => ScanInv'
<1> SUFFICES ASSUME ProfilesInv, ScanInv, [Next]_vars PROVE ScanInv'
  OBVIOUS
<1>1. CASE Upload
  <2>1. content' \in Seq(Characters) /\ scan' = Start
    BY <1>1, FilesAssumption DEF Upload, Read, ProfilesInv
  <2> QED
    BY <2>1 DEF ScanInv, Start
<1>2. CASE ScanStep
  BY <1>2, TypedScan DEF ScanStep
<1>3. CASE Leave
  BY <1>3 DEF Leave, ScanInv, Start
<1>4. CASE UNCHANGED <<content, scan>>
  BY <1>4 DEF ScanInv
<1> QED
  BY <1>1, <1>2, <1>3, <1>4
  DEF Next, vars, parserVars, Profiles, Preview, StructureRefused, Confirm, Abandon,
      EditPurpose, DeleteRow

-----------------------------------------------------------------------------
(* Outcomes.                                                               *)

\* The first check that fails names something that is wrong with the row.
LEMMA OutcomeTold ==
  ASSUME NEW row
  PROVE  /\ Wrong(row) # {} => RowOutcome(row) \in {Invalid(reason) : reason \in Wrong(row)}
         /\ Wrong(row) = {} =>
              RowOutcome(row) = (IF row.amount = <<Negative>> THEN Importable ELSE Ignored)
<1> DEFINE dated == row.date = <<DateWord>>
           counted == row.amount \in {<<Negative>>, <<Zero>>, <<Positive>>}
           described == row.description # <<>>
<1>1. /\ "invalid-date" \in Wrong(row) <=> ~dated
      /\ "invalid-amount" \in Wrong(row) <=> ~counted
      /\ "missing-description" \in Wrong(row) <=> ~described
      /\ Wrong(row) = {} <=> dated /\ counted /\ described
  BY DEF Wrong
<1>2. <<Unsafe>> \notin {<<Negative>>, <<Zero>>, <<Positive>>}
  BY AmountsAssumption
<1>3. /\ DateFormatFails(row) => ~dated
      /\ DateInvalid(row) <=> ~dated
      /\ AmountFormatFails(row) \/ AmountUnsafe(row) <=> ~counted
  BY <1>2 DEF DateFormatFails, DateInvalid, AmountFormatFails, AmountUnsafe
<1>4. CASE Wrong(row) = {}
  BY <1>1, <1>3, <1>4 DEF RowOutcome
<1>5. CASE Wrong(row) # {}
  <2>1. \E reason \in Wrong(row) : RowOutcome(row) = Invalid(reason)
    BY <1>1, <1>3, <1>5 DEF RowOutcome
  <2> QED
    BY <1>5, <2>1
<1> QED
  BY <1>4, <1>5

LEMMA InitPreview == Init => PreviewInv
BY DEF Init, PreviewInv

\* A preview is made of what was parsed and of the ledger, and shown until it is left.
LEMMA StepPreview == PreviewInv /\ [Next]_vars => PreviewInv'
<1> SUFFICES ASSUME PreviewInv, [Next]_vars PROVE PreviewInv'
  OBVIOUS
<1> DEFINE same == profile' = profile /\ ledger' = ledger
<1>1. ASSUME same, NEW k PROVE Outcome(rows, k)' = Outcome(rows', k)
  <2>1. \A j : RowOutcome(rows[j])' = RowOutcome(rows'[j])
    BY <1>1 DEF RowOutcome, DateFormatFails, AmountFormatFails, DateInvalid, AmountUnsafe,
                Invalid, Importable, Ignored
  <2>2. {j \in DOMAIN rows : RowOutcome(rows[j]) = Importable}'
          = {j \in DOMAIN rows' : RowOutcome(rows'[j]) = Importable}
    BY <2>1 DEF Importable
  <2>3. ASSUME NEW S PROVE Duplicate(rows, S, k)' <=> Duplicate(rows', S, k)
    BY <1>1 DEF Duplicate, MatchesPersisted
  <2> QED
    BY <2>1, <2>2, <2>3 DEF Outcome, Importable, DuplicateRow
<1>2. CASE Preview
  <2>1. /\ same /\ scan' = scan /\ phase' = "preview"
        /\ Structured(scan.records) /\ rows' = RowsOf(profile.columns, scan.records)
        /\ outcomes' = [k \in DOMAIN rows' |-> Outcome(rows', k)]
    BY <1>2 DEF Preview, others
  <2>2. Structured(scan.records)' /\ rows' = RowsOf(profile.columns, scan.records)'
    BY <2>1 DEF Structured, RowsOf
  <2>3. outcomes' = [k \in DOMAIN rows |-> Outcome(rows, k)]'
    BY <1>1, <2>1
  <2> QED
    BY <2>1, <2>2, <2>3 DEF PreviewInv
<1>3. CASE UNCHANGED <<profile, phase, scan, rows, outcomes, ledger>>
  <2>1. \A k : Outcome(rows, k)' = Outcome(rows, k)
    BY <1>1, <1>3
  <2>2. /\ Structured(scan.records)' <=> Structured(scan.records)
        /\ RowsOf(profile.columns, scan.records)' = RowsOf(profile.columns, scan.records)
    BY <1>3 DEF Structured, RowsOf
  <2> QED
    BY <1>3, <2>1, <2>2 DEF PreviewInv
<1>4. CASE phase' # "preview" /\ rows' = <<>> /\ outcomes' = <<>>
  BY <1>4 DEF PreviewInv
<1>5. CASE ScanStep \/ StructureRefused \/ Upload
  BY <1>5
  DEF ScanStep, Scan, Scanning, EscapedQuote, CloseQuote, QuotedCharacter, OpenQuote,
      MalformedQuote, EndCell, EndRecord, PlainCharacter, EndOfFile, StructureRefused, Upload,
      Read, PreviewInv
<1>6. CASE EditPurpose \/ DeleteRow
  BY <1>6 DEF EditPurpose, DeleteRow, Change, parserVars, PreviewInv
<1> QED
  BY <1>2, <1>3, <1>4, <1>5, <1>6 DEF Next, vars, parserVars, Profiles, Confirm, Abandon, Leave

\* A row with anything wrong is shown as invalid for something that is wrong with it,
\* whatever the file and the profile.
THEOREM InvalidRowsTold == Spec => []InvalidRowsAreTold
<1>1. PreviewInv => InvalidRowsAreTold
  <2> SUFFICES ASSUME PreviewInv, phase = "preview", NEW k \in DOMAIN rows
               PROVE  IF Wrong(rows[k]) # {}
                      THEN outcomes[k] \in {Invalid(reason) : reason \in Wrong(rows[k])}
                      ELSE outcomes[k] \in (IF rows[k].amount = <<Negative>>
                                            THEN {Importable, DuplicateRow} ELSE {Ignored})
    BY DEF InvalidRowsAreTold
  <2>1. \/ outcomes[k] = RowOutcome(rows[k])
        \/ RowOutcome(rows[k]) = Importable /\ outcomes[k] = DuplicateRow
    BY DEF PreviewInv, Outcome
  <2>2. Importable # Ignored /\ \A reason : Importable # Invalid(reason)
    <3>1. \A reason : Importable.outcome # Invalid(reason).outcome
      BY DEF Importable, Invalid
    <3>2. Importable.outcome # Ignored.outcome
      BY DEF Importable, Ignored
    <3> QED
      BY <3>1, <3>2
  <2>3. CASE Wrong(rows[k]) # {}
    <3>1. RowOutcome(rows[k]) \in {Invalid(reason) : reason \in Wrong(rows[k])}
      BY <2>3, OutcomeTold
    <3>2. RowOutcome(rows[k]) # Importable
      BY <2>2, <3>1
    <3> QED
      BY <2>1, <2>3, <3>1, <3>2
  <2>4. CASE Wrong(rows[k]) = {}
    <3>1. RowOutcome(rows[k])
            = (IF rows[k].amount = <<Negative>> THEN Importable ELSE Ignored)
      BY <2>4, OutcomeTold
    <3> QED
      BY <2>1, <2>2, <2>4, <3>1
  <2> QED
    BY <2>3, <2>4
<1> QED
  BY <1>1, InitPreview, StepPreview, PTL DEF Spec

-----------------------------------------------------------------------------
(* The rows of a preview and of the ledger.                                *)

\* A field that is mapped has a cell in every row.
LEMMA CellTyped ==
  ASSUME ScanInv, Structured(scan.records), NEW k \in 1..(Len(scan.records) - 1), NEW f
  PROVE  CellOf(profile.columns, scan.records[1], scan.records[k + 1], f) \in Seq(Characters)
<1> DEFINE C == Characters
           records == scan.records
           headers == records[1]
           row == records[k + 1]
           columns == profile.columns
<1>1. records \in Seq(Seq(Seq(C))) /\ Len(records) \in Nat
  BY DEF ScanInv
<1> HIDE DEF C
<1>2. /\ 1 \in 1..Len(records) /\ k + 1 \in 1..Len(records)
      /\ headers \in Seq(Seq(C)) /\ row \in Seq(Seq(C))
  BY <1>1
<1>3. Len(row) = Len(headers)
  BY <1>1, <1>2, SMTT(40) DEF Structured
<1>4. CASE f \notin Mapped(columns)
  <2>1. <<>> \in Seq(C)
    OBVIOUS
  <2> QED
    BY <1>4, <2>1 DEF CellOf, C
<1>5. CASE f \in Mapped(columns)
  <2> DEFINE P == Positions(headers, columns[f])
  <2>1. P # {} /\ P \in SUBSET (1..Len(headers)) /\ Len(headers) \in Nat
    <3>1. DOMAIN headers = 1..Len(headers) /\ Len(headers) \in Nat
      BY <1>2
    <3>2. P # {}
      BY <1>5 DEF Structured
    <3>3. P \in SUBSET DOMAIN headers
      BY DEF Positions
    <3> QED
      BY <3>1, <3>2, <3>3
  <2>2. Min(P) \in P
    <3> HIDE DEF P
    <3> QED
      BY <2>1, Bounds
  <2>3. Min(P) \in 1..Len(row)
    BY <1>3, <2>1, <2>2
  <2>4. row[Min(P)] \in Seq(C)
    BY <1>2, <2>3
  <2> QED
    BY <1>5, <2>4 DEF CellOf, C
<1> QED
  BY <1>4, <1>5

\* The texts of a row are displayed texts.
LEMMA RowsTyped ==
  ASSUME ScanInv, PreviewInv, phase = "preview"
  PROVE  /\ Len(scan.records) - 1 \in Nat /\ DOMAIN rows = 1..(Len(scan.records) - 1)
         /\ rows = [k \in 1..(Len(scan.records) - 1) |-> rows[k]]
         /\ outcomes = [k \in DOMAIN rows |-> Outcome(rows, k)]
         /\ \A k \in DOMAIN rows :
              /\ Clean(rows[k].description) /\ Clean(rows[k].payee) /\ Clean(rows[k].purpose)
              /\ outcomes[k] = Outcome(rows, k)
<1> DEFINE n == Len(scan.records) - 1
           row(k) == NormalizedRow(profile.columns, scan.records[1], scan.records[k + 1])
<1>1. /\ Structured(scan.records) /\ rows = RowsOf(profile.columns, scan.records)
      /\ outcomes = [k \in DOMAIN rows |-> Outcome(rows, k)]
  BY DEF PreviewInv
<1>2. n \in Nat
  BY <1>1 DEF ScanInv, Structured
<1>3. rows = [k \in 1..n |-> row(k)]
  BY <1>1 DEF RowsOf
<1>4. ASSUME NEW k \in 1..n
      PROVE  Clean(row(k).description) /\ Clean(row(k).payee) /\ Clean(row(k).purpose)
  BY <1>1, <1>4, CellTyped, DisplayClean DEF NormalizedRow
<1> HIDE DEF n, row
<1>5. DOMAIN rows = 1..n /\ rows = [k \in 1..n |-> rows[k]]
  BY <1>3
<1>6. \A k \in 1..n : Clean(rows[k].description) /\ Clean(rows[k].payee) /\ Clean(rows[k].purpose)
  BY <1>3, <1>4
<1>7. \A k \in DOMAIN rows : outcomes[k] = Outcome(rows, k)
  BY <1>1
<1> QED
  BY <1>1, <1>2, <1>5, <1>6, <1>7 DEF n

\* What an imported row was imported as is its row, and its hash is of the last version.
LEMMA ImportedFacts ==
  ASSUME NEW row
  PROVE  /\ Imported(row) = [hash |-> ImportHash(row), purpose |-> row.purpose, row |-> row]
         /\ ImportHash(row) \in Candidates(row) /\ ImportHash(row).version = "v3"
         /\ ImportHash(row) # NoHash
<1>1. ImportHash(row).version = "v3" /\ NoHash.version = "none"
  BY DEF ImportHash, NoHash
<1>2. ImportHash(row) # NoHash
  BY <1>1
<1> QED
  BY <1>1, <1>2 DEF Imported, Candidates

LEMMA InitLedger == Init => LedgerInv
BY LegacyAssumption DEF Init, LedgerInv

\* A row that is imported is none that the ledger has, and none of its file.
LEMMA ConfirmLedger ==
  ASSUME ScanInv, PreviewInv, LedgerInv, Confirm
  PROVE  LedgerInv'
<1> DEFINE added == {Imported(rows[k]) : k \in Accepted}
           candidates == {j \in DOMAIN rows : RowOutcome(rows[j]) = Importable}
<1>1. phase = "preview" /\ ledger' = ledger \cup added
  BY DEF Confirm
<1>2. ASSUME NEW k \in Accepted
      PROVE  k \in DOMAIN rows /\ k \in candidates /\ ~Duplicate(rows, candidates, k)
  <2>1. k \in DOMAIN rows /\ outcomes[k] = Outcome(rows, k) /\ outcomes[k] = Importable
    BY <1>1, RowsTyped DEF Accepted
  <2>2. Importable # DuplicateRow
    <3>1. Importable.outcome # DuplicateRow.outcome
      BY DEF Importable, DuplicateRow
    <3> QED
      BY <3>1
  <2> QED
    BY <2>1, <2>2 DEF Outcome
<1> HIDE DEF candidates
<1>3. ASSUME NEW k \in Accepted, NEW r \in ledger, r.hash = ImportHash(rows[k]) PROVE FALSE
  <2>1. r.hash \in Candidates(rows[k]) /\ r.hash.version = "v3"
    BY <1>3, ImportedFacts
  <2> QED
    BY <1>2, <2>1 DEF Duplicate, MatchesPersisted
<1>4. ASSUME NEW j \in Accepted, NEW k \in Accepted, ImportHash(rows[j]) = ImportHash(rows[k])
      PROVE  j = k
  <2>1. j \in Int /\ k \in Int
    BY <1>1, <1>2, RowsTyped
  <2>2. ~(j < k) /\ ~(k < j)
    BY <1>2, <1>4 DEF Duplicate
  <2> QED
    BY <2>1, <2>2
<1>5. \A k \in Accepted : Imported(rows[k]).hash = ImportHash(rows[k])
  BY DEF Imported
<1>6. Unique(ledger \cup added)
  <2> SUFFICES ASSUME NEW r \in ledger \cup added, NEW q \in ledger \cup added,
                      r.hash = q.hash, r.hash # NoHash
               PROVE  r = q
    BY DEF Unique
  <2>1. CASE r \in ledger /\ q \in ledger
    BY <2>1 DEF LedgerInv, Unique
  <2>2. CASE r \in ledger /\ q \in added
    BY <1>3, <1>5, <2>2
  <2>3. CASE r \in added /\ q \in ledger
    BY <1>3, <1>5, <2>3
  <2>4. CASE r \in added /\ q \in added
    <3>1. PICK j \in Accepted : r = Imported(rows[j])
      BY <2>4
    <3>2. PICK k \in Accepted : q = Imported(rows[k])
      BY <2>4
    <3>3. j = k
      BY <1>4, <1>5, <3>1, <3>2
    <3> QED
      BY <3>1, <3>2, <3>3
  <2> QED
    BY <2>1, <2>2, <2>3, <2>4
<1>7. ASSUME NEW k \in Accepted PROVE Entered(Imported(rows[k]))
  <2> DEFINE row == rows[k]
             identity == Imported(row)
  <2>1. /\ Clean(row.description) /\ Clean(row.payee)
    BY <1>1, <1>2, RowsTyped
  <2>2. /\ row.description \in Seq(Characters) /\ row.payee \in Seq(Characters)
        /\ Display(row.description) = row.description /\ Display(row.payee) = row.payee
    BY <2>1, CleanDisplayed DEF Clean
  <2> HIDE DEF row
  <2>3. identity = [hash |-> ImportHash(row), purpose |-> row.purpose, row |-> row]
    BY DEF Imported
  <2> HIDE DEF identity
  <2>4. identity.hash = ImportHash(row) /\ identity.row = row /\ identity.purpose = row.purpose
    BY <2>3
  <2> QED
    BY <2>2, <2>3, <2>4, ImportedFacts DEF Entered, row, identity
<1> QED
  BY <1>1, <1>6, <1>7 DEF LedgerInv

\* An edit of a row keeps its hash.
LEMMA EditLedger ==
  ASSUME LedgerInv, NEW identity \in ledger, NEW purpose
  PROVE  LET edited == [identity EXCEPT !.purpose = purpose] IN
         /\ edited.hash = identity.hash /\ edited.row = identity.row
         /\ edited.purpose = purpose
         /\ Entered(edited) /\ Unique((ledger \ {identity}) \cup {edited})
<1> DEFINE edited == [identity EXCEPT !.purpose = purpose]
<1>1. /\ identity = [hash |-> identity.hash, purpose |-> identity.purpose, row |-> identity.row]
      /\ Entered(identity)
  BY DEF LedgerInv, Entered
<1>2. edited = [hash |-> identity.hash, purpose |-> purpose, row |-> identity.row]
  BY <1>1
<1> HIDE DEF edited
<1>3. edited.hash = identity.hash /\ edited.row = identity.row /\ edited.purpose = purpose
  BY <1>2
<1>4. Entered(edited)
  BY <1>1, <1>2, <1>3 DEF Entered
<1>5. Unique((ledger \ {identity}) \cup {edited})
  BY <1>3 DEF Unique, LedgerInv
<1> QED
  BY <1>3, <1>4, <1>5 DEF edited

LEMMA StepLedger == ProfilesInv /\ ScanInv /\ PreviewInv /\ LedgerInv /\ [Next]_vars => LedgerInv'
<1> SUFFICES ASSUME ProfilesInv, ScanInv, PreviewInv, LedgerInv, [Next]_vars PROVE LedgerInv'
  OBVIOUS
<1>1. CASE Confirm
  BY <1>1, ConfirmLedger
<1>2. CASE EditPurpose
  <2>1. PICK identity \in ledger, purpose \in Purposes :
          ledger' = (ledger \ {identity}) \cup {[identity EXCEPT !.purpose = purpose]}
    BY <1>2 DEF EditPurpose
  <2> DEFINE edited == [identity EXCEPT !.purpose = purpose]
  <2>2. Entered(edited) /\ Unique((ledger \ {identity}) \cup {edited})
    BY EditLedger
  <2> HIDE DEF edited
  <2>3. ledger' = (ledger \ {identity}) \cup {edited}
    BY <2>1 DEF edited
  <2> QED
    BY <2>2, <2>3 DEF LedgerInv
<1>3. CASE DeleteRow
  BY <1>3 DEF DeleteRow, LedgerInv, Unique
<1>4. CASE UNCHANGED ledger
  BY <1>4 DEF LedgerInv
<1> QED
  BY <1>1, <1>2, <1>3, <1>4
  DEF Next, vars, others, Profiles, Upload, ScanStep, Preview, StructureRefused, Abandon

LEMMA InitPage == Init => PageInv
<1> SUFFICES ASSUME Init PROVE PageInv
  OBVIOUS
<1>1. shown.id \in ProfileIds \cup {NoProfile} /\ shown.form = BlankForm
  BY DEF Init, BlankPage
<1>2. changes \in 0..MaxChanges
  BY MaxChangesAssumption DEF Init
<1> QED
  BY <1>1, <1>2 DEF Init, PageInv

LEMMA StepPage == PageInv /\ [Next]_vars => PageInv'
<1> SUFFICES ASSUME PageInv, [Next]_vars PROVE PageInv'
  OBVIOUS
<1>1. ASSUME NEW row PROVE DOMAIN FormOf(row) = DOMAIN BlankForm
  BY DEF FormOf, Filled, BlankForm
<1>2. BlankPage.id = NoProfile /\ BlankPage.form = BlankForm
  BY DEF BlankPage
<1>3. CASE Profiles
  <2>1. shown'.id \in ProfileIds \cup {NoProfile} /\ DOMAIN shown'.form = DOMAIN BlankForm
    <3>1. CASE ShowPage
      BY <1>1, <1>2, <3>1 DEF ShowPage, PageOf
    <3>2. CASE SaveProfile(Forms[scenario])
      BY <1>1, <3>2 DEF SaveProfile
    <3>3. CASE SaveProfileRefused(Forms[scenario])
      BY <1>2, <3>3 DEF SaveProfileRefused
    <3> QED
      BY <1>3, <3>1, <3>2, <3>3 DEF Profiles
  <2> QED
    BY <1>3, <2>1 DEF Profiles, parserVars, PageInv
<1>4. CASE Upload
  BY <1>2, <1>4 DEF Upload, Read, PageInv
<1>5. CASE ScanStep
  BY <1>5
  DEF ScanStep, Scan, others, profileVars, Scanning, EscapedQuote, CloseQuote, QuotedCharacter,
      OpenQuote, MalformedQuote, EndCell, EndRecord, PlainCharacter, EndOfFile, PageInv
<1>6. CASE Preview \/ StructureRefused \/ Confirm \/ Abandon
  BY <1>6 DEF Preview, StructureRefused, Confirm, Abandon, Leave, others, profileVars, PageInv
<1>7. CASE EditPurpose \/ DeleteRow
  BY <1>7, MaxChangesAssumption DEF EditPurpose, DeleteRow, Change, parserVars, profileVars, PageInv
<1>8. CASE UNCHANGED vars
  BY <1>8 DEF vars, parserVars, profileVars, PageInv
<1> QED
  BY <1>3, <1>4, <1>5, <1>6, <1>7, <1>8 DEF Next

\* What a row that may be imported is: the outcome tells what is wrong with the others.
LEMMA OutcomeFacts ==
  ASSUME NEW parsed, NEW k \in DOMAIN parsed
  PROVE  LET candidates == {j \in DOMAIN parsed : RowOutcome(parsed[j]) = Importable} IN
         /\ candidates = Sound(parsed)
         /\ Outcome(parsed, k) \in Readables
         /\ Outcome(parsed, k) \in {Importable, DuplicateRow} <=> k \in candidates
         /\ Outcome(parsed, k) = DuplicateRow <=> k \in candidates /\ Duplicate(parsed, candidates, k)
         /\ Outcome(parsed, k) = Importable
              <=> k \in candidates /\ ~Duplicate(parsed, candidates, k)
<1> DEFINE candidates == {j \in DOMAIN parsed : RowOutcome(parsed[j]) = Importable}
<1>1. /\ Importable # DuplicateRow /\ Importable # Ignored /\ DuplicateRow # Ignored
      /\ \A reason : Importable # Invalid(reason) /\ DuplicateRow # Invalid(reason)
  <2>1. /\ Importable.outcome = "importable" /\ DuplicateRow.outcome = "duplicate"
        /\ Ignored.outcome = "ignored" /\ \A reason : Invalid(reason).outcome = "invalid"
    BY DEF Importable, DuplicateRow, Ignored, Invalid
  <2> QED
    BY <2>1
<1>2. ASSUME NEW row
      PROVE  /\ RowOutcome(row) = Importable <=> Wrong(row) = {} /\ row.amount = <<Negative>>
             /\ \/ RowOutcome(row) \in {Importable, Ignored}
                \/ \E reason \in {"invalid-date", "invalid-amount", "missing-description"} :
                     RowOutcome(row) = Invalid(reason)
  <2>1. CASE Wrong(row) = {}
    BY <1>1, <2>1, OutcomeTold
  <2>2. CASE Wrong(row) # {}
    <3>1. RowOutcome(row) \in {Invalid(reason) : reason \in Wrong(row)}
      BY <2>2, OutcomeTold
    <3>2. Wrong(row) \in SUBSET {"invalid-date", "invalid-amount", "missing-description"}
      BY DEF Wrong
    <3> QED
      BY <1>1, <2>2, <3>1, <3>2
  <2> QED
    BY <2>1, <2>2
<1>3. candidates = Sound(parsed)
  BY <1>2 DEF Sound
<1>4. {Importable, DuplicateRow, Ignored} \cup
        {Invalid(reason) : reason \in {"invalid-date", "invalid-amount", "missing-description"}}
          \in SUBSET Readables
  BY DEF Readables, Importable, DuplicateRow, Ignored, Invalid
<1>5. RowOutcome(parsed[k]) # DuplicateRow /\ RowOutcome(parsed[k]) \in Readables
  BY <1>1, <1>2, <1>4
<1>6. /\ Outcome(parsed, k) = IF k \in candidates /\ Duplicate(parsed, candidates, k)
                               THEN DuplicateRow ELSE RowOutcome(parsed[k])
      /\ k \in candidates <=> RowOutcome(parsed[k]) = Importable
  BY DEF Outcome
<1> HIDE DEF candidates
<1>7. /\ Outcome(parsed, k) \in Readables
      /\ Outcome(parsed, k) \in {Importable, DuplicateRow} <=> k \in candidates
      /\ Outcome(parsed, k) = DuplicateRow <=> k \in candidates /\ Duplicate(parsed, candidates, k)
      /\ Outcome(parsed, k) = Importable <=> k \in candidates /\ ~Duplicate(parsed, candidates, k)
  BY <1>1, <1>4, <1>5, <1>6
<1> QED
  BY <1>3, <1>7 DEF candidates

\* The state of an upload, its profiles and the ledger are what the code takes them for.
THEOREM TypeCorrect == Spec => []TypeOK
<1>1. Init => ProfilesInv /\ ScanInv /\ PreviewInv /\ LedgerInv /\ PageInv
  BY InitProfiles, InitScan, InitPreview, InitLedger, InitPage
<1>2. /\ ProfilesInv /\ ScanInv /\ PreviewInv /\ LedgerInv /\ PageInv
      /\ [Next]_vars
      => (ProfilesInv /\ ScanInv /\ PreviewInv /\ LedgerInv /\ PageInv)'
  BY StepProfiles, StepScan, StepPreview, StepLedger, StepPage
<1>3. ProfilesInv /\ ScanInv /\ PreviewInv /\ LedgerInv /\ PageInv => TypeOK
  <2> SUFFICES ASSUME ProfilesInv, ScanInv, PreviewInv, LedgerInv, PageInv PROVE TypeOK
    OBVIOUS
  <2>1. /\ scan.state \in {"plain", "quoted", "after-quote"}
        /\ scan.next \in 1..(Len(content) + 1)
        /\ \A p \in ProfileIds : profiles[p] # NoProfile => Readable(profiles[p])
        /\ Unique(ledger)
    BY DEF ScanInv, ProfilesInv, Kept, LedgerInv
  <2>2. /\ Len(rows) = Len(outcomes)
        /\ \A k \in DOMAIN outcomes : outcomes[k] \in Readables
        /\ \A k \in Accepted : ReadableRow(rows[k])
    <3>1. CASE phase # "preview"
      <4>1. rows = <<>> /\ outcomes = <<>> /\ DOMAIN outcomes = {}
        BY <3>1 DEF PreviewInv
      <4> QED
        BY <4>1 DEF Accepted
    <3>2. CASE phase = "preview"
      <4> DEFINE n == Len(scan.records) - 1
      <4>1. /\ n \in Nat /\ DOMAIN rows = 1..n /\ rows = [k \in 1..n |-> rows[k]]
            /\ outcomes = [k \in 1..n |-> Outcome(rows, k)]
        BY <3>2, RowsTyped
      <4> HIDE DEF n
      <4>2. Len(rows) = n /\ Len(outcomes) = n
        BY <4>1
      <4>3. \A k \in DOMAIN outcomes : outcomes[k] \in Readables
        BY <4>1, OutcomeFacts
      <4>4. ASSUME NEW k \in Accepted PROVE ReadableRow(rows[k])
        <5>1. k \in DOMAIN rows /\ Outcome(rows, k) = Importable
          BY <4>1 DEF Accepted
        <5>2. Wrong(rows[k]) = {} /\ rows[k].amount = <<Negative>>
          BY <5>1, OutcomeFacts DEF Sound
        <5>3. rows[k].date = <<DateWord>> /\ rows[k].description # <<>>
          BY <5>2 DEF Wrong
        <5>4. <<DateWord>> # <<>>
          OBVIOUS
        <5> QED
          BY <5>2, <5>3, <5>4 DEF ReadableRow
      <4> QED
        BY <4>2, <4>3, <4>4
    <3> QED
      BY <3>1, <3>2
  <2> QED
    BY <2>1, <2>2 DEF TypeOK, PageInv
<1> QED
  BY <1>1, <1>2, <1>3, PTL DEF Spec

-----------------------------------------------------------------------------
(* Duplicates.                                                             *)

\* Two rows have the same hash exactly when the fields that it covers are the same.
LEMMA SameHash ==
  ASSUME NEW row, NEW other
  PROVE  /\ ImportHash(row) = ImportHash(other) <=> Same(row, other)
         /\ SecondHash(row) = SecondHash(other) <=> SameBut(row, other)
         /\ Clean(row.description) /\ Clean(row.payee)
              /\ Clean(other.description) /\ Clean(other.payee)
            => (LegacyHash(row) = LegacyHash(other) <=> SameLegacy(row, other))
<1>1. ASSUME NEW v, NEW s, NEW t
      PROVE  [version |-> v, text |-> s] = [version |-> v, text |-> t] <=> s = t
  <2>1. [version |-> v, text |-> s].text = s /\ [version |-> v, text |-> t].text = t
    OBVIOUS
  <2> QED
    BY <2>1
<1>2. ASSUME NEW a, NEW b, NEW c, NEW d, NEW e, NEW f, NEW g, NEW h, NEW i, NEW j
      PROVE  /\ <<a, b, c, d, e>> = <<f, g, h, i, j>>
                  <=> a = f /\ b = g /\ c = h /\ d = i /\ e = j
             /\ <<a, b, c, d>> = <<f, g, h, i>> <=> a = f /\ b = g /\ c = h /\ d = i
             /\ <<a, b, c>> = <<f, g, h>> <=> a = f /\ b = g /\ c = h
  OBVIOUS
<1>3. ImportHash(row) = ImportHash(other) <=> Same(row, other)
  BY <1>1, <1>2 DEF ImportHash, Same, SameBut
<1>4. SecondHash(row) = SecondHash(other) <=> SameBut(row, other)
  BY <1>1, <1>2 DEF SecondHash, Historical, SameBut
<1>5. ASSUME Clean(row.description), Clean(row.payee),
             Clean(other.description), Clean(other.payee)
      PROVE  LegacyHash(row) = LegacyHash(other) <=> SameLegacy(row, other)
  <2>1. /\ LegacyText(row.description \o <<Bar>> \o row.payee)
             = LegacyText(row.description) \o <<Bar>> \o LegacyText(row.payee)
        /\ LegacyText(other.description \o <<Bar>> \o other.payee)
             = LegacyText(other.description) \o <<Bar>> \o LegacyText(other.payee)
    BY <1>5, JoinedText
  <2> QED
    BY <1>1, <1>2, <2>1 DEF LegacyHash, SameLegacy
<1> QED
  BY <1>3, <1>4, <1>5

\* The versions of a hash.
LEMMA Versions ==
  ASSUME NEW row, NEW other
  PROVE  /\ ImportHash(row) \in Candidates(other) <=> ImportHash(row) = ImportHash(other)
         /\ SecondHash(row) \in Candidates(other) <=> SecondHash(row) = SecondHash(other)
         /\ LegacyHash(row) \in Candidates(other) <=> LegacyHash(row) = LegacyHash(other)
         /\ NoHash \notin Candidates(other)
<1>1. ASSUME NEW r
      PROVE  /\ ImportHash(r).version = "v3" /\ SecondHash(r).version = "v2"
             /\ LegacyHash(r).version = "v1" /\ NoHash.version = "none"
  BY DEF ImportHash, SecondHash, LegacyHash, NoHash
<1>2. /\ ImportHash(row) \notin {SecondHash(other), LegacyHash(other)}
      /\ SecondHash(row) \notin {ImportHash(other), LegacyHash(other)}
      /\ LegacyHash(row) \notin {ImportHash(other), SecondHash(other)}
      /\ NoHash \notin {ImportHash(other), SecondHash(other), LegacyHash(other)}
  BY <1>1
<1> QED
  BY <1>2 DEF Candidates

\* A row of the ledger that is found for a row is one that has its fields.
LEMMA MatchExplained ==
  ASSUME NEW row, Clean(row.description), Clean(row.payee), NEW identity, Entered(identity)
  PROVE  MatchesPersisted(row, identity) <=> Explains(identity, row)
<1> DEFINE was == identity.row
           hash == identity.hash
<1>1. hash \in {NoHash, ImportHash(was), SecondHash(was), LegacyHash(was)}
  BY DEF Entered, Candidates
<1>2. Clean(was.description) /\ Clean(was.payee)
  BY DisplayClean DEF Entered
<1> HIDE DEF was, hash
<1>3. /\ ImportHash(was).version = "v3" /\ SecondHash(was).version = "v2"
      /\ LegacyHash(was).version = "v1" /\ NoHash.version = "none"
  BY DEF ImportHash, SecondHash, LegacyHash, NoHash
<1>4. /\ Same(row, was) <=> Same(was, row)
      /\ SameBut(row, was) <=> SameBut(was, row)
      /\ SameLegacy(row, was) <=> SameLegacy(was, row)
  BY DEF Same, SameBut, SameLegacy
<1>5. CASE hash = ImportHash(was)
  <2>1. hash \in Candidates(row) <=> Same(row, was)
    BY <1>4, <1>5, SameHash, Versions
  <2> QED
    BY <1>3, <1>5, <2>1 DEF MatchesPersisted, Explains, hash, was
<1>6. CASE hash = SecondHash(was)
  <2>1. hash \in Candidates(row) <=> SameBut(row, was)
    BY <1>4, <1>6, SameHash, Versions
  <2> QED
    BY <1>3, <1>6, <2>1 DEF MatchesPersisted, Explains, hash, was
<1>7. CASE hash = LegacyHash(was)
  <2>1. hash \in Candidates(row) <=> SameLegacy(row, was)
    BY <1>2, <1>4, <1>7, SameHash, Versions
  <2> QED
    BY <1>3, <1>7, <2>1 DEF MatchesPersisted, Explains, hash, was
<1>8. CASE hash = NoHash
  <2>1. hash \notin Candidates(row)
    BY <1>8, Versions
  <2> QED
    BY <1>3, <1>8, <2>1 DEF MatchesPersisted, Explains, hash, was
<1> QED
  BY <1>1, <1>5, <1>6, <1>7, <1>8

\* A row is a duplicate exactly when the account or an earlier row of its file has the
\* fields that count, whatever release imported the rows of the account, and however their
\* purposes were edited.
THEOREM DuplicatesTold == Spec => []DuplicatesExact
<1>1. Init => ProfilesInv /\ ScanInv /\ PreviewInv /\ LedgerInv
  BY InitProfiles, InitScan, InitPreview, InitLedger
<1>2. /\ ProfilesInv /\ ScanInv /\ PreviewInv /\ LedgerInv
      /\ [Next]_vars
      => (ProfilesInv /\ ScanInv /\ PreviewInv /\ LedgerInv)'
  BY StepProfiles, StepScan, StepPreview, StepLedger
<1>3. ScanInv /\ PreviewInv /\ LedgerInv => DuplicatesExact
  <2> SUFFICES ASSUME ScanInv, PreviewInv, LedgerInv, phase = "preview", NEW k \in DOMAIN rows,
                      outcomes[k] \in {Importable, DuplicateRow}
               PROVE  outcomes[k] = DuplicateRow <=>
                        \/ \E identity \in ledger : Explains(identity, rows[k])
                        \/ \E j \in 1..(k - 1) : /\ outcomes[j] \in {Importable, DuplicateRow}
                                                 /\ Same(rows[j], rows[k])
    BY DEF DuplicatesExact
  <2> DEFINE n == Len(scan.records) - 1
             candidates == {j \in DOMAIN rows : RowOutcome(rows[j]) = Importable}
  <2>1. /\ n \in Nat /\ DOMAIN rows = 1..n /\ k \in 1..n
        /\ Clean(rows[k].description) /\ Clean(rows[k].payee)
        /\ \A j \in 1..n : outcomes[j] = Outcome(rows, j)
    BY RowsTyped
  <2>2. /\ candidates \in SUBSET (1..n)
        /\ \A j \in 1..n : outcomes[j] \in {Importable, DuplicateRow} <=> j \in candidates
        /\ outcomes[k] = DuplicateRow <=> Duplicate(rows, candidates, k)
    BY <2>1, OutcomeFacts
  <2>3. (\E identity \in ledger : MatchesPersisted(rows[k], identity))
          <=> \E identity \in ledger : Explains(identity, rows[k])
    BY <2>1, MatchExplained DEF LedgerInv
  <2>4. (\E j \in candidates : j < k /\ ImportHash(rows[j]) = ImportHash(rows[k]))
          <=> \E j \in 1..(k - 1) : /\ outcomes[j] \in {Importable, DuplicateRow}
                                    /\ Same(rows[j], rows[k])
    <3>1. \A j : j \in candidates /\ j < k
                   <=> j \in 1..(k - 1) /\ outcomes[j] \in {Importable, DuplicateRow}
      <4>1. k \in Int /\ n \in Int /\ k <= n /\ \A j \in candidates : j \in 1..n
        BY <2>1, <2>2
      <4> HIDE DEF n, candidates
      <4>2. ASSUME NEW j \in candidates, j < k
            PROVE  j \in 1..(k - 1) /\ outcomes[j] \in {Importable, DuplicateRow}
        BY <2>2, <4>1, <4>2
      <4>3. ASSUME NEW j \in 1..(k - 1), outcomes[j] \in {Importable, DuplicateRow}
            PROVE  j \in candidates /\ j < k
        <5>1. j \in 1..n /\ j < k
          BY <4>1
        <5> QED
          BY <2>2, <4>3, <5>1
      <4> QED
        BY <4>2, <4>3, Zenon
    <3>2. \A j : ImportHash(rows[j]) = ImportHash(rows[k]) <=> Same(rows[j], rows[k])
      BY SameHash
    <3> HIDE DEF candidates
    <3> QED
      BY <3>1, <3>2
  <2> QED
    BY <2>2, <2>3, <2>4 DEF Duplicate
<1> QED
  BY <1>1, <1>2, <1>3, PTL DEF Spec

-----------------------------------------------------------------------------
(* Quotes, cells and records of a text.                                    *)

LEMMA EvenFacts ==
  /\ Even({})
  /\ \A S, x : IsFiniteSet(S) /\ x \notin S => (Even(S \cup {x}) <=> ~Even(S))
<1>1. Even({})
  BY FS_EmptySet DEF Even
<1>2. ASSUME NEW S, NEW x, IsFiniteSet(S), x \notin S PROVE Even(S \cup {x}) <=> ~Even(S)
  <2>1. Cardinality(S) \in Nat /\ Cardinality(S \cup {x}) = Cardinality(S) + 1
    BY <1>2, FS_CardinalityType, FS_AddElement
  <2>2. \A n \in Nat : (n + 1) % 2 = 0 <=> n % 2 # 0
    OBVIOUS
  <2> QED
    BY <2>1, <2>2 DEF Even
<1> QED
  BY <1>1, <1>2

\* Part of a text, and one more symbol of it.
LEMMA Segment ==
  ASSUME NEW X, NEW s \in Seq(X), NEW a \in 1..(Len(s) + 1), NEW b \in 0..Len(s), a <= b + 1
  PROVE  /\ SubSeq(s, a, b) \in Seq(X) /\ Len(SubSeq(s, a, b)) = b - a + 1
         /\ \A i \in 1..(b - a + 1) : SubSeq(s, a, b)[i] = s[a + i - 1]
         /\ b < Len(s) => SubSeq(s, a, b + 1) = Append(SubSeq(s, a, b), s[b + 1])
<1> DEFINE t == SubSeq(s, a, b)
           u == SubSeq(s, a, b + 1)
<1>1. Len(s) \in Nat /\ a \in Int /\ b \in Int /\ \A i \in a..b : s[i] \in X
  OBVIOUS
<1>2. /\ t \in Seq(X) /\ Len(t) = b - a + 1
      /\ \A i \in 1..(b - a + 1) : t[i] = s[a + i - 1]
  BY <1>1, SubSeqProperties
<1>3. ASSUME b < Len(s) PROVE u = Append(t, s[b + 1])
  <2>1. b + 1 \in Int /\ s[b + 1] \in X /\ \A i \in a..(b + 1) : s[i] \in X
    BY <1>1, <1>3
  <2>2. /\ u \in Seq(X) /\ Len(u) = b + 1 - a + 1
        /\ \A i \in 1..(b + 1 - a + 1) : u[i] = s[a + i - 1]
    BY <1>1, <2>1, SubSeqProperties
  <2> HIDE DEF t, u
  <2>3. /\ Append(t, s[b + 1]) \in Seq(X) /\ Len(Append(t, s[b + 1])) = Len(t) + 1
        /\ \A i \in 1..Len(t) : Append(t, s[b + 1])[i] = t[i]
        /\ Append(t, s[b + 1])[Len(t) + 1] = s[b + 1]
    BY <1>2, <2>1, AppendProperties
  <2>4. ASSUME NEW i \in 1..Len(u) PROVE u[i] = Append(t, s[b + 1])[i]
    <3>1. CASE i \in 1..Len(t)
      BY <1>1, <1>2, <2>2, <2>3, <3>1
    <3>2. CASE i = Len(t) + 1
      <4>1. u[i] = s[a + i - 1] /\ a + i - 1 = b + 1
        BY <1>1, <1>2, <2>2, <3>2
      <4> QED
        BY <2>3, <3>2, <4>1
    <3> QED
      BY <1>1, <1>2, <2>2, <3>1, <3>2
  <2>5. Len(u) = Len(Append(t, s[b + 1]))
    BY <1>1, <1>2, <2>2, <2>3
  <2> QED
    BY <2>2, <2>3, <2>4, <2>5, SeqEqual
<1> QED
  BY <1>2, <1>3

\* Before the first position there is no quote, and a quote changes the parity.
LEMMA ParityStep ==
  ASSUME NEW X, NEW s \in Seq(X)
  PROVE  /\ Quotes(s) \in SUBSET (1..Len(s))
         /\ Even({i \in Quotes(s) : i < 1})
         /\ \A p \in 1..Len(s) :
              /\ Even({i \in Quotes(s) : i < p + 1})
                   <=> IF s[p] = Quote THEN ~Even({i \in Quotes(s) : i < p})
                       ELSE Even({i \in Quotes(s) : i < p})
              /\ p \in Outside(s) <=> Even({i \in Quotes(s) : i < p})
<1> DEFINE Q == Quotes(s)
<1>1. DOMAIN s = 1..Len(s) /\ Len(s) \in Nat
  OBVIOUS
<1>2. Q \in SUBSET (1..Len(s)) /\ \A i \in 1..Len(s) : i \in Q <=> s[i] = Quote
  BY <1>1 DEF Quotes
<1>6. \A i \in Q : i \in 1..Len(s) /\ i \in Int /\ i >= 1
  BY <1>1, <1>2
<1> HIDE DEF Q
<1>3. {i \in Q : i < 1} = {}
  BY <1>6
<1>4. ASSUME NEW p \in 1..Len(s)
      PROVE  Even({i \in Q : i < p + 1})
               <=> IF s[p] = Quote THEN ~Even({i \in Q : i < p}) ELSE Even({i \in Q : i < p})
  <2> DEFINE B == {i \in Q : i < p}
  <2>1. p \in Int /\ \A i \in Q : i \in Int
    BY <1>1, <1>6
  <2>2. IsFiniteSet(B) /\ p \notin B
    <3>1. B \in SUBSET (1..Len(s))
      BY <1>6
    <3>2. IsFiniteSet(1..Len(s))
      BY <1>1, FS_Interval
    <3>3. p \notin B
      BY <2>1
    <3> HIDE DEF B
    <3> QED
      BY <3>1, <3>2, <3>3, FS_Subset
  <2>3. CASE s[p] = Quote
    <3>1. {i \in Q : i < p + 1} = B \cup {p}
      <4>1. p \in Q
        BY <1>2, <2>3
      <4>2. \A i \in Q : i < p + 1 <=> i < p \/ i = p
        BY <2>1
      <4> QED
        BY <2>1, <4>1, <4>2
    <3> HIDE DEF B
    <3>2. Even(B \cup {p}) <=> ~Even(B)
      BY <2>2, EvenFacts
    <3> QED
      BY <2>3, <3>1, <3>2 DEF B
  <2>4. CASE s[p] # Quote
    <3>1. {i \in Q : i < p + 1} = B
      <4>1. p \notin Q
        BY <1>2, <2>4
      <4>2. \A i \in Q : i < p + 1 <=> i < p
        BY <2>1, <4>1
      <4> QED
        BY <4>2
    <3> QED
      BY <2>4, <3>1
  <2> QED
    BY <2>3, <2>4
<1>5. \A p \in 1..Len(s) : p \in Outside(s) <=> Even({i \in Q : i < p})
  BY <1>1 DEF Outside, Q
<1> QED
  BY <1>2, <1>3, <1>4, <1>5, EvenFacts DEF Q

\* What cuts a text is no quote, and no delimiter ends a line.
LEMMA CutFacts ==
  ASSUME NEW X, NEW s \in Seq(X), NEW delimiter \in Delimiters
  PROVE  /\ Quote \notin {Lf, Cr, delimiter} /\ delimiter \notin {Lf, Cr} /\ Lf # Cr
         /\ Breaks(s) \in SUBSET Separators(s, delimiter)
         /\ Separators(s, delimiter) \in SUBSET (1..Len(s))
         /\ \A p \in 1..Len(s) :
              /\ p \in Breaks(s) <=> /\ p \in Outside(s) /\ s[p] \in {Lf, Cr}
                                     /\ ~(s[p] = Lf /\ p > 1 /\ s[p - 1] = Cr)
              /\ p \in Separators(s, delimiter)
                   <=> p \in Breaks(s) \/ (p \in Outside(s) /\ s[p] = delimiter)
<1>1. Quote \notin {Lf, Cr, delimiter}
  BY QuoteAssumption DEF White
<1>2. delimiter \notin {Lf, Cr} /\ Lf # Cr
  BY CharactersAssumption DEF White, Delimiters
<1>3. Outside(s) \in SUBSET (1..Len(s))
  <2>1. DOMAIN s = 1..Len(s)
    OBVIOUS
  <2> QED
    BY <2>1 DEF Outside
<1>4. Breaks(s) \in SUBSET Outside(s)
  BY DEF Breaks
<1>5. Separators(s, delimiter) \in SUBSET Outside(s) /\ Breaks(s) \in SUBSET Separators(s, delimiter)
  BY <1>4 DEF Separators
<1>6. ASSUME NEW p \in 1..Len(s)
      PROVE  /\ p \in Breaks(s) <=> /\ p \in Outside(s) /\ s[p] \in {Lf, Cr}
                                    /\ ~(s[p] = Lf /\ p > 1 /\ s[p - 1] = Cr)
             /\ p \in Separators(s, delimiter)
                  <=> p \in Breaks(s) \/ (p \in Outside(s) /\ s[p] = delimiter)
  <2>1. p \in Breaks(s) <=> /\ p \in Outside(s) /\ s[p] \in {Lf, Cr}
                            /\ ~(s[p] = Lf /\ p > 1 /\ s[p - 1] = Cr)
    BY DEF Breaks
  <2>2. p \in Separators(s, delimiter)
          <=> p \in Breaks(s) \/ (p \in Outside(s) /\ s[p] = delimiter)
    BY DEF Separators
  <2> QED
    BY <2>1, <2>2
<1> QED
  BY <1>1, <1>2, <1>3, <1>5, <1>6

\* Where the cell or record begins that a position is in.
LEMMA AfterFacts ==
  ASSUME NEW X, NEW s \in Seq(X), NEW cuts \in SUBSET (1..Len(s)),
         NEW p \in 1..(Len(s) + 1), NEW e \in 1..(Len(s) + 1), p <= e
  PROVE  /\ After(s, cuts, p) \in Nat \ {0}
         /\ (\A i \in p..(e - 1) : i \notin cuts) => After(s, cuts, e) = After(s, cuts, p)
         /\ p \in cuts /\ (\A i \in (p + 1)..(e - 1) : i \notin cuts) /\ p < e =>
              After(s, cuts, e)
                = IF p < Len(s) /\ s[p] = Cr /\ s[p + 1] = Lf THEN p + 2 ELSE p + 1
<1> DEFINE before(x) == {i \in cuts : i < x}
<1>1. Len(s) \in Nat /\ p \in Int /\ e \in Int /\ \A i \in cuts : i \in 1..Len(s) /\ i \in Int
  OBVIOUS
<1>2. ASSUME NEW x, before(x) # {}
      PROVE  Max(before(x)) \in before(x) /\ \A y \in before(x) : Max(before(x)) >= y
  <2>1. before(x) \in SUBSET (1..Len(s))
    OBVIOUS
  <2> HIDE DEF before
  <2> QED
    BY <1>1, <1>2, <2>1, Bounds
<1>3. After(s, cuts, p) \in Nat \ {0}
  <2>1. CASE before(p) = {}
    BY <2>1 DEF After
  <2>2. CASE before(p) # {}
    <3>1. Max(before(p)) \in 1..Len(s)
      BY <1>2, <2>2
    <3> QED
      BY <1>1, <2>2, <3>1 DEF After
  <2> QED
    BY <2>1, <2>2
<1>4. ASSUME \A i \in p..(e - 1) : i \notin cuts PROVE After(s, cuts, e) = After(s, cuts, p)
  <2>1. ASSUME NEW i \in cuts PROVE i < e <=> i < p
    BY <1>1, <1>4
  <2>2. before(e) = before(p)
    BY <2>1
  <2> QED
    BY <2>2 DEF After
<1>5. ASSUME p \in cuts, \A i \in (p + 1)..(e - 1) : i \notin cuts, p < e
      PROVE  After(s, cuts, e)
               = IF p < Len(s) /\ s[p] = Cr /\ s[p + 1] = Lf THEN p + 2 ELSE p + 1
  <2>1. p \in before(e)
    BY <1>5
  <2>2. \A i \in before(e) : i <= p
    BY <1>1, <1>5
  <2>3. Max(before(e)) = p
    <3>1. Max(before(e)) \in before(e) /\ Max(before(e)) >= p
      BY <1>2, <2>1
    <3>2. Max(before(e)) <= p /\ Max(before(e)) \in Int
      BY <1>1, <2>2, <3>1
    <3> QED
      BY <1>1, <3>1, <3>2
  <2> QED
    BY <2>1, <2>3 DEF After
<1> QED
  BY <1>3, <1>4, <1>5

\* The values of a function in the order of a set of numbers.
LEMMA ListEmpty ==
  ASSUME NEW f
  PROVE  Mapping(InOrder({}), f) = <<>>
BY InOrderEmpty DEF Mapping

LEMMA ListAppend ==
  ASSUME NEW n \in Nat, NEW S \in SUBSET (1..n), NEW m \in Nat, \A x \in S : x < m, NEW f
  PROVE  Mapping(InOrder(S \cup {m}), f) = Append(Mapping(InOrder(S), f), f[m])
<1> DEFINE e == InOrder(S)
<1>1. S \in SUBSET Nat /\ IsFiniteSet(S)
  <2>1. \A i \in 1..n : i \in Nat
    OBVIOUS
  <2>2. IsFiniteSet(S)
    BY InOrderLists
  <2> QED
    BY <2>1, <2>2
<1>2. InOrder(S \cup {m}) = Append(e, m)
  BY <1>1, InOrderAppend
<1>3. e \in Seq(S)
  BY InOrderLists DEF Listed
<1> HIDE DEF e
<1>4. Len(e) \in Nat /\ e \in Seq(S \cup {m}) /\ DOMAIN e = 1..Len(e) /\ m \in S \cup {m}
  BY <1>3
<1> DEFINE d == Append(e, m)
           k == Len(e)
<1>5. /\ DOMAIN d = 1..(k + 1) /\ d[k + 1] = m /\ \A i \in 1..k : d[i] = e[i]
  BY <1>4
<1>6. Mapping(d, f) = [i \in 1..(k + 1) |-> IF i = k + 1 THEN f[m] ELSE f[e[i]]]
  <2> HIDE DEF d, k
  <2>1. Mapping(d, f) = [i \in 1..(k + 1) |-> f[d[i]]]
    BY <1>5 DEF Mapping
  <2>2. \A i \in 1..(k + 1) : f[d[i]] = IF i = k + 1 THEN f[m] ELSE f[e[i]]
    <3>1. k \in Nat
      BY <1>4 DEF k
    <3>2. \A i \in 1..(k + 1) : i = k + 1 \/ i \in 1..k
      BY <3>1
    <3> QED
      BY <1>5, <3>2
  <2> QED
    BY <2>1, <2>2
<1>7. Mapping(e, f) = [i \in 1..k |-> f[e[i]]] /\ k \in Nat
  BY <1>4 DEF Mapping
<1> HIDE DEF d, k
<1> DEFINE g == [i \in 1..k |-> f[e[i]]]
           Y == {f[e[i]] : i \in 1..k} \cup {f[m]}
<1>8. g \in Seq(Y) /\ Len(g) = k /\ f[m] \in Y /\ \A i \in 1..k : g[i] = f[e[i]]
  BY <1>7
<1>9. Append(g, f[m]) = [i \in 1..(k + 1) |-> IF i = k + 1 THEN f[m] ELSE f[e[i]]]
  <2> HIDE DEF g, Y
  <2>1. Append(g, f[m]) = [i \in 1..(Len(g) + 1) |-> IF i = Len(g) + 1 THEN f[m] ELSE g[i]]
    BY <1>8
  <2>2. \A i \in 1..(k + 1) : i # k + 1 => i \in 1..k
    BY <1>7
  <2> QED
    BY <1>7, <1>8, <2>1, <2>2
<1> QED
  BY <1>2, <1>6, <1>7, <1>9 DEF d, e

LEMMA ListSame ==
  ASSUME NEW n \in Nat, NEW S \in SUBSET (1..n), NEW f, NEW g, \A x \in S : f[x] = g[x]
  PROVE  Mapping(InOrder(S), f) = Mapping(InOrder(S), g)
<1> DEFINE e == InOrder(S)
<1>1. e \in Seq(S)
  BY InOrderLists DEF Listed
<1> HIDE DEF e
<1>2. \A i \in DOMAIN e : e[i] \in S
  BY <1>1
<1> QED
  BY <1>2 DEF Mapping, e

\* What is kept of the text between quotes.
Left(inner) == {i \in DOMAIN inner : i \notin Quotes(inner) \/ i \in Outside(inner)}

\* One more symbol, that is no quote.
LEMMA UnquotedAppend ==
  ASSUME NEW X, NEW t \in Seq(X), Paired(t), NEW x \in X, x # Quote
  PROVE  Paired(Append(t, x)) /\ Unquoted(Append(t, x)) = Append(Unquoted(t), x)
<1> DEFINE u == Append(t, x)
           m == Len(t)
<1>1. /\ m \in Nat /\ Len(u) = m + 1 /\ u \in Seq(X) /\ DOMAIN t = 1..m /\ DOMAIN u = 1..(m + 1)
      /\ \A i \in 1..m : u[i] = t[i]
      /\ u[m + 1] = x
  BY AppendProperties
<1>2. Unquoted(t) = Mapping(InOrder(Left(t)), t) /\ Unquoted(u) = Mapping(InOrder(Left(u)), u)
  BY DEF Unquoted, Left
<1> HIDE DEF u, m
<1>3. Quotes(u) = Quotes(t) /\ Quotes(t) \in SUBSET (1..m)
  <2>1. \A i \in 1..(m + 1) : u[i] = Quote <=> i \in 1..m /\ t[i] = Quote
    <3>1. \A i \in 1..(m + 1) : i = m + 1 \/ i \in 1..m
      BY <1>1
    <3> QED
      BY <1>1, <3>1
  <2> QED
    BY <1>1, <2>1 DEF Quotes
<1>4. \A i \in 1..m : i \in Outside(u) <=> i \in Outside(t)
  BY <1>1, <1>3 DEF Outside
<1>5. Left(u) = Left(t) \cup {m + 1} /\ Left(t) \in SUBSET (1..m) /\ \A i \in Left(t) : i < m + 1
  <2>1. m + 1 \notin Quotes(u) /\ \A i \in 1..(m + 1) : i = m + 1 \/ i \in 1..m
    BY <1>1, <1>3
  <2>2. Left(t) \in SUBSET (1..m)
    BY <1>1 DEF Left
  <2>3. Left(u) = Left(t) \cup {m + 1}
    BY <1>1, <1>3, <1>4, <2>1 DEF Left
  <2> QED
    BY <1>1, <2>2, <2>3
<1>6. Unquoted(u) = Append(Mapping(InOrder(Left(t)), u), u[m + 1])
  <2>1. m + 1 \in Nat
    BY <1>1
  <2>2. Mapping(InOrder(Left(t) \cup {m + 1}), u)
          = Append(Mapping(InOrder(Left(t)), u), u[m + 1])
    BY <1>1, <1>5, <2>1, ListAppend, Zenon
  <2> QED
    BY <1>2, <1>5, <2>2
<1>7. Mapping(InOrder(Left(t)), u) = Mapping(InOrder(Left(t)), t)
  BY <1>1, <1>5, ListSame
<1>8. Paired(u)
  BY <1>3, <1>4 DEF Paired
<1> QED
  BY <1>1, <1>2, <1>6, <1>7, <1>8 DEF u

\* A doubled quote is one.
LEMMA UnquotedDouble ==
  ASSUME NEW X, NEW t \in Seq(X), Paired(t), Quote \in X
  PROVE  LET u == Append(Append(t, Quote), Quote) IN
         Paired(u) /\ Unquoted(u) = Append(Unquoted(t), Quote)
<1> DEFINE v == Append(t, Quote)
           u == Append(v, Quote)
           m == Len(t)
<1>1. /\ m \in Nat /\ Len(u) = m + 2 /\ u \in Seq(X) /\ DOMAIN t = 1..m /\ DOMAIN u = 1..(m + 2)
      /\ \A i \in 1..m : u[i] = t[i]
      /\ u[m + 1] = Quote /\ u[m + 2] = Quote
  <2>1. /\ v \in Seq(X) /\ Len(v) = m + 1 /\ m \in Nat /\ DOMAIN t = 1..m
        /\ \A i \in 1..m : v[i] = t[i]
        /\ v[m + 1] = Quote
    BY AppendProperties
  <2> HIDE DEF v
  <2>2. /\ u \in Seq(X) /\ Len(u) = m + 2 /\ \A i \in 1..(m + 1) : u[i] = v[i]
        /\ u[m + 2] = Quote
    BY <2>1, AppendProperties
  <2> HIDE DEF u, m
  <2> QED
    BY <2>1, <2>2
<1>2. Unquoted(t) = Mapping(InOrder(Left(t)), t) /\ Unquoted(u) = Mapping(InOrder(Left(u)), u)
  BY DEF Unquoted, Left
<1> HIDE DEF u, v, m
<1> DEFINE Q == Quotes(t)
<1>9. \A i \in 1..(m + 2) : i = m + 2 \/ i = m + 1 \/ i \in 1..m
  BY <1>1
<1>3. Quotes(u) = Q \cup {m + 1, m + 2} /\ Q \in SUBSET (1..m)
  <2>1. \A i \in 1..(m + 2) : u[i] = Quote <=> i = m + 1 \/ i = m + 2 \/ (i \in 1..m /\ t[i] = Quote)
    BY <1>1, <1>9
  <2>2. m + 1 \in 1..(m + 2) /\ m + 2 \in 1..(m + 2) /\ \A i \in 1..m : i \in 1..(m + 2)
    BY <1>1
  <2>3. Q \in SUBSET (1..m) /\ \A i \in 1..m : i \in Q <=> t[i] = Quote
    BY <1>1 DEF Quotes
  <2>4. \A i : i \in Quotes(u) <=> i \in 1..(m + 2) /\ u[i] = Quote
    BY <1>1 DEF Quotes
  <2> HIDE DEF Q
  <2> QED
    BY <2>1, <2>2, <2>3, <2>4
<1> HIDE DEF Q
<1>4. \A i \in 1..m : i \in Outside(u) <=> i \in Outside(t)
  <2> SUFFICES ASSUME NEW i \in 1..m PROVE i \in Outside(u) <=> i \in Outside(t)
    OBVIOUS
  <2>1. {j \in Quotes(u) : j < i} = {j \in Q : j < i}
    BY <1>1, <1>3
  <2>2. i \in 1..(m + 2)
    BY <1>1
  <2> QED
    BY <1>1, <2>1, <2>2 DEF Outside, Q
<1>5. Even(Q) /\ Even(Q \cup {m + 1, m + 2}) /\ m + 1 \in Outside(u) /\ m + 2 \notin Outside(u)
  <2>1. IsFiniteSet(Q) /\ m + 1 \notin Q
    <3>1. IsFiniteSet(1..m)
      BY <1>1, FS_Interval
    <3>2. m + 1 \notin 1..m
      BY <1>1
    <3> QED
      BY <1>3, <3>1, <3>2, FS_Subset
  <2>2. Even(Q)
    BY DEF Paired, Q
  <2>3. ~Even(Q \cup {m + 1}) /\ IsFiniteSet(Q \cup {m + 1})
    BY <2>1, <2>2, EvenFacts, FS_AddElement
  <2>4. m + 2 \notin Q \cup {m + 1} /\ Q \cup {m + 1, m + 2} = (Q \cup {m + 1}) \cup {m + 2}
    BY <1>1, <1>3
  <2>5. Even((Q \cup {m + 1}) \cup {m + 2})
    BY <2>3, <2>4, EvenFacts
  <2>6. {j \in Quotes(u) : j < m + 1} = Q /\ {j \in Quotes(u) : j < m + 2} = Q \cup {m + 1}
    <3>1. \A j \in Q : j < m + 1 /\ j < m + 2
      BY <1>1, <1>3
    <3>2. ~(m + 1 < m + 1) /\ ~(m + 2 < m + 1) /\ m + 1 < m + 2 /\ ~(m + 2 < m + 2)
      BY <1>1
    <3> QED
      BY <1>3, <3>1, <3>2
  <2>7. m + 1 \in 1..(m + 2) /\ m + 2 \in 1..(m + 2)
    BY <1>1
  <2> QED
    BY <1>1, <2>2, <2>3, <2>4, <2>5, <2>6, <2>7 DEF Outside
<1>6. Left(u) = Left(t) \cup {m + 1} /\ Left(t) \in SUBSET (1..m) /\ \A i \in Left(t) : i < m + 1
  <2>1. m + 1 \in Left(u) /\ m + 2 \notin Left(u)
    BY <1>1, <1>3, <1>5 DEF Left
  <2>2. \A i \in 1..m : i \in Left(u) <=> i \in Left(t)
    <3>1. \A i \in 1..m : i \in Quotes(u) <=> i \in Q
      BY <1>1, <1>3
    <3>2. \A i \in 1..m : i \in 1..(m + 2)
      BY <1>1
    <3> QED
      BY <1>1, <1>4, <3>1, <3>2 DEF Left, Q
  <2>3. Left(t) \in SUBSET (1..m) /\ Left(u) \in SUBSET (1..(m + 2))
    BY <1>1 DEF Left
  <2>4. \A i \in 1..m : i < m + 1
    BY <1>1
  <2> QED
    BY <1>9, <2>1, <2>2, <2>3, <2>4
<1>7. Unquoted(u) = Append(Unquoted(t), Quote)
  <2>1. Unquoted(u) = Append(Mapping(InOrder(Left(t)), u), u[m + 1])
    <3>1. m + 1 \in Nat
      BY <1>1
    <3>2. Mapping(InOrder(Left(t) \cup {m + 1}), u)
            = Append(Mapping(InOrder(Left(t)), u), u[m + 1])
      BY <1>1, <1>6, <3>1, ListAppend, Zenon
    <3> QED
      BY <1>2, <1>6, <3>2
  <2>2. Mapping(InOrder(Left(t)), u) = Mapping(InOrder(Left(t)), t)
    BY <1>1, <1>6, ListSame
  <2> QED
    BY <1>1, <1>2, <2>1, <2>2
<1>8. Paired(u)
  <2>1. Even(Quotes(u))
    BY <1>3, <1>5
  <2>2. ASSUME NEW i \in Quotes(u), i \in Outside(u) PROVE i + 1 \in Quotes(u)
    <3>1. CASE i \in Q
      <4>1. i \in Outside(t) /\ i \in 1..m
        BY <1>3, <1>4, <2>2, <3>1
      <4> QED
        BY <1>3, <3>1, <4>1 DEF Paired, Q
    <3>2. CASE i = m + 1
      BY <1>1, <1>3, <3>2
    <3>3. CASE i = m + 2
      BY <1>5, <2>2, <3>3
    <3> QED
      BY <1>3, <3>1, <3>2, <3>3
  <2> QED
    BY <2>1, <2>2 DEF Paired
<1> QED
  BY <1>7, <1>8 DEF u, v

LEMMA UnquotedEmpty == Paired(<<>>) /\ Unquoted(<<>>) = <<>>
<1>1. Quotes(<<>>) = {} /\ Left(<<>>) = {}
  BY DEF Quotes, Left
<1> QED
  BY <1>1, EvenFacts, ListEmpty DEF Paired, Unquoted, Left

\* The text between the first and the last symbol of a segment.
LEMMA InnerSegment ==
  ASSUME NEW X, NEW s \in Seq(X), NEW a \in Nat \ {0}, NEW e \in 1..(Len(s) + 1), a + 1 < e
  PROVE  LET segment == SubSeq(s, a, e - 1) IN
         /\ segment \in Seq(X) /\ Len(segment) = e - a /\ Len(segment) > 1
         /\ segment[1] = s[a] /\ segment[Len(segment)] = s[e - 1]
         /\ Inner(segment) = SubSeq(s, a + 1, e - 2)
<1> DEFINE n == Len(s)
           segment == SubSeq(s, a, e - 1)
           k == e - a
<1>1. /\ n \in Nat /\ a \in 1..n /\ a \in 1..(n + 1) /\ e - 1 \in 0..n /\ e - 1 \in 1..n
      /\ a <= (e - 1) + 1 /\ (e - 1) - a + 1 = k /\ k \in Nat /\ k > 1
  OBVIOUS
<1>2. /\ segment \in Seq(X) /\ Len(segment) = k
      /\ \A i \in 1..k : segment[i] = s[a + i - 1]
  <2> HIDE DEF n, k
  <2> QED
    BY <1>1, Segment DEF n
<1>3. segment[1] = s[a] /\ segment[k] = s[e - 1]
  <2>1. 1 \in 1..k /\ k \in 1..k /\ a + 1 - 1 = a /\ a + k - 1 = e - 1
    BY <1>1
  <2> HIDE DEF segment, k
  <2> QED
    BY <1>2, <2>1
<1>4. Inner(segment) = SubSeq(s, a + 1, e - 2)
  <2>1. /\ 2 \in 1..((e - 1) - a + 1) /\ k - 1 \in 1..((e - 1) - a + 1)
        /\ a + 2 - 1 = a + 1 /\ a + (k - 1) - 1 = e - 2
    BY <1>1
  <2>2. SubSeq(segment, 2, k - 1) = SubSeq(s, a + 2 - 1, a + (k - 1) - 1)
    <3>1. a \in 1..Len(s)
      BY <1>1
    <3>2. ASSUME NEW j \in 1..Len(s), NEW g \in 1..(j - a + 1), NEW h \in 1..(j - a + 1)
          PROVE  SubSeq(SubSeq(s, a, j), g, h) = SubSeq(s, a + g - 1, a + h - 1)
      BY <3>1, SubSeqOfSubSeq
    <3>3. e - 1 \in 1..Len(s)
      BY <1>1
    <3> HIDE DEF k, n
    <3> QED
      BY <2>1, <3>2, <3>3
  <2> HIDE DEF k, segment
  <2> QED
    BY <1>2, <2>1, <2>2 DEF Inner
<1> HIDE DEF segment, k
<1> QED
  BY <1>1, <1>2, <1>3, <1>4 DEF segment, k

\* Where the automaton is not between quotes, it has the value of a cell that ends there.
LEMMA CellEnds ==
  ASSUME NEW X, NEW s \in Seq(X), NEW delimiter \in Delimiters, NEW at,
         at.next \in 1..(Len(s) + 1), at.state \in {"plain", "after-quote"},
         InCell(s, delimiter, at)
  PROVE  LET segment == CellAt(s, Separators(s, delimiter), at.next) IN
         WellFormed(segment) /\ ValueOf(segment) = at.cell
<1> DEFINE p == at.next
           separators == Separators(s, delimiter)
           a == After(s, separators, p)
           segment == SubSeq(s, a, p - 1)
<1>1. CellAt(s, separators, p) = segment
  BY DEF CellAt
<1>2. CASE at.state = "plain"
  <2>1. at.cell = segment /\ Quotes(segment) = {}
    BY <1>2 DEF InCell
  <2> QED
    BY <1>1, <2>1 DEF WellFormed, ValueOf
<1>3. CASE at.state = "after-quote"
  <2>1. /\ a + 1 < p /\ s[a] = Quote /\ s[p - 1] = Quote
        /\ Paired(SubSeq(s, a + 1, p - 2)) /\ at.cell = Unquoted(SubSeq(s, a + 1, p - 2))
    BY <1>3 DEF InCell
  <2>2. a \in Nat \ {0}
    <3>1. separators \in SUBSET (1..Len(s)) /\ p \in 1..(Len(s) + 1) /\ p <= p
      BY CutFacts
    <3> QED
      BY <3>1, AfterFacts
  <2> HIDE DEF a
  <2>3. /\ segment \in Seq(X) /\ Len(segment) > 1 /\ Len(segment) \in Nat
        /\ segment[1] = Quote /\ segment[Len(segment)] = Quote
        /\ Inner(segment) = SubSeq(s, a + 1, p - 2)
    <3>1. p \in 1..(Len(s) + 1)
      OBVIOUS
    <3>2. a + 1 < p
      BY <2>1
    <3> HIDE DEF p
    <3>3. /\ segment \in Seq(X) /\ Len(segment) = p - a /\ Len(segment) > 1
          /\ segment[1] = s[a] /\ segment[Len(segment)] = s[p - 1]
          /\ Inner(segment) = SubSeq(s, a + 1, p - 2)
      BY <2>2, <3>1, <3>2, InnerSegment
    <3> HIDE DEF segment
    <3> QED
      BY <2>1, <3>3
  <2> HIDE DEF segment
  <2>4. Quotes(segment) # {}
    <3>1. 1 \in DOMAIN segment
      BY <2>3
    <3> QED
      BY <2>3, <3>1 DEF Quotes
  <2> QED
    BY <1>1, <2>1, <2>3, <2>4 DEF WellFormed, ValueOf
<1> QED
  BY <1>2, <1>3

\* The cells and records that the automaton has are still those before its position when
\* it moves on to q and there is nothing that separates cells from here to there.
LEMMA MovesOn ==
  ASSUME NEW X, NEW s \in Seq(X), NEW delimiter \in Delimiters, NEW at,
         at.next \in 1..(Len(s) + 1), InFile(s, delimiter, at),
         NEW q \in 1..(Len(s) + 1), at.next < q,
         \A i \in at.next..(q - 1) : i \notin Separators(s, delimiter),
         NEW to, to.next = q, to.record = at.record, to.records = at.records
  PROVE  /\ After(s, Separators(s, delimiter), q) = After(s, Separators(s, delimiter), at.next)
         /\ InFile(s, delimiter, to)
<1> DEFINE p == at.next
           separators == Separators(s, delimiter)
           breaks == Breaks(s)
           record == After(s, breaks, p)
<1>1. /\ separators \in SUBSET (1..Len(s)) /\ breaks \in SUBSET separators
      /\ breaks \in SUBSET (1..Len(s))
      /\ p \in Int /\ q \in Int /\ Len(s) \in Nat /\ p <= q
  BY CutFacts
<1>2. /\ After(s, separators, q) = After(s, separators, p) /\ After(s, separators, p) \in Nat
      /\ After(s, breaks, q) = record /\ record \in Nat
  BY <1>1, AfterFacts
<1> HIDE DEF separators, breaks, record
<1>3. separators \cap (record..(q - 1)) = separators \cap (record..(p - 1))
  <2>1. \A i \in separators : i \in Int /\ (i \in record..(q - 1) <=> i \in record..(p - 1))
    <3> SUFFICES ASSUME NEW i \in separators
                 PROVE  i \in Int /\ (i \in record..(q - 1) <=> i \in record..(p - 1))
      OBVIOUS
    <3>1. i \in Int /\ ~(i \in p..(q - 1))
      BY <1>1 DEF separators
    <3> QED
      BY <1>1, <1>2, <3>1
  <2> QED
    BY <2>1
<1>4. \A e \in separators : e < q <=> e < p
  BY <1>1 DEF separators
<1>5. {e \in breaks : e < q} = {e \in breaks : e < p}
  BY <1>1, <1>4
<1>6. InFile(s, delimiter, at)
  OBVIOUS
<1>7. /\ record <= After(s, separators, p) /\ After(s, separators, p) <= p
      /\ at.record = Mapping(InOrder(separators \cap (record..(p - 1))), ValuesOf(s, delimiter))
      /\ at.record = <<>> => record = After(s, separators, p)
      /\ \A e \in separators : e < p => WellFormed(CellAt(s, separators, e))
      /\ at.records = Mapping(InOrder({e \in breaks : e < p}), LinesOf(s, delimiter))
  BY <1>6 DEF InFile, separators, breaks, record
<1>8. After(s, separators, q) <= q
  BY <1>1, <1>2, <1>7
<1>9. InFile(s, delimiter, to)
  BY <1>2, <1>3, <1>4, <1>5, <1>7, <1>8 DEF InFile, separators, breaks, record
<1> QED
  BY <1>2, <1>9 DEF separators

\* At the end of a cell, its value is the next one of its record.
LEMMA RecordGrows ==
  ASSUME NEW X, NEW s \in Seq(X), NEW delimiter \in Delimiters, NEW at,
         at.next \in 1..(Len(s) + 1), at.state \in {"plain", "after-quote"},
         InCell(s, delimiter, at), InFile(s, delimiter, at),
         at.next \in Ends(s, Separators(s, delimiter), Breaks(s))
  PROVE  LET record == After(s, Breaks(s), at.next) IN
         Mapping(InOrder((Separators(s, delimiter) \cap (record..(at.next - 1))) \cup {at.next}),
                 ValuesOf(s, delimiter))
           = Append(at.record, at.cell)
<1> DEFINE p == at.next
           separators == Separators(s, delimiter)
           record == After(s, Breaks(s), p)
           S == separators \cap (record..(p - 1))
           values == ValuesOf(s, delimiter)
<1>1. /\ separators \in SUBSET (1..Len(s)) /\ p \in Nat /\ Len(s) \in Nat
      /\ Breaks(s) \in SUBSET (1..Len(s)) /\ p <= p
  BY CutFacts
<1>2. record \in Nat
  BY <1>1, AfterFacts
<1>3. S \in SUBSET (1..Len(s)) /\ \A x \in S : x < p
  <2> HIDE DEF record, p, separators
  <2> QED
    BY <1>1, <1>2
<1>4. values[p] = at.cell
  <2>1. values[p] = ValueOf(CellAt(s, separators, p))
    BY DEF ValuesOf
  <2> QED
    BY <2>1, CellEnds
<1>5. at.record = Mapping(InOrder(S), values)
  BY DEF InFile
<1> HIDE DEF S, values, p
<1>6. Mapping(InOrder(S \cup {p}), values) = Append(Mapping(InOrder(S), values), values[p])
  BY <1>1, <1>3, ListAppend, Zenon
<1> QED
  BY <1>4, <1>5, <1>6 DEF S, values, p

\* A state of the automaton that the text up to its position explains.
Reached(s, delimiter, at) ==
  /\ at.next \in 1..(Len(s) + 1) /\ at.state \in {"plain", "quoted", "after-quote"}
  /\ InCell(s, delimiter, at) /\ InFile(s, delimiter, at)

\* What a symbol must be to separate cells.
LEMMA NoCut ==
  ASSUME NEW X, NEW s \in Seq(X), NEW delimiter \in Delimiters, NEW p \in 1..Len(s),
         \/ s[p] \notin {delimiter, Lf, Cr}
         \/ ~Even({i \in Quotes(s) : i < p})
  PROVE  p \notin Separators(s, delimiter)
BY CutFacts, ParityStep, ZenonT(40)

\* A symbol of a cell, that is no quote.
LEMMA CharacterKept ==
  ASSUME NEW X, NEW s \in Seq(X), NEW delimiter \in Delimiters, NEW at, NEW to,
         Reached(s, delimiter, at), at.next <= Len(s), s[at.next] # Quote, at.cell \in Seq(X),
         \/ at.state = "quoted"
         \/ at.state = "plain" /\ s[at.next] \notin {delimiter, Lf, Cr},
         to.state = at.state, to.next = at.next + 1, to.cell = Append(at.cell, s[at.next]),
         to.record = at.record, to.records = at.records
  PROVE  Reached(s, delimiter, to)
<1> DEFINE n == Len(s)
           p == at.next
           separators == Separators(s, delimiter)
           a == After(s, separators, p)
<1>1. /\ n \in Nat /\ p \in 1..n /\ p \in 1..(n + 1) /\ p + 1 \in 1..(n + 1) /\ p < p + 1
      /\ p \in Int /\ s[p] \in X /\ separators \in SUBSET (1..n)
  BY CutFacts DEF Reached
<1>2. Even({i \in Quotes(s) : i < p + 1}) <=> Even({i \in Quotes(s) : i < p})
  BY <1>1, ParityStep
<1>3. InCell(s, delimiter, at) /\ InFile(s, delimiter, at)
  BY DEF Reached
<1>4. p \notin separators
  BY <1>1, <1>3, NoCut DEF InCell
<1>5. \A i \in p..(p + 1 - 1) : i \notin separators
  BY <1>1, <1>4
<1>6. After(s, separators, p + 1) = a /\ InFile(s, delimiter, to)
  BY <1>1, <1>3, <1>5, MovesOn
<1>7. a \in Nat \ {0} /\ a <= p
  <2>1. p <= p
    BY <1>1
  <2>2. a <= p
    BY <1>3 DEF InFile
  <2> HIDE DEF p
  <2>3. a \in Nat \ {0}
    BY <1>1, <2>1, AfterFacts
  <2> QED
    BY <2>2, <2>3 DEF p
<1> HIDE DEF n, p, separators, a
<1>8. CASE at.state = "plain"
  <2>1. at.cell = SubSeq(s, a, p - 1) /\ Quotes(at.cell) = {}
    BY <1>3, <1>8 DEF InCell, p, separators, a
  <2>2. to.cell = SubSeq(s, a, p)
    <3>1. a \in 1..(Len(s) + 1) /\ p - 1 \in 0..Len(s) /\ a <= (p - 1) + 1 /\ p - 1 < Len(s)
          /\ p - 1 + 1 = p
      BY <1>1, <1>7 DEF n
    <3>2. SubSeq(s, a, p - 1 + 1) = Append(SubSeq(s, a, p - 1), s[p - 1 + 1])
      BY <3>1, Segment
    <3> QED
      BY <2>1, <3>1, <3>2 DEF p
  <2>3. Quotes(to.cell) = {}
    <3> DEFINE t == at.cell
               u == Append(t, s[p])
    <3>1. /\ DOMAIN u = 1..(Len(t) + 1) /\ DOMAIN t = 1..Len(t) /\ Len(t) \in Nat
          /\ \A i \in 1..Len(t) : u[i] = t[i]
          /\ u[Len(t) + 1] = s[p]
      BY <1>1, AppendProperties
    <3>2. \A i \in DOMAIN t : t[i] # Quote
      BY <2>1 DEF Quotes
    <3> HIDE DEF t, u
    <3>3. \A i \in DOMAIN u : u[i] # Quote
      <4>1. \A i \in 1..(Len(t) + 1) : i = Len(t) + 1 \/ i \in 1..Len(t)
        BY <3>1
      <4> QED
        BY <3>1, <3>2, <4>1 DEF p
    <3>4. Quotes(u) = {}
      BY <3>3 DEF Quotes
    <3> QED
      BY <3>4 DEF u, t, p
  <2>4. to.next - 1 = p /\ to.next = p + 1
    BY <1>1 DEF p
  <2>5. ~(~Even({i \in Quotes(s) : i < p + 1}))
    BY <1>2, <1>3, <1>8 DEF InCell, p
  <2>6. InCell(s, delimiter, to)
    BY <1>6, <1>8, <2>2, <2>3, <2>4, <2>5 DEF InCell, separators
  <2> QED
    BY <1>1, <1>6, <1>8, <2>4, <2>6 DEF Reached, n
<1>9. CASE at.state = "quoted"
  <2> DEFINE t == SubSeq(s, a + 1, p - 1)
  <2>1. /\ a < p /\ s[a] = Quote /\ Paired(t) /\ at.cell = Unquoted(t)
        /\ ~Even({i \in Quotes(s) : i < p})
    BY <1>3, <1>9 DEF InCell, p, separators, a
  <2>2. t \in Seq(X) /\ SubSeq(s, a + 1, p) = Append(t, s[p])
    <3>1. /\ a + 1 \in 1..(Len(s) + 1) /\ p - 1 \in 0..Len(s) /\ a + 1 <= (p - 1) + 1
          /\ p - 1 < Len(s) /\ p - 1 + 1 = p
      BY <1>1, <1>7, <2>1 DEF n
    <3>2. /\ SubSeq(s, a + 1, p - 1) \in Seq(X)
          /\ SubSeq(s, a + 1, p - 1 + 1) = Append(SubSeq(s, a + 1, p - 1), s[p - 1 + 1])
      BY <3>1, Segment
    <3> QED
      BY <3>1, <3>2
  <2> HIDE DEF t
  <2>3. Paired(Append(t, s[p])) /\ Unquoted(Append(t, s[p])) = Append(Unquoted(t), s[p])
    BY <1>1, <2>1, <2>2, UnquotedAppend DEF p
  <2>4. to.next - 1 = p /\ to.next = p + 1
    BY <1>1 DEF p
  <2>5. a < p + 1
    BY <1>1, <1>7
  <2>6. Paired(SubSeq(s, a + 1, p)) /\ to.cell = Unquoted(SubSeq(s, a + 1, p))
    BY <2>1, <2>2, <2>3 DEF p
  <2>7. InCell(s, delimiter, to)
    BY <1>2, <1>6, <1>9, <2>1, <2>4, <2>5, <2>6 DEF InCell, separators
  <2> QED
    BY <1>1, <1>6, <1>9, <2>4, <2>7 DEF Reached, n
<1> QED
  BY <1>8, <1>9

\* A doubled quote between quotes.
LEMMA QuoteDoubled ==
  ASSUME NEW X, NEW s \in Seq(X), NEW delimiter \in Delimiters, NEW at, NEW to, Quote \in X,
         Reached(s, delimiter, at), at.state = "quoted", at.next < Len(s),
         s[at.next] = Quote, s[at.next + 1] = Quote,
         to.state = "quoted", to.next = at.next + 2, to.cell = Append(at.cell, Quote),
         to.record = at.record, to.records = at.records
  PROVE  Reached(s, delimiter, to)
<1> DEFINE n == Len(s)
           p == at.next
           separators == Separators(s, delimiter)
           a == After(s, separators, p)
           t == SubSeq(s, a + 1, p - 1)
<1>1. /\ n \in Nat /\ p \in 1..n /\ p + 1 \in 1..n /\ p \in 1..(n + 1) /\ p + 2 \in 1..(n + 1)
      /\ p < p + 2 /\ p \in Int /\ p <= p /\ separators \in SUBSET (1..n)
  BY CutFacts, SMTT(40) DEF Reached
<1>2. InCell(s, delimiter, at) /\ InFile(s, delimiter, at)
  BY DEF Reached
<1>3. /\ a < p /\ s[a] = Quote /\ Paired(t) /\ at.cell = Unquoted(t)
      /\ ~Even({i \in Quotes(s) : i < p})
  BY <1>2 DEF InCell
<1>4. a \in Nat \ {0}
  <2> HIDE DEF p
  <2> QED
    BY <1>1, AfterFacts
<1>5. ~Even({i \in Quotes(s) : i < p + 2})
  <2>1. Even({i \in Quotes(s) : i < p + 1})
    BY <1>1, <1>3, ParityStep
  <2>2. Even({i \in Quotes(s) : i < (p + 1) + 1}) <=> ~Even({i \in Quotes(s) : i < p + 1})
    <3>1. s[p + 1] = Quote
      OBVIOUS
    <3> HIDE DEF p
    <3> QED
      BY <1>1, <3>1, ParityStep
  <2>3. (p + 1) + 1 = p + 2
    BY <1>1
  <2> QED
    BY <2>1, <2>2, <2>3
<1>6. After(s, separators, p + 2) = a /\ InFile(s, delimiter, to)
  <2>1. Quote \notin {delimiter, Lf, Cr}
    BY CutFacts
  <2>2. p \notin separators /\ p + 1 \notin separators
    BY <1>1, <2>1, NoCut
  <2>3. \A i \in p..(p + 2 - 1) : i = p \/ i = p + 1
    BY <1>1
  <2>4. \A i \in p..(p + 2 - 1) : i \notin separators
    BY <2>2, <2>3
  <2> QED
    BY <1>1, <1>2, <2>4, MovesOn
<1>7. t \in Seq(X) /\ SubSeq(s, a + 1, p + 1) = Append(Append(t, Quote), Quote)
  <2>1. s[p] = Quote /\ s[p + 1] = Quote
    OBVIOUS
  <2> HIDE DEF p, a, t
  <2>2. /\ a + 1 \in 1..(Len(s) + 1) /\ p - 1 \in 0..Len(s) /\ p \in 0..Len(s)
        /\ a + 1 <= (p - 1) + 1 /\ a + 1 <= p + 1
        /\ p - 1 < Len(s) /\ p < Len(s) /\ p - 1 + 1 = p
    BY <1>1, <1>3, <1>4
  <2>3. /\ SubSeq(s, a + 1, p - 1) \in Seq(X)
        /\ SubSeq(s, a + 1, p - 1 + 1) = Append(SubSeq(s, a + 1, p - 1), s[p - 1 + 1])
    BY <2>2, Segment
  <2>4. SubSeq(s, a + 1, p + 1) = Append(SubSeq(s, a + 1, p), s[p + 1])
    BY <2>2, Segment
  <2> QED
    BY <2>1, <2>2, <2>3, <2>4 DEF t
<1> HIDE DEF n, p, separators, a, t
<1>8. Paired(SubSeq(s, a + 1, p + 1)) /\ Unquoted(SubSeq(s, a + 1, p + 1)) = to.cell
  BY <1>3, <1>7, UnquotedDouble
<1>9. to.next = p + 2 /\ to.next - 1 = p + 1
  BY <1>1 DEF p
<1>10. a < p + 2
  BY <1>1, <1>3, <1>4
<1>11. InCell(s, delimiter, to)
  BY <1>3, <1>5, <1>6, <1>8, <1>9, <1>10 DEF InCell, separators
<1> QED
  BY <1>1, <1>6, <1>9, <1>11 DEF Reached, n

\* The quote that closes a quoted cell.
LEMMA QuoteClosed ==
  ASSUME NEW X, NEW s \in Seq(X), NEW delimiter \in Delimiters, NEW at, NEW to,
         Reached(s, delimiter, at), at.state = "quoted", at.next <= Len(s),
         s[at.next] = Quote, ~(at.next < Len(s) /\ s[at.next + 1] = Quote),
         to.state = "after-quote", to.next = at.next + 1, to.cell = at.cell,
         to.record = at.record, to.records = at.records
  PROVE  Reached(s, delimiter, to)
<1> DEFINE n == Len(s)
           p == at.next
           separators == Separators(s, delimiter)
           a == After(s, separators, p)
           t == SubSeq(s, a + 1, p - 1)
<1>1. /\ n \in Nat /\ p \in 1..n /\ p \in 1..(n + 1) /\ p + 1 \in 1..(n + 1)
      /\ p < p + 1 /\ p \in Int /\ p <= p /\ separators \in SUBSET (1..n)
  BY CutFacts DEF Reached
<1>2. InCell(s, delimiter, at) /\ InFile(s, delimiter, at)
  BY DEF Reached
<1>3. /\ a < p /\ s[a] = Quote /\ Paired(t) /\ at.cell = Unquoted(t)
      /\ ~Even({i \in Quotes(s) : i < p})
  BY <1>2 DEF InCell
<1>4. a \in Nat \ {0}
  <2> HIDE DEF p
  <2> QED
    BY <1>1, AfterFacts
<1>5. Even({i \in Quotes(s) : i < p + 1})
  BY <1>1, <1>3, ParityStep
<1>6. After(s, separators, p + 1) = a /\ InFile(s, delimiter, to)
  <2>1. Quote \notin {delimiter, Lf, Cr}
    BY CutFacts
  <2>2. p \notin separators
    BY <1>1, <2>1, NoCut
  <2>3. \A i \in p..(p + 1 - 1) : i \notin separators
    BY <1>1, <2>2
  <2> QED
    BY <1>1, <1>2, <2>3, MovesOn
<1>7. p + 1 <= n => s[p + 1] # Quote
  BY <1>1
<1>8. s[p] = Quote
  OBVIOUS
<1> HIDE DEF n, p, separators, a
<1>9. to.next = p + 1 /\ to.next - 1 = p /\ to.next - 2 = p - 1 /\ a + 1 < p + 1
  BY <1>1, <1>3, <1>4 DEF p
<1>10. InCell(s, delimiter, to)
  BY <1>3, <1>5, <1>6, <1>7, <1>8, <1>9 DEF InCell, separators, n
<1> QED
  BY <1>1, <1>6, <1>9, <1>10 DEF Reached, n

\* The quote that opens one.
LEMMA QuoteOpened ==
  ASSUME NEW X, NEW s \in Seq(X), NEW delimiter \in Delimiters, NEW at, NEW to,
         Reached(s, delimiter, at), at.state = "plain", at.next <= Len(s),
         s[at.next] = Quote, at.cell = <<>>,
         to.state = "quoted", to.next = at.next + 1, to.cell = at.cell,
         to.record = at.record, to.records = at.records
  PROVE  Reached(s, delimiter, to)
<1> DEFINE n == Len(s)
           p == at.next
           separators == Separators(s, delimiter)
           a == After(s, separators, p)
<1>1. /\ n \in Nat /\ p \in 1..n /\ p \in 1..(n + 1) /\ p + 1 \in 1..(n + 1)
      /\ p < p + 1 /\ p \in Int /\ p <= p /\ separators \in SUBSET (1..n)
  BY CutFacts DEF Reached
<1>2. InCell(s, delimiter, at) /\ InFile(s, delimiter, at)
  BY DEF Reached
<1>3. at.cell = SubSeq(s, a, p - 1) /\ a <= p /\ Even({i \in Quotes(s) : i < p})
  BY <1>2 DEF InCell, InFile
<1>4. a \in Nat \ {0}
  <2> HIDE DEF p
  <2> QED
    BY <1>1, AfterFacts
<1>5. ~Even({i \in Quotes(s) : i < p + 1})
  BY <1>1, <1>3, ParityStep
<1>6. After(s, separators, p + 1) = a /\ InFile(s, delimiter, to)
  <2>1. Quote \notin {delimiter, Lf, Cr}
    BY CutFacts
  <2>2. p \notin separators
    BY <1>1, <2>1, NoCut
  <2>3. \A i \in p..(p + 1 - 1) : i \notin separators
    BY <1>1, <2>2
  <2> QED
    BY <1>1, <1>2, <2>3, MovesOn
<1>7. s[p] = Quote /\ to.next = p + 1 /\ to.cell = <<>> /\ at.cell = <<>>
  OBVIOUS
<1> HIDE DEF n, p, separators, a
<1>8. a = p
  <2>1. a \in 1..(Len(s) + 1) /\ p - 1 \in 0..Len(s) /\ a <= (p - 1) + 1
    BY <1>1, <1>3, <1>4 DEF n
  <2>2. Len(SubSeq(s, a, p - 1)) = (p - 1) - a + 1
    BY <2>1, Segment
  <2>3. Len(SubSeq(s, a, p - 1)) = 0
    <3>1. SubSeq(s, a, p - 1) = <<>>
      BY <1>3, <1>7, Zenon
    <3>2. Len(<<>>) = 0
      OBVIOUS
    <3> QED
      BY <3>1, <3>2, Zenon
  <2> QED
    BY <1>1, <1>4, <2>2, <2>3
<1>9. SubSeq(s, a + 1, to.next - 1) = <<>>
  <2>1. to.next - 1 < a + 1 /\ to.next - 1 \in Int /\ a + 1 \in Int
    BY <1>1, <1>7, <1>8
  <2> QED
    BY <2>1, SubSeqEmpty
<1>10. InCell(s, delimiter, to)
  BY <1>1, <1>5, <1>6, <1>7, <1>8, <1>9, UnquotedEmpty DEF InCell, separators
<1> QED
  BY <1>1, <1>6, <1>7, <1>10 DEF Reached, n

\* At the end of a line, the record that the automaton has, with the cell that ends there,
\* is the record of the line.
LEMMA LineEnds ==
  ASSUME NEW X, NEW s \in Seq(X), NEW delimiter \in Delimiters, NEW at,
         Reached(s, delimiter, at), at.state # "quoted",
         at.next \in Ends(s, Separators(s, delimiter), Breaks(s)),
         at.next \in Ends(s, Breaks(s), Breaks(s))
  PROVE  LinesOf(s, delimiter)[at.next] = Append(at.record, at.cell)
<1> DEFINE n == Len(s)
           p == at.next
           separators == Separators(s, delimiter)
           ends == Ends(s, separators, Breaks(s))
           record == After(s, Breaks(s), p)
           values == ValuesOf(s, delimiter)
<1>1. /\ InCell(s, delimiter, at) /\ InFile(s, delimiter, at)
      /\ at.state \in {"plain", "after-quote"} /\ p \in 1..(n + 1)
      /\ p \in Int /\ n \in Nat /\ p <= p /\ separators \in SUBSET (1..n)
      /\ Breaks(s) \in SUBSET (1..n)
  BY CutFacts DEF Reached
<1>2. DOMAIN values = ends /\ \A i \in ends : i \in separators \/ i = n + 1
  BY DEF ValuesOf, Ends
<1>3. record \in Int /\ record <= p
  <2>1. record \in Nat
    <3> HIDE DEF p
    <3> QED
      BY <1>1, AfterFacts
  <2>2. record <= After(s, separators, p) /\ After(s, separators, p) <= p
    BY <1>1 DEF InFile
  <2>3. After(s, separators, p) \in Nat
    <3> HIDE DEF p, separators
    <3> QED
      BY <1>1, AfterFacts
  <2> HIDE DEF p, separators, record
  <2> QED
    BY <1>1, <2>1, <2>2, <2>3
<1>4. ends \cap (record..p) = (separators \cap (record..(p - 1))) \cup {p}
  <2>1. p \in ends /\ \A i \in separators : i \in ends /\ i \in Int /\ i <= n
    BY <1>1 DEF Ends
  <2> HIDE DEF ends, record, p, separators
  <2>2. ASSUME NEW i \in ends, i \in record..p PROVE i = p \/ i \in separators \cap (record..(p - 1))
    <3>1. CASE i = n + 1
      BY <1>1, <2>2, <3>1
    <3>2. CASE i \in separators
      BY <1>1, <1>3, <2>1, <2>2, <3>2
    <3> QED
      BY <1>2, <3>1, <3>2
  <2>3. ASSUME NEW i \in separators, i \in record..(p - 1) PROVE i \in ends \cap (record..p)
    BY <1>1, <1>3, <2>1, <2>3
  <2>4. p \in record..p
    BY <1>1, <1>3
  <2> QED
    BY <2>1, <2>2, <2>3, <2>4
<1>5. LinesOf(s, delimiter)[p] = Mapping(InOrder(ends \cap (record..p)), values)
  BY <1>2 DEF LinesOf
<1>6. Mapping(InOrder((separators \cap (record..(p - 1))) \cup {p}), values)
        = Append(at.record, at.cell)
  BY <1>1, RecordGrows
<1> HIDE DEF p, ends, record, values, separators
<1> QED
  BY <1>4, <1>5, <1>6 DEF p

\* The end of a cell that is not the last of its line.
LEMMA CellEnded ==
  ASSUME NEW X, NEW s \in Seq(X), NEW delimiter \in Delimiters, NEW at, NEW to, NEW Y,
         Reached(s, delimiter, at), at.state # "quoted", at.next <= Len(s),
         s[at.next] = delimiter, at.record \in Seq(Y), at.cell \in Y,
         to.state = "plain", to.next = at.next + 1, to.cell = <<>>,
         to.record = Append(at.record, at.cell), to.records = at.records
  PROVE  Reached(s, delimiter, to)
<1> DEFINE n == Len(s)
           p == at.next
           separators == Separators(s, delimiter)
           breaks == Breaks(s)
           record == After(s, breaks, p)
<1>1. /\ n \in Nat /\ p \in 1..n /\ p \in 1..(n + 1) /\ p + 1 \in 1..(n + 1)
      /\ p < p + 1 /\ p \in Int /\ p <= p /\ p <= p + 1 /\ separators \in SUBSET (1..n)
      /\ breaks \in SUBSET separators /\ breaks \in SUBSET (1..n)
      /\ at.state \in {"plain", "after-quote"}
  BY CutFacts DEF Reached
<1>2. InCell(s, delimiter, at) /\ InFile(s, delimiter, at)
  BY DEF Reached
<1>3. Even({i \in Quotes(s) : i < p}) /\ p \in Outside(s)
  BY <1>1, <1>2, ParityStep DEF InCell
<1>4. p \in separators /\ p \notin breaks /\ s[p] # Quote /\ s[p] # Cr
  BY <1>1, <1>3, CutFacts
<1>5. Even({i \in Quotes(s) : i < p + 1})
  BY <1>1, <1>3, <1>4, ParityStep
<1>6. p \in Ends(s, separators, breaks)
  BY <1>4 DEF Ends
<1>7. to.record = Mapping(InOrder((separators \cap (record..(p - 1))) \cup {p}), ValuesOf(s, delimiter))
  BY <1>1, <1>2, <1>6, RecordGrows
<1>8. WellFormed(CellAt(s, separators, p))
  BY <1>1, <1>2, CellEnds
<1>9. /\ record \in Nat /\ record <= p
  <2>1. record \in Nat /\ After(s, separators, p) \in Nat
    <3> HIDE DEF p, separators, breaks
    <3> QED
      BY <1>1, AfterFacts
  <2>2. record <= After(s, separators, p) /\ After(s, separators, p) <= p
    BY <1>2 DEF InFile
  <2> HIDE DEF p, separators, record
  <2> QED
    BY <1>1, <2>1, <2>2
<1>10. to.record # <<>>
  BY AppendProperties
<1>11. /\ \A e \in separators : e < p => WellFormed(CellAt(s, separators, e))
       /\ at.records = Mapping(InOrder({e \in breaks : e < p}), LinesOf(s, delimiter))
  BY <1>2 DEF InFile
<1>12. to.next = p + 1 /\ to.state = "plain" /\ to.cell = <<>> /\ to.records = at.records
  OBVIOUS
<1> HIDE DEF n, p, separators, breaks, record
<1>13. After(s, separators, p + 1) = p + 1
  <2>1. \A i \in (p + 1)..(p + 1 - 1) : i \notin separators
    BY <1>1
  <2> QED
    BY <1>1, <1>4, <2>1, AfterFacts DEF n
<1>14. After(s, breaks, p + 1) = record
  <2>1. \A i \in p..(p + 1 - 1) : i \notin breaks
    BY <1>1, <1>4
  <2> QED
    BY <1>1, <2>1, AfterFacts DEF n, record
<1>15. InFile(s, delimiter, to)
  <2>1. separators \cap (record..((p + 1) - 1)) = (separators \cap (record..(p - 1))) \cup {p}
    <3>1. ASSUME NEW i \in separators
          PROVE  i \in record..((p + 1) - 1) <=> i \in record..(p - 1) \/ i = p
      <4>1. i \in Int
        BY <1>1
      <4> QED
        BY <1>1, <1>9, <4>1
    <3> QED
      BY <1>4, <3>1
  <2>2. \A e \in separators : e < p + 1 => WellFormed(CellAt(s, separators, e))
    <3>1. \A e \in separators : e < p + 1 => e < p \/ e = p
      BY <1>1
    <3> QED
      BY <1>8, <1>11, <3>1
  <2>3. {e \in breaks : e < p + 1} = {e \in breaks : e < p}
    <3>1. \A e \in breaks : e < p + 1 <=> e < p
      BY <1>1, <1>4
    <3> QED
      BY <3>1
  <2>4. record <= p + 1 /\ p + 1 <= p + 1
    BY <1>1, <1>9
  <2> QED
    <3>1. to.record
            = Mapping(InOrder(separators \cap (record..((p + 1) - 1))), ValuesOf(s, delimiter))
      BY <1>7, <2>1
    <3>2. to.records = Mapping(InOrder({e \in breaks : e < p + 1}), LinesOf(s, delimiter))
      BY <1>11, <1>12, <2>3
    <3> DEFINE q == p + 1
    <3>3. to.next = q
      BY <1>12, Zenon
    <3>4. After(s, separators, q) = q /\ After(s, breaks, q) = record /\ record <= q /\ q <= q
      BY <1>13, <1>14, <2>4, Zenon
    <3>5. to.record
            = Mapping(InOrder(separators \cap (record..(q - 1))), ValuesOf(s, delimiter))
      BY <3>1, Zenon
    <3>6. to.records = Mapping(InOrder({e \in breaks : e < q}), LinesOf(s, delimiter))
      BY <3>2, Zenon
    <3>7. \A e \in separators : e < q => WellFormed(CellAt(s, separators, e))
      BY <2>2, Zenon
    <3> HIDE DEF q
    <3> QED
      BY <1>10, <3>3, <3>4, <3>5, <3>6, <3>7 DEF InFile, separators, breaks
<1>16. InCell(s, delimiter, to)
  <2>1. SubSeq(s, p + 1, to.next - 1) = <<>>
    <3>1. to.next - 1 < p + 1 /\ to.next - 1 \in Int /\ p + 1 \in Int
      BY <1>1, <1>12
    <3> QED
      BY <3>1, SubSeqEmpty
  <2>2. Quotes(<<>>) = {}
    BY DEF Quotes
  <2> QED
    BY <1>5, <1>12, <1>13, <2>1, <2>2 DEF InCell, separators
<1> QED
  BY <1>1, <1>12, <1>15, <1>16 DEF Reached, n

\* The end of a line: a line feed that follows a carriage return is part of it.
LEMMA RecordEnded ==
  ASSUME NEW X, NEW s \in Seq(X), NEW delimiter \in Delimiters, NEW at, NEW to, NEW q,
         Reached(s, delimiter, at), at.state # "quoted", at.next <= Len(s),
         s[at.next] \in {Lf, Cr},
         q = IF at.next < Len(s) /\ s[at.next] = Cr /\ s[at.next + 1] = Lf
             THEN at.next + 2 ELSE at.next + 1,
         to.state = "plain", to.next = q, to.cell = <<>>, to.record = <<>>,
         to.records = Append(at.records, Append(at.record, at.cell))
  PROVE  Reached(s, delimiter, to)
<1> DEFINE n == Len(s)
           p == at.next
           separators == Separators(s, delimiter)
           breaks == Breaks(s)
           pair == p < n /\ s[p] = Cr /\ s[p + 1] = Lf
<1>1. /\ n \in Nat /\ p \in 1..n /\ p \in 1..(n + 1) /\ p \in Int /\ p \in Nat /\ p <= p
      /\ separators \in SUBSET (1..n) /\ breaks \in SUBSET separators /\ breaks \in SUBSET (1..n)
      /\ at.state \in {"plain", "after-quote"}
  BY CutFacts DEF Reached
<1>2. InCell(s, delimiter, at) /\ InFile(s, delimiter, at)
  BY DEF Reached
<1>3. Even({i \in Quotes(s) : i < p}) /\ p \in Outside(s)
  BY <1>1, <1>2, ParityStep DEF InCell
<1>4. Quote \notin {Lf, Cr} /\ delimiter \notin {Lf, Cr} /\ Lf # Cr
  BY CutFacts
<1>5. /\ s[p] # Quote /\ s[p] \in {Lf, Cr}
      /\ pair => s[p + 1] = Lf /\ s[p + 1] # Quote
      /\ q = IF pair THEN p + 2 ELSE p + 1
  BY <1>4
<1>6. ~(s[p] = Lf /\ p > 1 /\ s[p - 1] = Cr)
  <2> SUFFICES ASSUME s[p] = Lf, p > 1, s[p - 1] = Cr PROVE FALSE
    OBVIOUS
  <2> DEFINE o == p - 1
  <2>1. o \in 1..n /\ o + 1 = p /\ o \in 1..(n + 1) /\ o < p /\ o <= p /\ o < n /\ o + 2 > p
    BY <1>1, SMTT(40)
  <2>2. s[o] = Cr /\ s[o + 1] = Lf /\ s[o] # Quote
    BY <1>4, <2>1
  <2> HIDE DEF o
  <2>3. Even({i \in Quotes(s) : i < o})
    <3>1. Even({i \in Quotes(s) : i < o + 1}) <=> Even({i \in Quotes(s) : i < o})
      BY <2>1, <2>2, ParityStep
    <3> QED
      BY <1>3, <2>1, <3>1
  <2>4. o \in Outside(s)
    BY <2>1, <2>3, ParityStep
  <2>5. o \in separators
    BY <1>4, <2>1, <2>2, <2>4, CutFacts
  <2>6. After(s, separators, p) = o + 2
    <3>1. \A i \in (o + 1)..(p - 1) : i \notin separators
      BY <1>1, <2>1
    <3> HIDE DEF p
    <3> QED
      BY <1>1, <2>1, <2>2, <2>5, <3>1, AfterFacts, SMTT(40)
  <2>7. After(s, separators, p) <= p
    BY <1>2 DEF InFile
  <2> HIDE DEF p
  <2> QED
    BY <1>1, <2>1, <2>6, <2>7
<1>7. p \in breaks /\ p \in separators
  BY <1>1, <1>3, <1>5, <1>6, CutFacts
<1>8. pair => p + 1 \in 1..n /\ p + 1 \notin separators
  <2> SUFFICES ASSUME pair PROVE p + 1 \in 1..n /\ p + 1 \notin separators
    OBVIOUS
  <2> DEFINE o == p + 1
  <2>1. o \in 1..n /\ o > 1 /\ o - 1 = p
    BY <1>1
  <2>2. s[o] = Lf /\ s[o - 1] = Cr /\ s[o] # delimiter
    BY <1>4, <1>5, <2>1
  <2> HIDE DEF o
  <2>3. o \notin breaks /\ o \notin separators
    BY <2>1, <2>2, CutFacts
  <2> QED
    BY <2>1, <2>3 DEF o
<1>9. /\ q \in 1..(n + 1) /\ p < q /\ p <= q /\ q \in Int
      /\ \A i \in (p + 1)..(q - 1) : i \notin separators
  <2>1. CASE pair
    <3>1. q = p + 2 /\ q \in 1..(n + 1) /\ p < q /\ p <= q
      BY <1>1, <1>5, <2>1
    <3>2. \A i \in (p + 1)..(q - 1) : i = p + 1
      BY <1>1, <3>1
    <3> QED
      BY <1>8, <2>1, <3>1, <3>2
  <2>2. CASE ~pair
    <3>1. q = p + 1 /\ q \in 1..(n + 1) /\ p < q /\ p <= q
      BY <1>1, <1>5, <2>2
    <3> QED
      BY <1>1, <3>1
  <2> QED
    BY <2>1, <2>2
<1>10. Even({i \in Quotes(s) : i < q})
  <2> DEFINE o == p + 1
  <2>1. Even({i \in Quotes(s) : i < o})
    BY <1>1, <1>3, <1>5, ParityStep
  <2>2. q = IF pair THEN o + 1 ELSE o
    BY <1>1, <1>5
  <2>3. pair => o \in 1..n /\ s[o] # Quote
    BY <1>5, <1>8
  <2> HIDE DEF o, pair
  <2>4. CASE pair
    <3>1. Even({i \in Quotes(s) : i < o + 1})
      BY <2>1, <2>3, <2>4, ParityStep
    <3> QED
      BY <2>2, <2>4, <3>1, Zenon
  <2>5. CASE ~pair
    BY <2>1, <2>2, <2>5, Zenon
  <2> QED
    BY <2>4, <2>5
<1>11. WellFormed(CellAt(s, separators, p))
  BY <1>1, <1>2, CellEnds
<1>12. LinesOf(s, delimiter)[p] = Append(at.record, at.cell)
  BY <1>7, LineEnds DEF Ends
<1>13. /\ \A e \in separators : e < p => WellFormed(CellAt(s, separators, e))
       /\ at.records = Mapping(InOrder({e \in breaks : e < p}), LinesOf(s, delimiter))
  BY <1>2 DEF InFile
<1>14. /\ to.next = q /\ to.state = "plain" /\ to.cell = <<>> /\ to.record = <<>>
       /\ to.records = Append(at.records, Append(at.record, at.cell))
  OBVIOUS
<1>15. After(s, separators, q) = q /\ After(s, breaks, q) = q
  <2> HIDE DEF p, breaks, separators
  <2>1. \A i \in (p + 1)..(q - 1) : i \notin breaks
    BY <1>1, <1>9
  <2>2. After(s, separators, q)
          = (IF p < Len(s) /\ s[p] = Cr /\ s[p + 1] = Lf THEN p + 2 ELSE p + 1)
    <3>1. /\ separators \in SUBSET (1..Len(s)) /\ p \in separators
          /\ p \in 1..(Len(s) + 1) /\ q \in 1..(Len(s) + 1) /\ p <= q /\ p < q
      BY <1>1, <1>7, <1>9
    <3>2. \A i \in (p + 1)..(q - 1) : i \notin separators
      BY <1>9
    <3> QED
      BY <3>1, <3>2, AfterFacts, SMTT(40)
  <2>3. After(s, breaks, q)
          = (IF p < Len(s) /\ s[p] = Cr /\ s[p + 1] = Lf THEN p + 2 ELSE p + 1)
    <3>1. /\ breaks \in SUBSET (1..Len(s)) /\ p \in breaks
          /\ p \in 1..(Len(s) + 1) /\ q \in 1..(Len(s) + 1) /\ p <= q /\ p < q
      BY <1>1, <1>7, <1>9
    <3> QED
      BY <2>1, <3>1, AfterFacts
  <2> QED
    BY <1>5, <2>2, <2>3
<1> HIDE DEF n, p, separators, breaks, pair
<1>16. \A e \in separators : e < q => e < p \/ e = p
  <2> SUFFICES ASSUME NEW e \in separators, e < q PROVE e < p \/ e = p
    OBVIOUS
  <2>1. e \in Int /\ e \notin (p + 1)..(q - 1)
    BY <1>1, <1>9
  <2> QED
    BY <1>1, <1>9, <2>1
<1>17. to.records = Mapping(InOrder({e \in breaks : e < q}), LinesOf(s, delimiter))
  <2> DEFINE S == {e \in breaks : e < p}
  <2>1. S \in SUBSET (1..n) /\ \A x \in S : x < p
    BY <1>1
  <2>2. {e \in breaks : e < q} = S \cup {p}
    <3>1. \A e \in breaks : e < q <=> e < p \/ e = p
      <4>1. \A e \in breaks : e \in Int
        BY <1>1
      <4> QED
        BY <1>1, <1>9, <1>16, <4>1
    <3> QED
      BY <1>7, <3>1
  <2>3. at.records = Mapping(InOrder(S), LinesOf(s, delimiter))
    BY <1>13
  <2> HIDE DEF S
  <2>4. Mapping(InOrder(S \cup {p}), LinesOf(s, delimiter))
          = Append(Mapping(InOrder(S), LinesOf(s, delimiter)), LinesOf(s, delimiter)[p])
    BY <1>1, <2>1, ListAppend, Zenon
  <2> QED
    BY <1>12, <1>14, <2>2, <2>3, <2>4
<1>18. InFile(s, delimiter, to)
  <2>1. separators \cap (q..(q - 1)) = {}
    BY <1>9
  <2>2. to.record = Mapping(InOrder(separators \cap (q..(q - 1))), ValuesOf(s, delimiter))
    BY <1>14, <2>1, ListEmpty
  <2>3. \A e \in separators : e < q => WellFormed(CellAt(s, separators, e))
    BY <1>11, <1>13, <1>16
  <2>4. q <= q
    BY <1>9
  <2> QED
    BY <1>14, <1>15, <1>17, <2>2, <2>3, <2>4 DEF InFile, separators, breaks
<1>19. InCell(s, delimiter, to)
  <2>1. SubSeq(s, q, q - 1) = <<>>
    <3>1. q - 1 < q /\ q - 1 \in Int /\ q \in Int
      BY <1>9
    <3> QED
      BY <3>1, SubSeqEmpty
  <2>2. Quotes(<<>>) = {}
    BY DEF Quotes
  <2> QED
    BY <1>10, <1>14, <1>15, <2>1, <2>2 DEF InCell, separators
<1> QED
  BY <1>9, <1>14, <1>18, <1>19 DEF Reached, n
\* The quotes of a segment before a place in it are those of the shorter segment.
LEMMA QuotesBefore ==
  ASSUME NEW X, NEW s \in Seq(X), NEW a \in Nat \ {0}, NEW j \in Nat, NEW k \in 0..Len(s),
         a <= j + 1, j <= k
  PROVE  LET t == SubSeq(s, a, k)
             m == j - a + 2 IN
         /\ t \in Seq(X) /\ Len(t) = k - a + 1 /\ \A i \in 1..(k - a + 1) : t[i] = s[a + i - 1]
         /\ {i \in Quotes(t) : i < m} = Quotes(SubSeq(s, a, j))
<1> DEFINE t == SubSeq(s, a, k)
           u == SubSeq(s, a, j)
           m == j - a + 2
<1>1. /\ a \in 1..(Len(s) + 1) /\ j \in 0..Len(s) /\ a <= k + 1 /\ Len(s) \in Nat
      /\ m \in Int /\ j - a + 1 = m - 1 /\ k - a + 1 \in Nat /\ m - 1 \in Nat /\ m - 1 <= k - a + 1
  OBVIOUS
<1>2. t \in Seq(X) /\ Len(t) = k - a + 1 /\ \A i \in 1..(k - a + 1) : t[i] = s[a + i - 1]
  BY <1>1, Segment
<1>3. u \in Seq(X) /\ Len(u) = j - a + 1 /\ \A i \in 1..(j - a + 1) : u[i] = s[a + i - 1]
  BY <1>1, Segment
<1> HIDE DEF t, u, m
<1>4. DOMAIN t = 1..(k - a + 1) /\ DOMAIN u = 1..(m - 1)
  BY <1>1, <1>2, <1>3
<1>5. \A i : i \in Quotes(t) /\ i < m <=> i \in Quotes(u)
  <2>1. \A i : i \in Quotes(t) <=> i \in 1..(k - a + 1) /\ t[i] = Quote
    BY <1>4 DEF Quotes
  <2>2. \A i : i \in Quotes(u) <=> i \in 1..(m - 1) /\ u[i] = Quote
    BY <1>4 DEF Quotes
  <2>3. \A i \in 1..(m - 1) : i \in 1..(k - a + 1) /\ i < m /\ u[i] = t[i]
    BY <1>1, <1>2, <1>3
  <2>4. \A i \in 1..(k - a + 1) : i < m => i \in 1..(m - 1)
    BY <1>1
  <2> QED
    BY <2>1, <2>2, <2>3, <2>4
<1>6. {i \in Quotes(t) : i < m} = Quotes(u)
  BY <1>5
<1> QED
  BY <1>2, <1>6 DEF t, u, m

\* The end of a text outside quotes: every cell of it is well formed, and the automaton has
\* the records of its lines.
LEMMA FileEnded ==
  ASSUME NEW X, NEW s \in Seq(X), NEW delimiter \in Delimiters, NEW at, NEW records,
         Reached(s, delimiter, at), at.state # "quoted", at.next > Len(s),
         records = IF at.cell = <<>> /\ at.record = <<>> /\ at.state = "plain" THEN at.records
                   ELSE Append(at.records, Append(at.record, at.cell))
  PROVE  /\ \A e \in Ends(s, Separators(s, delimiter), Breaks(s)) :
              WellFormed(CellAt(s, Separators(s, delimiter), e))
         /\ records = RecordsOf(s, delimiter)
<1> DEFINE n == Len(s)
           p == at.next
           separators == Separators(s, delimiter)
           breaks == Breaks(s)
           cell == After(s, separators, p)
           record == After(s, breaks, p)
           lines == LinesOf(s, delimiter)
<1>1. /\ n \in Nat /\ p = n + 1 /\ p \in 1..(n + 1) /\ p \in Nat /\ p <= p
      /\ separators \in SUBSET (1..n) /\ breaks \in SUBSET separators /\ breaks \in SUBSET (1..n)
      /\ at.state \in {"plain", "after-quote"}
  BY CutFacts DEF Reached
<1>2. InCell(s, delimiter, at) /\ InFile(s, delimiter, at)
  BY DEF Reached
<1>3. /\ cell \in Nat \ {0} /\ record \in Nat \ {0} /\ record <= cell /\ cell <= p
      /\ at.record = Mapping(InOrder(separators \cap (record..(p - 1))), ValuesOf(s, delimiter))
      /\ at.record = <<>> => record = cell
      /\ \A e \in separators : e < p => WellFormed(CellAt(s, separators, e))
      /\ at.records = Mapping(InOrder({e \in breaks : e < p}), lines)
  <2>1. cell \in Nat \ {0} /\ record \in Nat \ {0}
    <3> HIDE DEF p, separators, breaks
    <3> QED
      BY <1>1, AfterFacts
  <2> QED
    BY <1>2, <2>1 DEF InFile
<1>4. /\ at.state = "plain" => at.cell = SubSeq(s, cell, p - 1)
      /\ at.state = "after-quote" => cell + 1 < p
  BY <1>2 DEF InCell
<1>5. WellFormed(CellAt(s, separators, p))
  BY <1>1, <1>2, CellEnds
<1>6. DOMAIN lines = Ends(s, breaks, breaks) /\ RecordsOf(s, delimiter) = Mapping(InOrder(DOMAIN lines), lines)
  BY DEF LinesOf, RecordsOf
<1>7. /\ Ends(s, separators, breaks) = separators \cup (IF record <= n THEN {p} ELSE {})
      /\ Ends(s, breaks, breaks) = breaks \cup (IF record <= n THEN {p} ELSE {})
  BY <1>1 DEF Ends
<1>8. record <= n => lines[p] = Append(at.record, at.cell)
  <2> SUFFICES ASSUME record <= n PROVE lines[p] = Append(at.record, at.cell)
    OBVIOUS
  <2>1. p \in Ends(s, separators, breaks) /\ p \in Ends(s, breaks, breaks)
    BY <1>7
  <2> QED
    BY <2>1, LineEnds
<1>9. at.cell = <<>> /\ at.record = <<>> /\ at.state = "plain" <=> record > n
  <2>1. ASSUME record > n PROVE at.cell = <<>> /\ at.record = <<>> /\ at.state = "plain"
    <3>1. record = p /\ cell = p /\ p - 1 = n /\ n < p /\ n \in Int /\ p \in Int
      BY <1>1, <1>3, <2>1
    <3>2. at.state = "plain"
      BY <1>1, <1>4, <3>1
    <3>3. at.cell = <<>>
      <4>1. SubSeq(s, p, n) = <<>>
        BY <3>1, SubSeqEmpty
      <4> QED
        BY <1>4, <3>1, <3>2, <4>1
    <3>4. at.record = <<>>
      <4>1. record..(p - 1) = {}
        BY <3>1
      <4>2. separators \cap (record..(p - 1)) = {}
        BY <4>1
      <4> HIDE DEF separators, record, p
      <4> QED
        BY <1>3, <4>2, ListEmpty
    <3> QED
      BY <3>2, <3>3, <3>4
  <2>2. ASSUME record <= n, at.cell = <<>>, at.record = <<>>, at.state = "plain" PROVE FALSE
    <3>1. SubSeq(s, cell, n) = <<>> /\ cell \in 1..n
      <4>1. p - 1 = n /\ cell \in 1..n
        BY <1>1, <1>3, <2>2
      <4> QED
        BY <1>4, <2>2, <4>1
    <3>2. cell \in 1..(n + 1) /\ n \in 0..n /\ cell <= n + 1 /\ n - cell + 1 > 0
      BY <1>1, <3>1
    <3> HIDE DEF cell
    <3>3. Len(SubSeq(s, cell, n)) = n - cell + 1
      BY <3>2, Segment
    <3>4. Len(<<>>) = 0
      OBVIOUS
    <3> QED
      BY <3>1, <3>2, <3>3, <3>4
  <2> QED
    BY <1>1, <1>3, <2>1, <2>2
<1>10. {e \in breaks : e < p} = breaks /\ \A e \in separators : e < p
  BY <1>1
<1>11. at.records = Mapping(InOrder(breaks), lines)
  BY <1>3, <1>10
<1> HIDE DEF n, p, separators, breaks, cell, record, lines
<1>12. \A e \in Ends(s, separators, breaks) : WellFormed(CellAt(s, separators, e))
  BY <1>3, <1>5, <1>7, <1>10
<1>13. records = RecordsOf(s, delimiter)
  <2>1. CASE record > n
    <3>1. Ends(s, breaks, breaks) = breaks
      BY <1>1, <1>3, <1>7, <2>1
    <3>2. records = at.records
      BY <1>9, <2>1
    <3> QED
      BY <1>6, <1>11, <3>1, <3>2
  <2>2. CASE record <= n
    <3>1. Ends(s, breaks, breaks) = breaks \cup {p}
      BY <1>7, <2>2
    <3>2. ~(record > n)
      BY <1>1, <1>3, <2>2
    <3>3. records = Append(at.records, Append(at.record, at.cell))
      BY <1>9, <3>2
    <3>4. Mapping(InOrder(breaks \cup {p}), lines) = Append(Mapping(InOrder(breaks), lines), lines[p])
      <4>1. \A e \in breaks : e < p
        BY <1>1, <1>10
      <4> QED
        BY <1>1, <4>1, ListAppend, Zenon
    <3> QED
      BY <1>6, <1>8, <1>11, <2>2, <3>1, <3>3, <3>4
  <2>3. record > n \/ record <= n
    BY <1>1, <1>3
  <2> QED
    BY <2>1, <2>2, <2>3
<1> QED
  BY <1>12, <1>13 DEF separators, breaks

\* A text that ends between quotes has a cell that is not well formed.
LEMMA QuoteUnclosed ==
  ASSUME NEW X, NEW s \in Seq(X), NEW delimiter \in Delimiters, NEW at,
         Reached(s, delimiter, at), at.state = "quoted", at.next > Len(s)
  PROVE  \E e \in Ends(s, Separators(s, delimiter), Breaks(s)) :
           ~WellFormed(CellAt(s, Separators(s, delimiter), e))
<1> DEFINE n == Len(s)
           p == at.next
           separators == Separators(s, delimiter)
           breaks == Breaks(s)
           cell == After(s, separators, p)
           record == After(s, breaks, p)
           segment == SubSeq(s, cell, n)
           t == SubSeq(s, cell + 1, n)
           m == n - cell
<1>1. /\ n \in Nat /\ p = n + 1 /\ p - 1 = n /\ p \in 1..(n + 1) /\ p \in Nat /\ p <= p
      /\ separators \in SUBSET (1..n) /\ breaks \in SUBSET (1..n)
  BY CutFacts DEF Reached
<1>2. InCell(s, delimiter, at) /\ InFile(s, delimiter, at)
  BY DEF Reached
<1>3. cell \in Nat \ {0} /\ record \in Nat \ {0} /\ record <= cell
  <2>1. cell \in Nat \ {0} /\ record \in Nat \ {0}
    <3> HIDE DEF p, separators, breaks
    <3> QED
      BY <1>1, AfterFacts
  <2> QED
    BY <1>2, <2>1 DEF InFile
<1>4. cell < p /\ s[cell] = Quote /\ Paired(SubSeq(s, cell + 1, p - 1))
  BY <1>2 DEF InCell
<1>5. p \in Ends(s, separators, breaks) /\ CellAt(s, separators, p) = segment
  <2>1. record <= n
    BY <1>1, <1>3, <1>4
  <2> QED
    BY <1>1, <2>1 DEF Ends, CellAt
<1>6. Even(Quotes(t))
  BY <1>1, <1>4 DEF Paired
<1> HIDE DEF p, separators, breaks, cell, record
<1>7. ASSUME WellFormed(segment) PROVE FALSE
  <2>1. cell \in 1..(n + 1) /\ n \in 0..n /\ cell <= n + 1 /\ cell <= n
    BY <1>1, <1>3, <1>4
  <2>2. segment \in Seq(X) /\ Len(segment) = n - cell + 1 /\ segment[1] = s[cell]
    <3>1. /\ segment \in Seq(X) /\ Len(segment) = n - cell + 1
          /\ \A i \in 1..(n - cell + 1) : segment[i] = s[cell + i - 1]
      BY <2>1, Segment
    <3>2. 1 \in 1..(n - cell + 1) /\ cell + 1 - 1 = cell
      BY <1>1, <2>1
    <3> HIDE DEF segment
    <3> QED
      BY <3>1, <3>2
  <2> HIDE DEF segment
  <2>3. Quotes(segment) # {}
    <3>1. 1 \in DOMAIN segment
      BY <1>1, <2>1, <2>2
    <3> QED
      BY <1>4, <2>2, <3>1 DEF Quotes
  <2>4. Len(segment) > 1 /\ segment[Len(segment)] = Quote /\ Paired(Inner(segment))
    BY <1>7, <2>3 DEF WellFormed
  <2>5. m \in Nat /\ m >= 1 /\ cell + 1 < n + 1 /\ n + 1 \in 1..(n + 1)
    BY <1>1, <2>1, <2>2, <2>4
  <2>6. segment[Len(segment)] = s[n] /\ Inner(segment) = SubSeq(s, cell + 1, n - 1)
    <3>1. (n + 1) - 1 = n /\ (n + 1) - 2 = n - 1
      BY <1>1
    <3>2. /\ SubSeq(s, cell, (n + 1) - 1)[Len(SubSeq(s, cell, (n + 1) - 1))] = s[(n + 1) - 1]
          /\ Inner(SubSeq(s, cell, (n + 1) - 1)) = SubSeq(s, cell + 1, (n + 1) - 2)
      BY <1>3, <2>5, InnerSegment
    <3> QED
      BY <3>1, <3>2 DEF segment
  <2>7. /\ t \in Seq(X) /\ Len(t) = m /\ t[m] = s[n]
        /\ {i \in Quotes(t) : i < m} = Quotes(SubSeq(s, cell + 1, n - 1))
    <3> DEFINE a == cell + 1
               j == n - 1
    <3>1. /\ a \in Nat \ {0} /\ j \in Nat /\ n \in 0..n /\ a <= j + 1 /\ j <= n
          /\ j - a + 2 = m - 0 /\ n - a + 1 = m /\ m \in 1..(n - a + 1) /\ a + m - 1 = n
      BY <1>1, <2>1, <2>5
    <3>2. m - 0 = m
      BY <2>5
    <3> HIDE DEF a, j
    <3>3. /\ SubSeq(s, a, n) \in Seq(X) /\ Len(SubSeq(s, a, n)) = n - a + 1
          /\ \A i \in 1..(n - a + 1) : SubSeq(s, a, n)[i] = s[a + i - 1]
          /\ {i \in Quotes(SubSeq(s, a, n)) : i < j - a + 2} = Quotes(SubSeq(s, a, j))
      BY <3>1, QuotesBefore
    <3> HIDE DEF m, n
    <3> QED
      BY <3>1, <3>2, <3>3 DEF a, j
  <2> HIDE DEF t, m
  <2>8. m \in 1..Len(t) /\ t[m] = Quote
    BY <2>4, <2>5, <2>6, <2>7
  <2>9. {i \in Quotes(t) : i < m + 1} = Quotes(t)
    <3>1. \A i \in Quotes(t) : i \in 1..m
      BY <2>7, ParityStep
    <3>2. \A i \in Quotes(t) : i < m + 1
      BY <2>5, <3>1
    <3> QED
      BY <3>2
  <2>10. Even({i \in Quotes(t) : i < m + 1}) <=> ~Even({i \in Quotes(t) : i < m})
    BY <2>7, <2>8, ParityStep
  <2>11. Even({i \in Quotes(t) : i < m})
    BY <2>4, <2>6, <2>7 DEF Paired
  <2> QED
    BY <1>6, <2>9, <2>10, <2>11
<1> QED
  BY <1>5, <1>7 DEF separators, breaks
\* A quote where none may be is in a cell that is not well formed, wherever that cell ends.
LEMMA QuoteMalformed ==
  ASSUME NEW X, NEW s \in Seq(X), NEW delimiter \in Delimiters, NEW at,
         Reached(s, delimiter, at), at.next <= Len(s),
         \/ at.state = "plain" /\ s[at.next] = Quote /\ at.cell # <<>>
         \/ at.state = "after-quote" /\ s[at.next] \notin {delimiter, Lf, Cr}
  PROVE  \E e \in Ends(s, Separators(s, delimiter), Breaks(s)) :
           ~WellFormed(CellAt(s, Separators(s, delimiter), e))
<1> DEFINE n == Len(s)
           p == at.next
           separators == Separators(s, delimiter)
           breaks == Breaks(s)
           cell == After(s, separators, p)
           record == After(s, breaks, p)
<1>1. /\ n \in Nat /\ p \in 1..n /\ p \in 1..(n + 1) /\ p \in Int /\ p <= p
      /\ separators \in SUBSET (1..n) /\ breaks \in SUBSET separators /\ breaks \in SUBSET (1..n)
  BY CutFacts DEF Reached
<1>2. InCell(s, delimiter, at) /\ InFile(s, delimiter, at)
  BY DEF Reached
<1>3. cell \in Nat \ {0} /\ record \in Nat \ {0} /\ record <= cell /\ cell <= p
  <2>1. cell \in Nat \ {0} /\ record \in Nat \ {0}
    <3> HIDE DEF p, separators, breaks
    <3> QED
      BY <1>1, AfterFacts
  <2> QED
    BY <1>2, <2>1 DEF InFile
<1>4. p \notin separators
  <2>1. s[p] \notin {delimiter, Lf, Cr}
    BY CutFacts
  <2> HIDE DEF p
  <2> QED
    BY <1>1, <2>1, NoCut
<1>5. PICK e \in (p + 1)..(n + 1) : /\ e \in separators \/ e = n + 1
                                    /\ \A i \in p..(e - 1) : i \notin separators
  <2> DEFINE later == {i \in separators : i > p}
  <2>1. \A i \in separators : i \in 1..n /\ i \in Int /\ i # p
    BY <1>1, <1>4
  <2> HIDE DEF separators, p
  <2>2. CASE later = {}
    <3>1. n + 1 \in (p + 1)..(n + 1) /\ \A i \in p..((n + 1) - 1) : i \notin separators
      <4>1. \A i \in separators : ~(i > p)
        BY <2>2
      <4> QED
        BY <1>1, <2>1, <4>1
    <3> QED
      BY <3>1
  <2>3. CASE later # {}
    <3> DEFINE first == Min(later)
    <3>1. later \in SUBSET (1..n)
      BY <2>1
    <3>2. first \in later /\ \A i \in later : first <= i
      <4> HIDE DEF later
      <4> QED
        BY <1>1, <2>3, <3>1, Bounds
    <3> HIDE DEF first
    <3>3. first \in separators /\ first \in (p + 1)..(n + 1)
      BY <1>1, <2>1, <3>2
    <3>4. \A i \in p..(first - 1) : i \notin separators
      <4> SUFFICES ASSUME NEW i \in separators, i \in p..(first - 1) PROVE FALSE
        OBVIOUS
      <4>1. i > p
        BY <1>1, <2>1
      <4>2. first <= i
        BY <3>2, <4>1
      <4> QED
        BY <2>1, <3>3, <4>2
    <3> QED
      BY <3>3, <3>4
  <2> QED
    BY <2>2, <2>3
<1> DEFINE segment == SubSeq(s, cell, e - 1)
<1>6. e \in 1..(n + 1) /\ p <= e /\ p < e /\ e \in Int /\ e - 1 \in 0..n
  BY <1>1, <1>5
<1>7. CellAt(s, separators, e) = segment
  <2>1. After(s, separators, e) = cell
    <3> HIDE DEF p, separators
    <3> QED
      BY <1>1, <1>5, <1>6, AfterFacts
  <2> QED
    BY <2>1 DEF CellAt
<1>8. e \in Ends(s, separators, breaks)
  <2>1. CASE e \in separators
    BY <2>1 DEF Ends
  <2>2. CASE e = n + 1
    <3>1. \A i \in p..(e - 1) : i \notin breaks
      BY <1>1, <1>5
    <3>2. After(s, breaks, e) = record
      <4> HIDE DEF p, breaks
      <4> QED
        BY <1>1, <1>6, <3>1, AfterFacts
    <3>3. record <= n
      BY <1>1, <1>3
    <3> QED
      BY <2>2, <3>2, <3>3 DEF Ends
  <2> QED
    BY <1>5, <2>1, <2>2
<1>9. /\ at.state = "plain" => at.cell = SubSeq(s, cell, p - 1) /\ Quotes(at.cell) = {}
      /\ at.state = "after-quote" =>
           /\ cell + 1 < p /\ s[cell] = Quote /\ s[p - 1] = Quote
           /\ Paired(SubSeq(s, cell + 1, p - 2)) /\ s[p] # Quote
  BY <1>1, <1>2 DEF InCell
<1>10. \/ at.state = "plain" /\ s[p] = Quote /\ at.cell # <<>>
       \/ at.state = "after-quote"
  OBVIOUS
<1> HIDE DEF n, p, separators, breaks, cell, record
<1>11. /\ segment \in Seq(X) /\ Len(segment) = e - cell /\ DOMAIN segment = 1..(e - cell)
       /\ \A i \in 1..(e - cell) : segment[i] = s[cell + i - 1]
  <2>1. /\ cell \in 1..(Len(s) + 1) /\ cell <= (e - 1) + 1 /\ (e - 1) - cell + 1 = e - cell
        /\ e - 1 \in 0..Len(s)
    BY <1>1, <1>3, <1>6 DEF n
  <2>2. /\ segment \in Seq(X) /\ Len(segment) = e - cell
        /\ \A i \in 1..(e - cell) : segment[i] = s[cell + i - 1]
    BY <2>1, Segment
  <2> HIDE DEF segment
  <2> QED
    BY <2>2
<1>12. 1 \in 1..(e - cell) /\ cell + 1 - 1 = cell
  BY <1>1, <1>3, <1>6
<1>13. segment[1] = s[cell]
  BY <1>11, <1>12
<1> HIDE DEF segment
<1>14. CASE at.state = "plain" /\ s[p] = Quote /\ at.cell # <<>>
  <2> DEFINE t == SubSeq(s, cell, p - 1)
             i == p - cell + 1
  <2>1. t # <<>> /\ Quotes(t) = {}
    BY <1>9, <1>14
  <2>2. t \in Seq(X) /\ \A k \in 1..(p - cell) : t[k] = s[cell + k - 1]
    <3>1. /\ cell \in 1..(Len(s) + 1) /\ p - 1 \in 0..Len(s) /\ cell <= (p - 1) + 1
          /\ (p - 1) - cell + 1 = p - cell
      BY <1>1, <1>3 DEF n
    <3> QED
      BY <3>1, Segment
  <2> HIDE DEF t
  <2>3. 1 \in DOMAIN t /\ t[1] # Quote
    BY <2>1, <2>2 DEF Quotes
  <2>4. cell < p
    <3>1. SUFFICES ASSUME cell = p PROVE FALSE
      BY <1>1, <1>3
    <3>2. p - 1 < p /\ p - 1 \in Int /\ p \in Int
      BY <1>1
    <3> QED
      BY <2>1, <3>1, <3>2, SubSeqEmpty DEF t
  <2>5. s[cell] # Quote
    <3>1. 1 \in 1..(p - cell)
      BY <1>1, <1>3, <2>4
    <3> QED
      BY <1>12, <2>2, <2>3, <3>1
  <2>6. i \in 1..(e - cell) /\ cell + i - 1 = p
    BY <1>1, <1>3, <1>6
  <2> HIDE DEF i
  <2>7. i \in Quotes(segment)
    BY <1>11, <1>14, <2>6 DEF Quotes
  <2>8. ~WellFormed(segment)
    BY <1>13, <2>5, <2>7 DEF WellFormed
  <2> QED
    BY <1>7, <1>8, <2>8 DEF separators, breaks
<1>15. CASE at.state = "after-quote"
  <2> DEFINE t == SubSeq(s, cell + 1, e - 2)
             i == (p - 1) - cell
  <2>1. cell + 1 < p /\ s[cell] = Quote /\ s[p - 1] = Quote /\ s[p] # Quote
    BY <1>9, <1>15
  <2>2. Even(Quotes(SubSeq(s, cell + 1, p - 2)))
    BY <1>9, <1>15 DEF Paired
  <2>3. Quotes(segment) # {}
    BY <1>11, <1>12, <1>13, <2>1 DEF Quotes
  <2>4. Inner(segment) = t
    <3>1. cell + 1 < e /\ cell \in Nat \ {0} /\ e \in 1..(Len(s) + 1)
      BY <1>1, <1>3, <1>6, <2>1 DEF n
    <3> QED
      BY <3>1, InnerSegment DEF segment
  <2>5. /\ t \in Seq(X) /\ Len(t) = (e - 2) - cell
        /\ \A k \in 1..((e - 2) - cell) : t[k] = s[cell + k]
        /\ {k \in Quotes(t) : k < i} = Quotes(SubSeq(s, cell + 1, p - 2))
    <3> DEFINE a == cell + 1
               j == p - 2
               z == e - 2
    <3>1. /\ a \in Nat \ {0} /\ j \in Nat /\ z \in 0..Len(s) /\ a <= j + 1 /\ j <= z
          /\ j - a + 2 = i /\ z - a + 1 = (e - 2) - cell
          /\ \A k \in 1..((e - 2) - cell) : a + k - 1 = cell + k
      BY <1>1, <1>3, <1>6, <2>1 DEF n
    <3> HIDE DEF a, j, z, i
    <3>2. /\ SubSeq(s, a, z) \in Seq(X) /\ Len(SubSeq(s, a, z)) = z - a + 1
          /\ \A k \in 1..(z - a + 1) : SubSeq(s, a, z)[k] = s[a + k - 1]
          /\ {k \in Quotes(SubSeq(s, a, z)) : k < j - a + 2} = Quotes(SubSeq(s, a, j))
      <4>1. a \in Nat \ {0} /\ j \in Nat /\ z \in 0..Len(s) /\ a <= j + 1 /\ j <= z
        BY <3>1
      <4> HIDE DEF t, segment
      <4> QED
        BY <4>1, QuotesBefore
    <3>3. SubSeq(s, a, z) = t /\ SubSeq(s, a, j) = SubSeq(s, cell + 1, p - 2)
      BY DEF a, z, j
    <3> HIDE DEF t
    <3> QED
      BY <3>1, <3>2, <3>3
  <2>6. i \in 1..((e - 2) - cell) /\ cell + i = p - 1 /\ cell + (i + 1) = p /\ i \in Int
    BY <1>1, <1>3, <1>6, <2>1
  <2> HIDE DEF t, i
  <2>7. i \in 1..Len(t) /\ t[i] = Quote /\ DOMAIN t = 1..((e - 2) - cell)
    BY <2>1, <2>5, <2>6
  <2>8. i \in Quotes(t) /\ i \in Outside(t)
    <3>1. i \in Quotes(t)
      BY <2>6, <2>7 DEF Quotes
    <3>2. i \in Outside(t)
      BY <2>2, <2>5, <2>7, ParityStep
    <3> QED
      BY <3>1, <3>2
  <2>9. i + 1 \notin Quotes(t)
    <3> SUFFICES ASSUME i + 1 \in Quotes(t) PROVE FALSE
      OBVIOUS
    <3>1. i + 1 \in 1..((e - 2) - cell) /\ t[i + 1] = Quote
      BY <2>7 DEF Quotes
    <3>2. t[i + 1] = s[cell + (i + 1)]
      BY <2>5, <3>1
    <3> QED
      BY <2>1, <2>6, <3>1, <3>2
  <2>10. ~WellFormed(segment)
    BY <2>3, <2>4, <2>8, <2>9 DEF WellFormed, Paired
  <2> QED
    BY <1>7, <1>8, <2>10 DEF separators, breaks
<1> QED
  BY <1>10, <1>14, <1>15
\* At its start, the automaton has nothing.
LEMMA NothingRead ==
  ASSUME NEW X, NEW s \in Seq(X), NEW delimiter \in Delimiters
  PROVE  Reached(s, delimiter, Start)
<1> DEFINE n == Len(s)
           separators == Separators(s, delimiter)
           breaks == Breaks(s)
<1>1. n \in Nat /\ separators \in SUBSET (1..n) /\ breaks \in SUBSET (1..n)
  BY CutFacts
<1>2. /\ Start.next = 1 /\ Start.state = "plain" /\ Start.cell = <<>> /\ Start.record = <<>>
      /\ Start.records = <<>> /\ 1 \in 1..(n + 1)
  BY <1>1 DEF Start
<1> HIDE DEF n, separators, breaks
<1>3. \A e \in separators : ~(e < 1)
  BY <1>1
<1>4. {e \in breaks : e < 1} = {} /\ {e \in separators : e < 1} = {}
  <2>1. \A e \in breaks : ~(e < 1)
    BY <1>1
  <2> QED
    BY <1>3, <2>1
<1>5. After(s, separators, 1) = 1 /\ After(s, breaks, 1) = 1
  BY <1>4 DEF After
<1>6. SubSeq(s, 1, 0) = <<>> /\ Quotes(<<>>) = {}
  BY SubSeqEmpty DEF Quotes
<1>7. separators \cap (1..0) = {} /\ 1 - 1 = 0 /\ 1 <= 1
  OBVIOUS
<1>8. Even({i \in Quotes(s) : i < 1})
  BY ParityStep
<1>9. InCell(s, delimiter, Start)
  BY <1>2, <1>5, <1>6, <1>7, <1>8 DEF InCell, separators
<1>10. Mapping(InOrder({}), ValuesOf(s, delimiter)) = <<>>
       /\ Mapping(InOrder({}), LinesOf(s, delimiter)) = <<>>
  BY ListEmpty
<1>11. InFile(s, delimiter, Start)
  BY <1>2, <1>3, <1>4, <1>5, <1>7, <1>10 DEF InFile, separators, breaks
<1> QED
  BY <1>2, <1>9, <1>11 DEF Reached, n

\* Every step of the automaton that goes on.
LEMMA ReachedStep ==
  ASSUME ScanInv, profile.delimiter \in Delimiters, Reached(content, profile.delimiter, scan),
         Scan, phase' = "scanning"
  PROVE  Reached(content, profile.delimiter, scan')
<1> DEFINE C == Characters
           s == content
           d == profile.delimiter
           to == scan'
<1>1. /\ s \in Seq(C) /\ scan.cell \in Seq(C) /\ scan.record \in Seq(Seq(C))
      /\ scan.next \in Int /\ Len(s) \in Int /\ d \in Delimiters /\ Reached(s, d, scan)
      /\ scan.state \in {"plain", "quoted", "after-quote"} /\ Quote \in C
  BY DEF ScanInv, Characters
<1> DEFINE Effect(state, next, cell, record, records) ==
             /\ to.state = state /\ to.next = next /\ to.cell = cell
             /\ to.record = record /\ to.records = records
<1>2. \A state, next, cell, record, records :
        to = Scanned(state, next, cell, record, records)
          => Effect(state, next, cell, record, records)
  BY DEF Scanned
<1> HIDE DEF C, s, d, to
<1>3. CASE EscapedQuote
  <2>1. to = Scanned(scan.state, scan.next + 2, Append(scan.cell, Quote), scan.record, scan.records)
    BY <1>3, ScanEffects DEF to
  <2>2. Effect(scan.state, scan.next + 2, Append(scan.cell, Quote), scan.record, scan.records)
    BY <1>2, <2>1
  <2>3. /\ scan.state = "quoted" /\ scan.next < Len(s)
        /\ s[scan.next] = Quote /\ s[scan.next + 1] = Quote
    BY <1>3 DEF EscapedQuote, Scanning, Current, Follows, s
  <2>4. /\ to.state = "quoted" /\ to.next = scan.next + 2 /\ to.cell = Append(scan.cell, Quote)
        /\ to.record = scan.record /\ to.records = scan.records
    BY <2>2, <2>3
  <2>5. Reached(s, d, to)
    BY <1>1, <2>3, <2>4, QuoteDoubled
  <2> QED
    BY <2>5 DEF s, d, to
<1>4. CASE CloseQuote
  <2>1. to = Scanned("after-quote", scan.next + 1, scan.cell, scan.record, scan.records)
    BY <1>4, ScanEffects DEF to
  <2>2. Effect("after-quote", scan.next + 1, scan.cell, scan.record, scan.records)
    BY <1>2, <2>1
  <2>3. /\ scan.state = "quoted" /\ scan.next <= Len(s) /\ s[scan.next] = Quote
        /\ ~(scan.next < Len(s) /\ s[scan.next + 1] = Quote)
    BY <1>4 DEF CloseQuote, Scanning, Current, Follows, s
  <2>4. Reached(s, d, to)
    BY <1>1, <2>2, <2>3, QuoteClosed
  <2> QED
    BY <2>4 DEF s, d, to
<1>5. CASE QuotedCharacter \/ PlainCharacter
  <2>1. to = Scanned(scan.state, scan.next + 1, Append(scan.cell, s[scan.next]),
                     scan.record, scan.records)
    BY <1>5, ScanEffects DEF to, s, Current
  <2>2. Effect(scan.state, scan.next + 1, Append(scan.cell, s[scan.next]),
               scan.record, scan.records)
    BY <1>2, <2>1
  <2>3. /\ scan.next <= Len(s) /\ s[scan.next] # Quote
        /\ \/ scan.state = "quoted"
           \/ scan.state = "plain" /\ s[scan.next] \notin {d, Lf, Cr}
    BY <1>5 DEF QuotedCharacter, PlainCharacter, Scanning, Current, AtDelimiter, AtLineEnd, s, d
  <2>4. Reached(s, d, to)
    BY <1>1, <2>2, <2>3, CharacterKept
  <2> QED
    BY <2>4 DEF s, d, to
<1>6. CASE OpenQuote
  <2>1. to = Scanned("quoted", scan.next + 1, scan.cell, scan.record, scan.records)
    BY <1>6, ScanEffects DEF to
  <2>2. Effect("quoted", scan.next + 1, scan.cell, scan.record, scan.records)
    BY <1>2, <2>1
  <2>3. /\ scan.state = "plain" /\ scan.next <= Len(s) /\ s[scan.next] = Quote
        /\ scan.cell = <<>>
    BY <1>6 DEF OpenQuote, Scanning, Current, s
  <2>4. Reached(s, d, to)
    BY <1>1, <2>2, <2>3, QuoteOpened
  <2> QED
    BY <2>4 DEF s, d, to
<1>7. CASE EndCell
  <2>1. to = Scanned("plain", scan.next + 1, <<>>, Append(scan.record, scan.cell), scan.records)
    BY <1>7, ScanEffects DEF to
  <2>2. Effect("plain", scan.next + 1, <<>>, Append(scan.record, scan.cell), scan.records)
    BY <1>2, <2>1
  <2>3. scan.state # "quoted" /\ scan.next <= Len(s) /\ s[scan.next] = d
    BY <1>7 DEF EndCell, Scanning, Current, AtDelimiter, s, d
  <2>4. Reached(s, d, to)
    BY <1>1, <2>2, <2>3, CellEnded
  <2> QED
    BY <2>4 DEF s, d, to
<1>8. CASE EndRecord
  <2> DEFINE q == scan.next + LineEndLength
  <2>1. to = Scanned("plain", q, <<>>, <<>>, Append(scan.records, Append(scan.record, scan.cell)))
    BY <1>8, ScanEffects DEF to
  <2>2. Effect("plain", q, <<>>, <<>>, Append(scan.records, Append(scan.record, scan.cell)))
    BY <1>2, <2>1
  <2>3. scan.state # "quoted" /\ scan.next <= Len(s) /\ s[scan.next] \in {Lf, Cr}
    BY <1>8 DEF EndRecord, Scanning, Current, AtLineEnd, s
  <2>4. q = IF scan.next < Len(s) /\ s[scan.next] = Cr /\ s[scan.next + 1] = Lf
            THEN scan.next + 2 ELSE scan.next + 1
    BY DEF LineEndLength, Current, Follows, s
  <2> HIDE DEF q
  <2>5. Reached(s, d, to)
    BY <1>1, <2>2, <2>3, <2>4, RecordEnded
  <2> QED
    BY <2>5 DEF s, d, to
<1>9. CASE MalformedQuote \/ EndOfFile
  BY <1>9 DEF MalformedQuote, EndOfFile
<1> QED
  BY <1>3, <1>4, <1>5, <1>6, <1>7, <1>8, <1>9 DEF Scan
\* Its last step, at the end of the file or at a quote where none may be.
LEMMA ScanEnds ==
  ASSUME ScanInv, profile.delimiter \in Delimiters, Reached(content, profile.delimiter, scan),
         Scan, phase' # "scanning"
  PROVE  ParsesQuotedText' /\ ParsedInv'
<1> DEFINE s == content
           d == profile.delimiter
           separators == Separators(s, d)
           wellFormed == \A e \in Ends(s, separators, Breaks(s)) : WellFormed(CellAt(s, separators, e))
<1>1. /\ s \in Seq(Characters) /\ scan.next \in Int /\ Len(s) \in Int /\ d \in Delimiters
      /\ Reached(s, d, scan)
  BY DEF ScanInv
<1>2. MalformedQuote \/ EndOfFile
  BY DEF Scan, EscapedQuote, CloseQuote, QuotedCharacter, OpenQuote, EndCell, EndRecord,
         PlainCharacter, Scanning
<1>3. content' = s /\ profile'.delimiter = d
  BY <1>2 DEF MalformedQuote, EndOfFile
<1> HIDE DEF s, d, separators
<1>4. SUFFICES \/ phase' = "malformed" /\ ~wellFormed
               \/ phase' = "parsed" /\ wellFormed /\ scan'.records = RecordsOf(s, d)
  BY <1>3 DEF ParsesQuotedText, ParsedInv, separators
<1>5. CASE MalformedQuote
  <2>1. /\ scan.next <= Len(s)
        /\ \/ scan.state = "plain" /\ s[scan.next] = Quote /\ scan.cell # <<>>
           \/ scan.state = "after-quote" /\ s[scan.next] \notin {d, Lf, Cr}
    BY <1>5 DEF MalformedQuote, Scanning, Current, AtDelimiter, AtLineEnd, s, d
  <2>2. \E e \in Ends(s, Separators(s, d), Breaks(s)) :
          ~WellFormed(CellAt(s, Separators(s, d), e))
    BY <1>1, <2>1, QuoteMalformed
  <2> QED
    BY <1>5, <2>2 DEF MalformedQuote, separators
<1>6. CASE EndOfFile /\ scan.state = "quoted"
  <2>1. scan.next > Len(s)
    BY <1>6 DEF EndOfFile, s
  <2>2. \E e \in Ends(s, Separators(s, d), Breaks(s)) :
          ~WellFormed(CellAt(s, Separators(s, d), e))
    BY <1>1, <1>6, <2>1, QuoteUnclosed
  <2> QED
    BY <1>6, <2>2 DEF EndOfFile, separators
<1>7. CASE EndOfFile /\ scan.state # "quoted"
  <2> DEFINE grown == Append(scan.records, Append(scan.record, scan.cell))
             nothing == scan.cell = <<>> /\ scan.record = <<>> /\ scan.state = "plain"
             records == IF nothing THEN scan.records ELSE grown
  <2>1. /\ scan.next > Len(s) /\ phase' = "parsed"
        /\ scan' = IF nothing THEN scan ELSE [scan EXCEPT !.records = grown]
    BY <1>7 DEF EndOfFile, s
  <2>2. [scan EXCEPT !.records = grown].records = grown
    <3>1. scan = Scanned(scan.state, scan.next, scan.cell, scan.record, scan.records)
      BY ScanEffects
    <3>2. "records" \in DOMAIN scan
      BY <3>1 DEF Scanned
    <3> HIDE DEF grown
    <3> QED
      BY <3>2
  <2>3. scan'.records = records
    BY <2>1, <2>2
  <2>4. /\ \A e \in Ends(s, Separators(s, d), Breaks(s)) :
             WellFormed(CellAt(s, Separators(s, d), e))
        /\ records = RecordsOf(s, d)
    BY <1>1, <1>7, <2>1, FileEnded
  <2> QED
    BY <2>1, <2>3, <2>4 DEF separators
<1> QED
  BY <1>2, <1>5, <1>6, <1>7

LEMMA InitGrammar == Init => GrammarInv /\ ParsesQuotedText /\ ParsedInv
BY DEF Init, GrammarInv, ParsesQuotedText, ParsedInv

LEMMA StepGrammar ==
  ASSUME ProfilesInv, ScanInv, GrammarInv, ParsesQuotedText, ParsedInv, [Next]_vars
  PROVE  GrammarInv' /\ ParsesQuotedText' /\ ParsedInv'
<1>1. CASE UNCHANGED <<content, profile, phase, scan>>
  BY <1>1 DEF GrammarInv, ParsesQuotedText, ParsedInv
<1>2. CASE Upload
  <2>1. PICK file \in Files[scenario] :
          Read(file.content, IF file.form = AsShown THEN shown.form ELSE file.form)
    BY <1>2 DEF Upload
  <2> DEFINE form == IF file.form = AsShown THEN shown.form ELSE file.form
  <2>2. /\ content' = file.content /\ profile' = Options(form) /\ scan' = Start
        /\ phase' = IF Refused(file.content, form) THEN "refused" ELSE "scanning"
    BY <2>1 DEF Read
  <2> HIDE DEF form
  <2>3. phase' \notin {"malformed", "parsed", "preview"}
    BY <2>2
  <2>4. ASSUME phase' = "scanning" PROVE GrammarInv'
    <3>1. ~FormRefused(form)
      BY <2>2, <2>4 DEF Refused
    <3>2. profile'.delimiter = form.delimiter /\ form.delimiter \in Delimiters
      BY <2>2, <3>1 DEF Options, FormRefused
    <3>3. content' \in Seq(Characters)
      <4>1. scenario \in Scenarios
        BY DEF ProfilesInv
      <4> QED
        BY <2>2, <4>1, FilesAssumption
    <3>4. Reached(content', profile'.delimiter, Start)
      BY <3>2, <3>3, NothingRead
    <3> QED
      BY <2>2, <3>2, <3>4 DEF GrammarInv, Reached
  <2>5. ParsesQuotedText' /\ ParsedInv'
    BY <2>3 DEF ParsesQuotedText, ParsedInv
  <2>6. phase' # "scanning" => GrammarInv'
    BY DEF GrammarInv
  <2> QED
    BY <2>4, <2>5, <2>6
<1>3. CASE ScanStep
  <2>1. Scan /\ phase = "scanning"
    BY <1>3 DEF ScanStep, Scan, EscapedQuote, CloseQuote, QuotedCharacter, OpenQuote,
                MalformedQuote, EndCell, EndRecord, PlainCharacter, EndOfFile, Scanning
  <2>2. profile.delimiter \in Delimiters /\ Reached(content, profile.delimiter, scan)
    BY <2>1 DEF GrammarInv, Reached, ScanInv
  <2>3. content' = content /\ profile' = profile
    BY <2>1 DEF Scan, EscapedQuote, CloseQuote, QuotedCharacter, OpenQuote,
                MalformedQuote, EndCell, EndRecord, PlainCharacter, EndOfFile
  <2>4. CASE phase' = "scanning"
    <3>1. Reached(content, profile.delimiter, scan')
      BY <2>1, <2>2, <2>4, ReachedStep
    <3>2. GrammarInv'
      BY <2>2, <2>3, <3>1 DEF GrammarInv, Reached
    <3>3. ParsesQuotedText' /\ ParsedInv'
      BY <2>4 DEF ParsesQuotedText, ParsedInv
    <3> QED
      BY <3>2, <3>3
  <2>5. CASE phase' # "scanning"
    <3>1. ParsesQuotedText' /\ ParsedInv'
      BY <2>1, <2>2, <2>5, ScanEnds
    <3>2. GrammarInv'
      BY <2>5 DEF GrammarInv
    <3> QED
      BY <3>1, <3>2
  <2> QED
    BY <2>4, <2>5
<1>4. CASE Preview \/ StructureRefused
  <2>1. /\ phase = "parsed" /\ phase' \in {"preview", "refused"}
        /\ content' = content /\ profile' = profile /\ scan' = scan
    BY <1>4 DEF Preview, StructureRefused
  <2>2. ParsedInv'
    BY <2>1 DEF ParsedInv
  <2>3. GrammarInv' /\ ParsesQuotedText'
    BY <2>1 DEF GrammarInv, ParsesQuotedText
  <2> QED
    BY <2>2, <2>3
<1>5. CASE Confirm \/ Abandon
  <2>1. phase' = "idle"
    BY <1>5 DEF Confirm, Abandon, Leave
  <2> QED
    BY <2>1 DEF GrammarInv, ParsesQuotedText, ParsedInv
<1> QED
  BY <1>1, <1>2, <1>3, <1>4, <1>5 DEF Next, vars, Profiles, EditPurpose, DeleteRow, parserVars

\* A file is refused as malformed exactly when the grammar has no reading of it, and is
\* otherwise read as the grammar says, however long it is.
THEOREM ParsesQuoted == Spec => []ParsesQuotedText
<1>1. /\ ProfilesInv /\ ScanInv /\ GrammarInv /\ ParsesQuotedText /\ ParsedInv /\ [Next]_vars
      => (ProfilesInv /\ ScanInv /\ GrammarInv /\ ParsesQuotedText /\ ParsedInv)'
  BY StepProfiles, StepScan, StepGrammar
<1> QED
  BY <1>1, InitProfiles, InitScan, InitGrammar, PTL DEF Spec
-----------------------------------------------------------------------------
(* A confirmed file that is uploaded again.                                *)

\* A row is found again when the ledger has, for every row it was found in before, one
\* that it still is found in.
LEMMA StaysDuplicate ==
  ASSUME \A identity \in ledger : \E kept \in ledger' :
           \A row : MatchesPersisted(row, identity) => MatchesPersisted(row, kept),
         NEW parsed, NEW candidates, NEW k, Duplicate(parsed, candidates, k)
  PROVE  Duplicate(parsed, candidates, k)'
<1>1. CASE \E identity \in ledger : MatchesPersisted(parsed[k], identity)
  <2>1. PICK identity \in ledger : MatchesPersisted(parsed[k], identity)
    BY <1>1
  <2>2. PICK kept \in ledger' :
          \A row : MatchesPersisted(row, identity) => MatchesPersisted(row, kept)
    OBVIOUS
  <2>3. MatchesPersisted(parsed[k], kept)
    BY <2>1, <2>2
  <2> QED
    BY <2>3 DEF Duplicate
<1>2. CASE \E j \in candidates : j < k /\ ImportHash(parsed[j]) = ImportHash(parsed[k])
  BY <1>2 DEF Duplicate
<1> QED
  BY <1>1, <1>2 DEF Duplicate

\* What a confirmation imports, the ledger has.
LEMMA ConfirmAdds ==
  ASSUME ScanInv, PreviewInv, Confirm, NEW parsed, parsed = rows, NEW k \in Sound(parsed)
  PROVE  Duplicate(parsed, Sound(parsed), k)'
<1>1. phase = "preview" /\ ledger' = ledger \cup {Imported(rows[j]) : j \in Accepted}
  BY DEF Confirm
<1>2. k \in DOMAIN parsed /\ DOMAIN outcomes = DOMAIN parsed /\ outcomes[k] = Outcome(parsed, k)
  <2>1. k \in DOMAIN parsed
    BY DEF Sound
  <2> QED
    BY <1>1, <2>1, RowsTyped
<1>3. CASE Duplicate(parsed, Sound(parsed), k)
  <2>1. \A identity \in ledger : \E kept \in ledger' :
          \A row : MatchesPersisted(row, identity) => MatchesPersisted(row, kept)
    <3> SUFFICES ASSUME NEW identity \in ledger
                 PROVE  \E kept \in ledger' :
                          \A row : MatchesPersisted(row, identity) => MatchesPersisted(row, kept)
      OBVIOUS
    <3>1. identity \in ledger'
      BY <1>1
    <3> QED
      BY <3>1
  <2> QED
    BY <1>3, <2>1, StaysDuplicate
<1>4. CASE ~Duplicate(parsed, Sound(parsed), k)
  <2>1. Outcome(parsed, k) = Importable
    BY <1>2, <1>4, OutcomeFacts
  <2>2. Imported(parsed[k]) \in ledger'
    BY <1>1, <1>2, <2>1 DEF Accepted
  <2>3. MatchesPersisted(parsed[k], Imported(parsed[k]))
    <3>1. /\ Imported(parsed[k]).hash = ImportHash(parsed[k])
          /\ ImportHash(parsed[k]) \in Candidates(parsed[k])
          /\ ImportHash(parsed[k]).version = "v3"
      BY ImportedFacts
    <3> QED
      BY <3>1 DEF MatchesPersisted
  <2> QED
    BY <2>2, <2>3 DEF Duplicate
<1> QED
  BY <1>3, <1>4

\* An edit of a row of this release leaves what is found in it.
LEMMA EditKeeps ==
  ASSUME LedgerInv, NEW identity \in Recent, NEW purpose,
         ledger' = (ledger \ {identity}) \cup {[identity EXCEPT !.purpose = purpose]}
  PROVE  \A was \in ledger : \E kept \in ledger' :
           \A row : MatchesPersisted(row, was) => MatchesPersisted(row, kept)
<1> DEFINE edited == [identity EXCEPT !.purpose = purpose]
<1>1. identity \in ledger /\ identity.hash.version = "v3"
  BY DEF Recent
<1>2. edited.hash = identity.hash
  BY <1>1, EditLedger
<1>3. ledger' = (ledger \ {identity}) \cup {edited}
  OBVIOUS
<1> HIDE DEF edited
<1>4. \A row : MatchesPersisted(row, identity) => MatchesPersisted(row, edited)
  BY <1>1, <1>2 DEF MatchesPersisted
<1> SUFFICES ASSUME NEW was \in ledger
             PROVE  \E kept \in ledger' :
                      \A row : MatchesPersisted(row, was) => MatchesPersisted(row, kept)
  OBVIOUS
<1>5. CASE was = identity
  BY <1>3, <1>4, <1>5
<1>6. CASE was # identity
  <2>1. was \in ledger'
    BY <1>3, <1>6
  <2> QED
    BY <2>1
<1> QED
  BY <1>5, <1>6

LEMMA StepConfirmed ==
  ASSUME ScanInv, PreviewInv, LedgerInv, ParsedInv, ConfirmedInv, [Next]_vars
  PROVE  ConfirmedInv'
<1> DEFINE parsed(upload) == RowsOf(upload.profile.columns,
                                    RecordsOf(upload.content, upload.profile.delimiter))
<1>1. SUFFICES ASSUME NEW upload \in confirmed', NEW k \in Sound(parsed(upload))
               PROVE  Duplicate(parsed(upload), Sound(parsed(upload)), k)'
  BY DEF ConfirmedInv
<1>2. upload \in confirmed => Duplicate(parsed(upload), Sound(parsed(upload)), k)
  BY DEF ConfirmedInv
<1> HIDE DEF parsed
<1>3. ASSUME upload \in confirmed, ledger' = ledger
      PROVE  Duplicate(parsed(upload), Sound(parsed(upload)), k)'
  BY <1>2, <1>3 DEF Duplicate
<1>4. CASE Confirm
  <2>1. /\ phase = "preview" /\ ledger' = ledger \cup {Imported(rows[j]) : j \in Accepted}
        /\ upload \in confirmed \/ upload = [content |-> content, profile |-> profile]
    BY <1>4 DEF Confirm
  <2>2. CASE upload \in confirmed
    <3>1. \A identity \in ledger : identity \in ledger'
      BY <2>1
    <3>2. \A identity \in ledger : \E kept \in ledger' :
            \A row : MatchesPersisted(row, identity) => MatchesPersisted(row, kept)
      BY <3>1
    <3> QED
      BY <1>2, <2>2, <3>2, StaysDuplicate
  <2>3. CASE upload = [content |-> content, profile |-> profile]
    <3>1. upload.content = content /\ upload.profile = profile
      BY <2>3
    <3>2. parsed(upload) = rows
      BY <2>1, <3>1 DEF parsed, PreviewInv, ParsedInv
    <3> QED
      BY <1>4, <3>2, ConfirmAdds
  <2> QED
    BY <2>1, <2>2, <2>3
<1>5. CASE EditPurpose
  <2>1. PICK identity \in ledger, purpose \in Purposes :
          /\ ledger' = (ledger \ {identity}) \cup {[identity EXCEPT !.purpose = purpose]}
          /\ confirmed' = IF identity \in Recent THEN confirmed ELSE {}
    BY <1>5 DEF EditPurpose
  <2>2. identity \in Recent /\ upload \in confirmed
    BY <2>1
  <2>3. \A was \in ledger : \E kept \in ledger' :
          \A row : MatchesPersisted(row, was) => MatchesPersisted(row, kept)
    BY <2>1, <2>2, EditKeeps
  <2> QED
    BY <1>2, <2>2, <2>3, StaysDuplicate
<1>6. CASE DeleteRow
  <2>1. confirmed' = {}
    BY <1>6 DEF DeleteRow
  <2> QED
    BY <2>1
<1>7. CASE UNCHANGED <<ledger, confirmed>>
  BY <1>3, <1>7
<1> QED
  BY <1>4, <1>5, <1>6, <1>7
  DEF Next, vars, Profiles, Upload, ScanStep, Preview, StructureRefused, Abandon, others

\* A file that was confirmed has nothing to import when it is uploaded again, whatever was
\* uploaded, edited and imported in between, unless a row was deleted or one of an earlier
\* release was edited.
THEOREM ReimportsNothing == Spec => []ReimportAddsNothing
<1> DEFINE Inv == /\ ProfilesInv /\ ScanInv /\ PreviewInv /\ LedgerInv
                  /\ GrammarInv /\ ParsesQuotedText /\ ParsedInv /\ ConfirmedInv
<1>1. Init => Inv
  <2>1. Init => ConfirmedInv
    BY DEF Init, ConfirmedInv
  <2> QED
    BY <2>1, InitProfiles, InitScan, InitPreview, InitLedger, InitGrammar
<1>2. Inv /\ [Next]_vars => Inv'
  BY StepProfiles, StepScan, StepPreview, StepLedger, StepGrammar, StepConfirmed
<1>3. Inv => ReimportAddsNothing
  <2> SUFFICES ASSUME Inv, phase = "preview",
                      [content |-> content, profile |-> profile] \in confirmed,
                      NEW k \in Accepted
               PROVE  FALSE
    BY DEF ReimportAddsNothing
  <2> DEFINE upload == [content |-> content, profile |-> profile]
  <2>1. rows = RowsOf(upload.profile.columns, RecordsOf(upload.content, upload.profile.delimiter))
    BY DEF PreviewInv, ParsedInv
  <2>2. upload \in confirmed
    OBVIOUS
  <2> HIDE DEF upload
  <2>3. \A j \in Sound(rows) : Duplicate(rows, Sound(rows), j)
    BY <2>1, <2>2 DEF ConfirmedInv
  <2>4. k \in DOMAIN rows /\ outcomes[k] = Outcome(rows, k) /\ outcomes[k] = Importable
    BY RowsTyped DEF Accepted
  <2> QED
    BY <2>3, <2>4, OutcomeFacts
<1> QED
  BY <1>1, <1>2, <1>3, PTL DEF Spec

=============================================================================
