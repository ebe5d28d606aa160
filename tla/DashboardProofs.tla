-------------------------- MODULE DashboardProofs ---------------------------
(***************************************************************************)
(* The dashboard's figures, for every set of plans, rows, forms and        *)
(* requests: the forecast's arithmetic in parts is exact, the groups add   *)
(* up, a page shows one moment, activations keep a plan's terms, and every *)
(* header gets the right locale.                                           *)
(***************************************************************************)
EXTENDS DashboardProperties, NumberFacts

-----------------------------------------------------------------------------
(* Rounding.                                                               *)

LEMMA Division ==
  ASSUME NEW n \in Nat, NEW d \in Nat \ {0}
  PROVE  /\ n \div d \in Nat /\ n % d \in 0..(d - 1)
         /\ n = d * (n \div d) + (n % d)
OBVIOUS

LEMMA TimesMonotone ==
  ASSUME NEW i \in Int, NEW j \in Int, NEW b \in Nat, i <= j
  PROVE  i * b <= j * b
<1>1. (j - i) * b >= 0
  OBVIOUS
<1>2. (j - i) * b = j * b - i * b
  OBVIOUS
<1> QED
  BY <1>1, <1>2

\* A quotient is the number whose multiples enclose the dividend.
LEMMA QuotientUnique ==
  ASSUME NEW n \in Nat, NEW d \in Nat \ {0}, NEW k \in Nat, k * d <= n, n < (k + 1) * d
  PROVE  n \div d = k
<1> DEFINE q == n \div d
<1>1. q \in Nat /\ q * d <= n /\ n < (q + 1) * d
  BY Division
<1> HIDE DEF q
<1>2. ~(q + 1 <= k)
  <2>1. q + 1 <= k => (q + 1) * d <= k * d
    BY <1>1, TimesMonotone
  <2> QED
    BY <1>1, <2>1
<1>3. ~(k + 1 <= q)
  <2>1. k + 1 <= q => (k + 1) * d <= q * d
    BY <1>1, TimesMonotone
  <2> QED
    BY <1>1, <2>1
<1>4. q = k
  BY <1>1, <1>2, <1>3
<1> QED
  BY <1>4 DEF q

\* Comparing the remainder with half of the divisor rounds half up.
LEMMA RoundHalfUpExact ==
  ASSUME NEW n \in Nat, NEW d \in Nat \ {0}
  PROVE  RoundHalfUp(n, d) = Rounded(n, d) /\ RoundHalfUp(n, d) \in Nat
<1> DEFINE q == n \div d
           r == n % d
           k == RoundHalfUp(n, d)
<1>1. q \in Nat /\ r \in 0..(d - 1) /\ n = d * q + r
  BY Division
<1>2. (d + 1) \div 2 \in Nat /\ (r >= (d + 1) \div 2 <=> 2 * r >= d)
  BY <1>1
<1>3. k = q + (IF 2 * r >= d THEN 1 ELSE 0)
  BY <1>2 DEF RoundHalfUp
<1>4. k \in Nat
  BY <1>1, <1>3
<1> HIDE DEF q, r, k
<1>5. k * (2 * d) <= 2 * n + d /\ 2 * n + d < (k + 1) * (2 * d)
  <2>1. CASE 2 * r >= d
    <3>1. k * (2 * d) = 2 * (d * q) + 2 * d /\ (k + 1) * (2 * d) = 2 * (d * q) + 4 * d
      BY <1>1, <1>3, <2>1
    <3> QED
      BY <1>1, <2>1, <3>1
  <2>2. CASE 2 * r < d
    <3>1. k * (2 * d) = 2 * (d * q) /\ (k + 1) * (2 * d) = 2 * (d * q) + 2 * d
      BY <1>1, <1>3, <2>2
    <3> QED
      BY <1>1, <2>2, <3>1
  <2> QED
    BY <1>1, <2>1, <2>2
<1>6. (2 * n + d) \div (2 * d) = k
  BY <1>4, <1>5, QuotientUnique
<1> QED
  BY <1>4, <1>6 DEF Rounded, k

\* A multiple of the divisor can be taken out before rounding.
LEMMA RoundedShift ==
  ASSUME NEW n \in Nat, NEW d \in Nat \ {0}, NEW w \in Nat
  PROVE  Rounded(w * d + n, d) = w + Rounded(n, d)
<1> DEFINE k == Rounded(n, d)
<1>0. 2 * n + d \in Nat /\ 2 * d \in Nat \ {0}
  OBVIOUS
<1>1. k \in Nat /\ 2 * n + d = (2 * d) * k + ((2 * n + d) % (2 * d))
  BY <1>0, Division DEF Rounded
<1>2. (2 * n + d) % (2 * d) \in 0..(2 * d - 1)
  BY <1>0, Division
<1> HIDE DEF k
<1>3. (w + k) * (2 * d) = 2 * (w * d) + (2 * d) * k
  BY <1>1
<1>4. (w + k + 1) * (2 * d) = 2 * (w * d) + (2 * d) * k + 2 * d
  BY <1>1
<1>5. w * d \in Nat
  OBVIOUS
<1>6. 2 * (w * d + n) + d \in Nat /\ w + k \in Nat
  BY <1>1, <1>5
<1>7. /\ (w + k) * (2 * d) <= 2 * (w * d + n) + d
      /\ 2 * (w * d + n) + d < (w + k + 1) * (2 * d)
  <2> DEFINE e == (2 * n + d) % (2 * d)
             y == (2 * d) * k
             x == w * d
  <2>1. 2 * (w * d + n) + d = 2 * x + (2 * n + d)
    BY <1>5
  <2>2. e \in Int /\ e >= 0 /\ e < 2 * d /\ 2 * n + d = y + e /\ y \in Int /\ x \in Nat
    BY <1>0, <1>1, <1>2, <1>5
  <2>3. (w + k) * (2 * d) = 2 * x + y /\ (w + k + 1) * (2 * d) = 2 * x + y + 2 * d
    BY <1>3, <1>4
  <2> HIDE DEF e, y, x
  <2> QED
    BY <2>1, <2>2, <2>3
<1>8. (2 * (w * d + n) + d) \div (2 * d) = w + k
  BY <1>0, <1>6, <1>7, QuotientUnique
<1> QED
  BY <1>8 DEF Rounded, k

\* Multiplying and rounding in two parts gives the exact product, rounded half up
\* once, and fails exactly when that is no safe integer, whatever the amount
\* (multiplyAndRoundHalfUp; multipliers and divisors are days of a month).
THEOREM RoundsOnce ==
  ASSUME NEW value \in Nat, NEW multiplier \in 1..31, NEW divisor \in 1..31
  PROVE  MultiplyAndRoundHalfUp(value, multiplier, divisor)
           = Checked(Rounded(value * multiplier, divisor))
<1> DEFINE q == value \div divisor
           r == value % divisor
           whole == q * multiplier
           rest == r * multiplier
<1>1. q \in Nat /\ r \in 0..(divisor - 1) /\ value = divisor * q + r
  BY Division
<1>2. (value - r) \div divisor = q
  <2>1. q * divisor <= value - r /\ value - r < (q + 1) * divisor /\ value - r \in Nat
    BY <1>1
  <2> QED
    BY <1>1, <2>1, QuotientUnique
<1>3. whole \in Nat
  BY <1>1
<1>4. rest \in 0..MaxSafe
  <2>1. r \in 0..31 /\ r * multiplier <= 31 * multiplier /\ r * multiplier \in Nat
    BY <1>1, TimesMonotone
  <2> QED
    BY <2>1, MaxSafeAssumption
<1>5. MultiplyAndRoundHalfUp(value, multiplier, divisor) =
        IF Unsafe \in {Checked(whole), Checked(rest)} THEN Unsafe
        ELSE Checked(whole + RoundHalfUp(rest, divisor))
  BY <1>2 DEF MultiplyAndRoundHalfUp
<1> HIDE DEF q, r, whole, rest
<1>6. whole * divisor + rest = value * multiplier
  <2>1. whole * divisor = divisor * q * multiplier
    BY <1>1 DEF whole
  <2>2. value * multiplier = divisor * q * multiplier + r * multiplier
    BY <1>1
  <2> QED
    BY <2>1, <2>2 DEF rest
<1>7. /\ Rounded(value * multiplier, divisor) = whole + RoundHalfUp(rest, divisor)
      /\ RoundHalfUp(rest, divisor) \in Nat
  <2>1. rest \in Nat /\ divisor \in Nat \ {0}
    BY <1>4, MaxSafeAssumption
  <2>2. Rounded(whole * divisor + rest, divisor) = whole + Rounded(rest, divisor)
    BY <1>3, <2>1, RoundedShift
  <2>3. RoundHalfUp(rest, divisor) = Rounded(rest, divisor) /\ RoundHalfUp(rest, divisor) \in Nat
    BY <2>1, RoundHalfUpExact
  <2> QED
    BY <1>6, <2>2, <2>3
<1>8. Checked(rest) # Unsafe
  BY <1>4, MaxSafeAssumption DEF Checked, Unsafe
<1>9. Checked(whole) = Unsafe => Checked(whole + RoundHalfUp(rest, divisor)) = Unsafe
  BY <1>3, <1>7, MaxSafeAssumption DEF Checked, Unsafe
<1> QED
  BY <1>5, <1>7, <1>8, <1>9

-----------------------------------------------------------------------------
(* The locale of a request.                                                *)

LEMMA RangeFacts ==
  ASSUME NEW header \in Seq(Part), NEW locale \in Locales, NEW i \in Ranges(header)
  PROVE  /\ i \in Nat /\ header[i] \in Part
         /\ Quality(header[i]) \in 0..1000
         /\ Level(header[i], locale) \in 0..2
         /\ Specificity(header[i].range, locale) =
              IF Level(header[i], locale) = 2 THEN Len(locale) ELSE Level(header[i], locale)
         /\ Len(locale) \in {1, 2}
<1>1. i \in Nat /\ header[i] \in Part
  BY DEF Ranges
<1>2. Quality(header[i]) \in 0..1000
  <2>1. /\ header[i].parameters \in Seq({NotQuality} \cup 0..1000)
        /\ Len(header[i].parameters) < 2
        /\ \A k \in DOMAIN header[i].parameters : header[i].parameters[k] # NotQuality
    BY <1>1, ZenonT(40) DEF Ranges, Part
  <2>2. header[i].parameters # <<>> => header[i].parameters[1] \in 0..1000
    <3> DEFINE s == header[i].parameters
               Q == {NotQuality} \cup 0..1000
    <3>1. s \in Seq(Q) /\ \A k \in DOMAIN s : s[k] # NotQuality
      BY <2>1
    <3> HIDE DEF s, Q
    <3>2. s # <<>> => 1 \in DOMAIN s /\ s[1] \in Q
      BY <3>1
    <3>3. s # <<>> => s[1] # NotQuality
      BY <3>1, <3>2
    <3>4. s # <<>> => s[1] \in 0..1000
      BY <3>2, <3>3, SMTT(40) DEF Q
    <3> QED
      BY <3>4 DEF s
  <2>3. CASE header[i].parameters = <<>>
    <3>1. Quality(header[i]) = 1000
      BY <2>3 DEF Quality
    <3> QED
      BY <3>1
  <2>4. CASE header[i].parameters # <<>>
    <3>1. Quality(header[i]) = header[i].parameters[1]
      BY <2>4 DEF Quality
    <3>2. header[i].parameters[1] \in 0..1000
      BY <2>2, <2>4
    <3> QED
      BY <3>1, <3>2, Zenon
  <2> QED
    BY <2>3, <2>4
<1>3. Len(locale) \in {1, 2} /\ locale # AnyRange
  BY DEF Locales, German, English, AnyRange
<1> QED
  BY <1>1, <1>2, <1>3 DEF Specificity, Level

\* The preference for a locale is what controls it: the code and the requirement rank
\* ranges alike, except that the name of a locale that is a language alone is no more
\* specific to the code than its regions, of which none comes first here.
LEMMA PreferenceControls ==
  ASSUME NEW header \in Seq(Part), NEW locale \in Locales, ~RegionFirst(header)
  PROVE  /\ Matching(header, locale) = {} => Controlling(header, locale) = {}
         /\ Matching(header, locale) # {} =>
              /\ Preference(header, locale) \in Matching(header, locale)
              /\ Controlling(header, locale) = {Preference(header, locale)}
<1> DEFINE M == Matching(header, locale)
           level(i) == Level(header[i], locale)
           levels == {level(i) : i \in M}
           specificity(i) == Specificity(header[i].range, locale)
<1>1. M \subseteq Ranges(header) /\ M \in SUBSET Nat
  BY RangeFacts DEF Matching
<1>2. CASE M = {}
  BY <1>2 DEF Controlling
<1>3. CASE M # {}
  <2>1. \A i \in M : /\ level(i) \in 0..2
                     /\ specificity(i) = IF level(i) = 2 THEN Len(locale) ELSE level(i)
    BY <1>1, RangeFacts
  <2>a. Len(locale) \in {1, 2}
    BY <1>1, <1>3, RangeFacts
  <2>b. ASSUME Len(locale) = 1, NEW i \in M, level(i) = 1, NEW j \in M, level(j) = 2
        PROVE  \E k \in M : level(k) = 2 /\ ~(i < k)
    BY <2>b DEF RegionFirst
  <2>2. levels # {} /\ levels \subseteq 0..2
    BY <1>3, <2>1
  <2> HIDE DEF M, level, specificity
  <2>3. PICK m \in levels : \A k \in levels : m >= k
    <3>1. CASE 2 \in levels
      BY <2>2, <3>1
    <3>2. CASE 2 \notin levels /\ 1 \in levels
      BY <2>2, <3>2
    <3>3. CASE 2 \notin levels /\ 1 \notin levels
      BY <2>2, <3>3
    <3> QED
      BY <3>1, <3>2, <3>3
  <2> DEFINE best == {i \in M : level(i) = m}
  <2>4. best # {} /\ best \in SUBSET Nat
    BY <1>1, <2>3
  <2>5. PICK p \in best : \A i \in best : p <= i
    BY <2>4, Least
  <2>6. m \in 0..2 /\ p \in M /\ p \in Nat /\ level(p) = m
    BY <2>2, <2>3, <2>4, <2>5
  <2>7. \A i \in M : level(i) \in 0..2 /\ level(i) <= m /\ i \in Nat
    BY <1>1, <2>1, <2>3
  <2>8. \A i \in M : level(i) = m => p <= i
    BY <2>5
  <2>9. ASSUME NEW j \in M
        PROVE  specificity(p) > specificity(j) \/ (specificity(p) = specificity(j) /\ p <= j)
    <3>1. CASE level(j) = level(p)
      BY <2>1, <2>6, <2>8, <2>a, <3>1
    <3>2. CASE level(j) < level(p) /\ ~(Len(locale) = 1 /\ level(p) = 2 /\ level(j) = 1)
      <4>1. /\ level(p) \in 0..2 /\ level(j) \in 0..2
            /\ specificity(p) = IF level(p) = 2 THEN Len(locale) ELSE level(p)
            /\ specificity(j) = IF level(j) = 2 THEN Len(locale) ELSE level(j)
        BY <2>1, <2>6
      <4>2. CASE level(p) = 2
        <5>1. level(j) = 0 \/ (level(j) = 1 /\ Len(locale) = 2)
          BY <2>a, <3>2, <4>1, <4>2
        <5> QED
          BY <2>a, <4>1, <4>2, <5>1
      <4>3. CASE level(p) # 2
        BY <3>2, <4>1, <4>3
      <4> QED
        BY <4>2, <4>3
    <3>3. CASE Len(locale) = 1 /\ level(p) = 2 /\ level(j) = 1
      <4>1. PICK k \in M : level(k) = 2 /\ ~(j < k)
        BY <2>6, <2>b, <3>3
      <4>2. p <= k /\ k \in Nat /\ j \in Nat
        BY <2>6, <2>7, <2>8, <3>3, <4>1
      <4>3. p <= j
        BY <2>6, <4>1, <4>2
      <4> QED
        BY <2>1, <2>6, <3>3, <4>3
    <3> QED
      BY <2>6, <2>7, <3>1, <3>2, <3>3
  <2>10. ASSUME NEW i \in M,
                \A j \in M : \/ specificity(i) > specificity(j)
                             \/ specificity(i) = specificity(j) /\ i <= j
         PROVE  i = p
    <3>1. specificity(i) \in Int /\ specificity(p) \in Int /\ i \in Nat /\ p \in Nat
      BY <2>1, <2>6, <2>7, <2>a
    <3>2. specificity(i) > specificity(p) \/ (specificity(i) = specificity(p) /\ i <= p)
      BY <2>6, <2>10
    <3>3. specificity(p) > specificity(i) \/ (specificity(p) = specificity(i) /\ p <= i)
      BY <2>9
    <3> QED
      BY <3>1, <3>2, <3>3
  <2>11. Preference(header, locale) = p
    <3>1. Preference(header, locale) =
            CHOOSE i \in M : \A j \in M :
              \/ specificity(i) > specificity(j)
              \/ specificity(i) = specificity(j) /\ i <= j
      BY DEF Preference, M, specificity
    <3> QED
      BY <2>6, <2>9, <2>10, <3>1
  <2>12. Max(levels) = m
    <3>1. levels \in SUBSET Int
      BY <2>2
    <3> HIDE DEF levels
    <3> QED
      BY <2>3, <3>1, Extremes
  <2>13. Min(best) = p
    <3>1. best \in SUBSET Int
      BY <2>4
    <3> HIDE DEF best
    <3> QED
      BY <2>5, <3>1, Extremes
  <2>14. Controlling(header, locale) = {p}
    <3>1. Controlling(header, locale) = {Min({i \in M : level(i) = Max(levels)})}
      BY <1>3 DEF Controlling, M, level
    <3> QED
      BY <2>12, <2>13, <3>1
  <2> QED
    BY <1>3, <2>6, <2>11, <2>14 DEF M
<1> QED
  BY <1>2, <1>3

\* Any header but those that name a region first, and any fallback.
LEMMA Negotiation ==
  ASSUME NEW header \in Headers, ~RegionFirst(header), NEW default \in Locales
  PROVE  RightChoice(header, default, Negotiate(header, default))
<1> DEFINE place == [l \in Locales |-> Max(Controlling(header, l))]
           quality == [l \in Locales |-> IF Controlling(header, l) = {} THEN -1
                                         ELSE Quality(header[place[l]])]
           wanted == {l \in Locales : quality[l] > 0}
           best == {l \in wanted : \A k \in wanted : quality[k] <= quality[l]}
           first == {l \in best : \A k \in best : place[k] >= place[l]}
           chosen == Negotiate(header, default)
           Goal ==
             IF wanted = {}
             THEN chosen = default <=>
                    (quality[default] = -1 \/ \A l \in Locales : quality[l] = 0)
             ELSE chosen \in first /\ (default \in first => chosen = default)
<1>1. header \in Seq(Part)
  BY HeadersAssumption
<1>2. ASSUME NEW l \in Locales
      PROVE  /\ Matching(header, l) = {} => quality[l] = -1
             /\ Matching(header, l) # {} =>
                  /\ place[l] = Preference(header, l) /\ place[l] \in Nat
                  /\ quality[l] = QualityFor(header, l) /\ quality[l] \in 0..1000
  <2>1. CASE Matching(header, l) = {}
    BY <1>1, <2>1, PreferenceControls
  <2>2. CASE Matching(header, l) # {}
    <3> DEFINE p == Preference(header, l)
    <3>1. p \in Matching(header, l) /\ Controlling(header, l) = {p}
      BY <1>1, <2>2, PreferenceControls
    <3>2. p \in Nat /\ Quality(header[p]) \in 0..1000
      BY <1>1, <3>1, RangeFacts DEF Matching
    <3> HIDE DEF p
    <3>3. place[l] = p
      <4>1. Max({p}) = p
        BY <3>2, Extremes
      <4> QED
        BY <3>1, <4>1
    <3> QED
      BY <2>2, <3>1, <3>2, <3>3 DEF QualityFor, p
  <2> QED
    BY <2>1, <2>2
<1>3. Acceptable(header) = wanted
  BY <1>2 DEF Acceptable
<1>4. Excluded(header) = {l \in Locales : quality[l] = 0}
  BY <1>2 DEF Excluded
<1>5. \A l \in wanted : /\ place[l] = Preference(header, l) /\ place[l] \in Nat
                         /\ quality[l] = QualityFor(header, l) /\ quality[l] \in 1..1000
  BY <1>2, SMTT(40)
<1>6. \A l \in Locales : quality[l] \in -1..1000
  BY <1>2
<1> HIDE DEF place, quality
<1>7. ASSUME wanted = {} PROVE Goal
  <2>1. \A l \in Locales : quality[l] = -1 \/ quality[l] = 0
    BY <1>6, <1>7
  <2> DEFINE open == Locales \ Excluded(header)
  <2>2. chosen = IF default \notin Excluded(header) THEN default
                 ELSE IF open # {} THEN CHOOSE l \in open : TRUE ELSE default
    BY <1>3, <1>7, Zenon DEF Negotiate
  <2>3. open # {} => (CHOOSE l \in open : TRUE) \in open
    BY Zenon
  <2>4. \A l \in Locales : l \in Excluded(header) <=> quality[l] = 0
    BY <1>4
  <2>5. \A l \in Locales : l \in open <=> quality[l] # 0
    BY <2>4
  <2> HIDE DEF open, chosen
  <2>6. CASE quality[default] = 0 /\ open # {}
    <3>1. chosen \in open /\ chosen # default
      BY <2>2, <2>3, <2>4, <2>5, <2>6
    <3>2. ~\A l \in Locales : quality[l] = 0
      BY <2>4, <2>6 DEF open
    <3> QED
      BY <1>7, <2>6, <3>1, <3>2
  <2>7. CASE quality[default] # 0
    BY <1>7, <2>1, <2>2, <2>4, <2>7
  <2>8. CASE quality[default] = 0 /\ open = {}
    BY <1>7, <2>2, <2>5, <2>8
  <2> QED
    BY <2>6, <2>7, <2>8
<1>8. ASSUME wanted # {} PROVE Goal
  <2> DEFINE ranks(l, k) ==
        \/ quality[l] > quality[k]
        \/ /\ quality[l] = quality[k]
           /\ place[l] < place[k] \/ (place[l] = place[k] /\ l = default)
  <2>0. wanted \subseteq {German, English} /\ default \in {German, English}
    BY DEF Locales
  <2>numbers. \A l \in wanted : place[l] \in Nat /\ quality[l] \in Int
    BY <1>5, SMTT(40)
  <2> HIDE DEF wanted
  <2>1. \A l, k \in wanted : Ranks(header, default, l, k) <=> ranks(l, k)
    <3> SUFFICES ASSUME NEW l \in wanted, NEW k \in wanted
                 PROVE  Ranks(header, default, l, k) <=> ranks(l, k)
      OBVIOUS
    <3>1. /\ place[l] = Preference(header, l) /\ quality[l] = QualityFor(header, l)
          /\ place[k] = Preference(header, k) /\ quality[k] = QualityFor(header, k)
      BY <1>5
    <3> QED
      BY <3>1, Zenon DEF Ranks
  <2>2. chosen = CHOOSE l \in wanted : \A k \in wanted \ {l} : Ranks(header, default, l, k)
    BY <1>3, <1>8, Zenon DEF Negotiate
  <2>3. \E l \in wanted : \A k \in wanted \ {l} : Ranks(header, default, l, k)
    <3>1. CASE wanted = {German, English}
      <4>1. /\ place[German] \in Nat /\ place[English] \in Nat
            /\ quality[German] \in Int /\ quality[English] \in Int
        BY <2>numbers, <3>1, Zenon
      <4>2. CASE default = German
        <5>1. ranks(German, English) \/ ranks(English, German)
          BY <4>1, <4>2
        <5> QED
          BY <2>1, <3>1, <5>1
      <4>3. CASE default = English
        <5>1. ranks(German, English) \/ ranks(English, German)
          BY <4>1, <4>3
        <5> QED
          BY <2>1, <3>1, <5>1
      <4> QED
        BY <2>0, <4>2, <4>3
    <3>2. CASE \E l : wanted = {l}
      BY <3>2
    <3> QED
      BY <1>8, <2>0, <3>1, <3>2
  <2>4. chosen \in wanted /\ \A k \in wanted \ {chosen} : Ranks(header, default, chosen, k)
    BY <2>2, <2>3, Zenon
  <2> HIDE DEF chosen
  <2>5. \A k \in wanted : k = chosen \/ ranks(chosen, k)
    BY <2>1, <2>4
  <2>6. ASSUME NEW k \in wanted
        PROVE  /\ quality[k] <= quality[chosen]
               /\ quality[k] = quality[chosen] =>
                    /\ place[k] >= place[chosen]
                    /\ k = default => k = chosen \/ place[k] > place[chosen]
    <3>1. /\ place[k] \in Nat /\ quality[k] \in Int
          /\ place[chosen] \in Nat /\ quality[chosen] \in Int
      BY <2>4, <2>numbers, Zenon
    <3>2. k = chosen \/ ranks(chosen, k)
      BY <2>5
    <3> QED
      BY <3>1, <3>2
  <2>7. chosen \in best
    BY <2>4, <2>6
  <2>8. \A k \in best : k \in wanted /\ quality[k] = quality[chosen]
    <3>1. ASSUME NEW k \in best PROVE quality[k] = quality[chosen]
      <4>1. quality[chosen] <= quality[k] /\ quality[k] <= quality[chosen]
        BY <2>4, <2>6
      <4>2. quality[k] \in Int /\ quality[chosen] \in Int
        BY <2>4, <2>numbers
      <4> QED
        BY <4>1, <4>2
    <3> QED
      BY <3>1
  <2> HIDE DEF best
  <2>9. chosen \in first
    BY <2>6, <2>7, <2>8
  <2>10. default \in first => chosen = default
    <3> SUFFICES ASSUME default \in first, chosen # default
                 PROVE  FALSE
      OBVIOUS
    <3>1. place[chosen] >= place[default] /\ place[default] > place[chosen]
      BY <2>6, <2>7, <2>8
    <3>2. place[chosen] \in Nat /\ place[default] \in Nat
      BY <2>4, <2>8, <2>numbers
    <3> QED
      BY <3>1, <3>2
  <2> HIDE DEF first
  <2> QED
    BY <1>8, <2>9, <2>10
<1> QED
  BY <1>7, <1>8 DEF RightChoice, place, quality

-----------------------------------------------------------------------------
(* Rows of plans.                                                          *)

USE MaxWritesAssumption

LEMMA RowFacts ==
  /\ NoRow \notin Plan
  /\ Idle \notin PlanSave
BY NoRowIncomeAssumption, IdleIncomeAssumption

\* The terms of the plan that a form makes are the form.
LEMMA FormTerms ==
  ASSUME NEW form \in PlanForms, NEW active \in BOOLEAN
  PROVE  PlanOf(form, active) \in Plan /\ Terms(PlanOf(form, active)) = form
BY PlanFormsAssumption DEF PlanForm, PlanOf, Plan, Terms

LEMMA ActivatedTerms ==
  ASSUME NEW plan \in Plan, NEW active \in BOOLEAN
  PROVE  Activated(plan, active) \in Plan /\ Terms(Activated(plan, active)) = Terms(plan)
BY DEF Activated, Plan, Terms

\* What an update holds.
LEMMA SaveFacts ==
  ASSUME IncomeTypeOK, NEW s \in Savers, saves[s] # Idle
  PROVE  saves[s].id \in PlanIds /\ saves[s].next \in Plan /\ saves[s].of \in {"edit", "activation"}
BY DEF IncomeTypeOK, PlanSave

IncomeInv == IncomeTypeOK /\ EditsKept /\ SavesInv

LEMMA CreatePlanInv == IncomeInv /\ CreatePlan => IncomeInv'
<1> SUFFICES ASSUME IncomeInv, CreatePlan PROVE IncomeInv'
  OBVIOUS
<1> USE DEF IncomeInv
<1>1. PICK p \in PlanIds, form \in PlanForms :
        /\ plans[p] = NoRow
        /\ plans' = [plans EXCEPT ![p] = PlanOf(form, TRUE)]
        /\ entered' = [entered EXCEPT ![p] = form]
        /\ UNCHANGED <<overrides, saves, overlapped>>
  BY DEF CreatePlan, ActiveOf
<1>2. PlanOf(form, TRUE) \in Plan /\ Terms(PlanOf(form, TRUE)) = form
  BY FormTerms
<1>3. IncomeTypeOK'
  BY <1>1, <1>2 DEF IncomeTypeOK
<1>4. EditsKept'
  BY <1>1, <1>2 DEF EditsKept, IncomeTypeOK
<1>5. SavesInv'
  <2>1. \A s \in Savers : saves[s] # Idle => saves[s].id # p
    BY <1>1 DEF SavesInv
  <2> QED
    BY <1>1, <2>1, SaveFacts DEF SavesInv, IncomeTypeOK
<1> QED
  BY <1>3, <1>4, <1>5

LEMMA ReadsInv == IncomeInv /\ IncomeReads => IncomeInv'
<1> SUFFICES ASSUME IncomeInv, IncomeReads PROVE IncomeInv'
  OBVIOUS
<1> USE DEF IncomeInv
<1>1. UNCHANGED <<plans, overrides, entered, overlapped>>
  BY DEF IncomeReads, SaveRefused, EditPlan, ActivatePlan, incomeTables
<1>2. EditsKept'
  BY <1>1 DEF EditsKept
<1>3. PICK s \in Savers :
        \/ saves' = [saves EXCEPT ![s] = Idle]
        \/ \E p \in PlanIds, row \in Plan, of \in {"edit", "activation"} :
             /\ plans[p] # NoRow
             /\ saves' = [saves EXCEPT ![s] = [id |-> p, next |-> row, of |-> of]]
             /\ of = "edit" => Terms(row) \in PlanForms
             /\ of = "activation" => Terms(row) = Terms(plans[p])
  <2>1. ASSUME NEW s \in Savers, SaveRefused(s) PROVE saves' = [saves EXCEPT ![s] = Idle]
    BY <2>1 DEF SaveRefused
  <2>2. ASSUME NEW s \in Savers, NEW p \in PlanIds, NEW form \in PlanForms, NEW box \in Boxes,
               EditPlan(s, p, form, box)
        PROVE  \E row \in Plan :
                 /\ plans[p] # NoRow
                 /\ saves' = [saves EXCEPT ![s] = [id |-> p, next |-> row, of |-> "edit"]]
                 /\ Terms(row) \in PlanForms
    BY <2>2, FormTerms DEF EditPlan, ActiveOf
  <2>3. ASSUME NEW s \in Savers, NEW p \in PlanIds, NEW active \in BOOLEAN,
               ActivatePlan(s, p, active)
        PROVE  \E row \in Plan :
                 /\ plans[p] # NoRow
                 /\ saves' = [saves EXCEPT ![s] = [id |-> p, next |-> row, of |-> "activation"]]
                 /\ Terms(row) = Terms(plans[p])
    <3>1. plans[p] \in Plan /\ plans[p] # NoRow
      BY <2>3 DEF ActivatePlan, IncomeTypeOK
    <3> QED
      BY <2>3, <3>1, ActivatedTerms DEF ActivatePlan
  <2>4. ASSUME NEW s \in Savers, SaveRefused(s) \/ \E p \in PlanIds :
                 \/ \E form \in PlanForms, box \in Boxes : EditPlan(s, p, form, box)
                 \/ \E active \in BOOLEAN : ActivatePlan(s, p, active)
        PROVE  \/ saves' = [saves EXCEPT ![s] = Idle]
               \/ \E p \in PlanIds, row \in Plan, of \in {"edit", "activation"} :
                    /\ plans[p] # NoRow
                    /\ saves' = [saves EXCEPT ![s] = [id |-> p, next |-> row, of |-> of]]
                    /\ of = "edit" => Terms(row) \in PlanForms
                    /\ of = "activation" => Terms(row) = Terms(plans[p])
    <3>1. CASE SaveRefused(s)
      BY <2>1, <3>1
    <3>2. ASSUME NEW p \in PlanIds, NEW form \in PlanForms, NEW box \in Boxes,
                 EditPlan(s, p, form, box)
          PROVE  \E row \in Plan, of \in {"edit", "activation"} :
                   /\ plans[p] # NoRow
                   /\ saves' = [saves EXCEPT ![s] = [id |-> p, next |-> row, of |-> of]]
                   /\ of = "edit" => Terms(row) \in PlanForms
                   /\ of = "activation" => Terms(row) = Terms(plans[p])
      BY <2>2, <3>2
    <3>3. ASSUME NEW p \in PlanIds, NEW active \in BOOLEAN, ActivatePlan(s, p, active)
          PROVE  \E row \in Plan, of \in {"edit", "activation"} :
                   /\ plans[p] # NoRow
                   /\ saves' = [saves EXCEPT ![s] = [id |-> p, next |-> row, of |-> of]]
                   /\ of = "edit" => Terms(row) \in PlanForms
                   /\ of = "activation" => Terms(row) = Terms(plans[p])
      BY <2>3, <3>3
    <3> QED
      BY <2>4, <3>1, <3>2, <3>3
  <2> QED
    BY <2>4 DEF IncomeReads
<1>4. CASE saves' = [saves EXCEPT ![s] = Idle]
  BY <1>1, <1>2, <1>4 DEF IncomeTypeOK, SavesInv
<1>5. ASSUME NEW p \in PlanIds, NEW row \in Plan, NEW of \in {"edit", "activation"},
             plans[p] # NoRow,
             saves' = [saves EXCEPT ![s] = [id |-> p, next |-> row, of |-> of]],
             of = "edit" => Terms(row) \in PlanForms,
             of = "activation" => Terms(row) = Terms(plans[p])
      PROVE  IncomeInv'
  <2>1. [id |-> p, next |-> row, of |-> of] \in PlanSave
    BY DEF PlanSave
  <2>2. IncomeTypeOK'
    BY <1>1, <1>5, <2>1 DEF IncomeTypeOK
  <2>3. SavesInv'
    BY <1>1, <1>5 DEF SavesInv, IncomeTypeOK
  <2> QED
    BY <1>2, <2>2, <2>3
<1> QED
  BY <1>3, <1>4, <1>5

\* An edit that is saved marks its plan when an activation holds the old terms; an
\* activation that is saved writes back the terms it read.
LEMMA SavePlanInv == ASSUME NEW s \in Savers PROVE IncomeInv /\ SavePlan(s) => IncomeInv'
<1> SUFFICES ASSUME IncomeInv, SavePlan(s) PROVE IncomeInv'
  OBVIOUS
<1> USE DEF IncomeInv
<1> DEFINE p == saves[s].id
           row == saves[s].next
<1>1. p \in PlanIds /\ row \in Plan /\ row # NoRow /\ saves[s] # Idle
  BY SaveFacts, RowFacts DEF SavePlan
<1>2. /\ plans' = [plans EXCEPT ![p] = row]
      /\ saves' = [saves EXCEPT ![s] = Idle]
      /\ overrides' = overrides
      /\ entered' = IF saves[s].of = "edit" THEN [entered EXCEPT ![p] = Terms(row)] ELSE entered
      /\ overlapped' = IF saves[s].of # "edit" THEN overlapped
                       ELSE IF HeldByActivation(p, s) THEN overlapped \cup {p}
                       ELSE overlapped \ {p}
  BY DEF SavePlan
<1>3. /\ saves[s].of = "edit" => Terms(row) \in PlanForms
      /\ saves[s].of = "activation" /\ p \notin overlapped => Terms(row) = Terms(plans[p])
      /\ plans[p] # NoRow
  BY <1>1 DEF SavesInv
<1>4. saves[s].of \in {"edit", "activation"}
  BY <1>1, SaveFacts
<1> HIDE DEF p, row
<1>5. IncomeTypeOK'
  BY <1>1, <1>2, <1>3 DEF IncomeTypeOK
<1>6. EditsKept'
  <2>1. CASE saves[s].of = "edit"
    BY <1>1, <1>2, <2>1 DEF EditsKept, IncomeTypeOK
  <2>2. CASE saves[s].of = "activation"
    BY <1>1, <1>2, <1>3, <2>2 DEF EditsKept, IncomeTypeOK
  <2> QED
    BY <1>4, <2>1, <2>2
<1>7. SavesInv'
  <2> SUFFICES ASSUME NEW q \in Savers, saves'[q] # Idle
               PROVE  /\ plans'[saves'[q].id] # NoRow
                      /\ saves'[q].of = "edit" => Terms(saves'[q].next) \in PlanForms
                      /\ saves'[q].of = "activation" /\ saves'[q].id \notin overlapped' =>
                           Terms(saves'[q].next) = Terms(plans'[saves'[q].id])
    BY DEF SavesInv
  <2>1. q # s /\ saves'[q] = saves[q] /\ saves[q] # Idle /\ saves[q].id \in PlanIds
    BY <1>2, SaveFacts DEF IncomeTypeOK
  <2>2. /\ plans[saves[q].id] # NoRow
        /\ saves[q].of = "edit" => Terms(saves[q].next) \in PlanForms
        /\ saves[q].of = "activation" /\ saves[q].id \notin overlapped =>
             Terms(saves[q].next) = Terms(plans[saves[q].id])
    BY <2>1 DEF SavesInv
  <2>3. CASE saves[q].id # p
    BY <1>1, <1>2, <2>1, <2>2, <2>3 DEF IncomeTypeOK
  <2>4. CASE saves[q].id = p /\ saves[s].of = "edit"
    <3>1. saves[q].of = "activation" => HeldByActivation(p, s)
      BY <2>1, <2>4 DEF HeldByActivation
    <3> QED
      BY <1>1, <1>2, <2>1, <2>2, <2>4, <3>1 DEF IncomeTypeOK
  <2>5. CASE saves[q].id = p /\ saves[s].of = "activation"
    BY <1>1, <1>2, <1>3, <2>1, <2>2, <2>5 DEF IncomeTypeOK
  <2> QED
    BY <1>4, <2>3, <2>4, <2>5
<1> QED
  BY <1>5, <1>6, <1>7

LEMMA WritesIncomeInv == IncomeInv /\ IncomeWrites => IncomeInv'
<1> SUFFICES ASSUME IncomeInv, IncomeWrites PROVE IncomeInv'
  OBVIOUS
<1>1. CASE CreateOverride
  <2>1. UNCHANGED <<plans, saves, entered, overlapped>>
    BY <1>1 DEF CreateOverride
  <2>2. overrides' \in [OverrideIds -> Override \cup {NoRow}]
    BY <1>1, OverrideFormsAssumption DEF CreateOverride, IncomeInv, IncomeTypeOK
  <2> QED
    BY <2>1, <2>2 DEF IncomeInv, IncomeTypeOK, EditsKept, SavesInv
<1> QED
  BY <1>1, CreatePlanInv, SavePlanInv DEF IncomeWrites

LEMMA IncomeStaysInv == IncomeInv /\ UNCHANGED incomeVars => IncomeInv'
BY DEF incomeVars, IncomeInv, IncomeTypeOK, EditsKept, SavesInv

-----------------------------------------------------------------------------
(* Pages.                                                                  *)

PagesInv ==
  /\ DOMAIN pages = Pages
  /\ \A p \in Pages : Reading(p) => PageOK(pages[p]) /\ pages[p].writes <= written
  /\ written \in 0..MaxWrites

ColumnsOK ==
  /\ accounts \in [Accounts -> Owners \cup {NoRow}]
  /\ categories \in [Categories -> CategoryState]
  /\ transactions \in [TxIds -> TxForms \cup {NoRow}]
  /\ fallback \in Locales

WatchInv == TablesOK(Database) /\ MomentInv /\ ReadInv

LEMMA Parts == IInv <=> IncomeInv /\ PagesInv /\ ColumnsOK /\ WatchInv
BY DEF IInv, TypeOK, WritesInv, IncomeInv, PagesInv, ColumnsOK, WatchInv

\* A page counts the writes that run beside it.
LEMMA NotedInv ==
  ASSUME PagesInv, NEW created, created \subseteq Accounts \cup Categories, Noted(created)
  PROVE  PagesInv'
<1>1. written \in Nat /\ written + 1 \in 0..MaxWrites /\ written' = written + 1
  <2>1. written < MaxWrites /\ written' = written + 1
    BY DEF Noted
  <2>2. written \in 0..MaxWrites
    BY DEF PagesInv
  <2> QED
    BY <2>1, <2>2
<1>2. DOMAIN pages' = Pages
  BY DEF Noted
<1>3. ASSUME NEW p \in Pages, Reading(p)'
      PROVE  PageOK(pages'[p]) /\ pages'[p].writes <= written + 1
  <2>1. Reading(p)
    BY <1>3 DEF Noted, Reading
  <2>2. pages'[p] = [pages[p] EXCEPT !.writes = @ + 1, !.created = @ \cup created]
    BY <2>1 DEF Noted
  <2>3. PageOK(pages[p]) /\ pages[p].writes <= written
    BY <2>1 DEF PagesInv
  <2>4. PageOK(pages'[p])
    BY <1>1, <2>2, <2>3 DEF PageOK
  <2>5. pages'[p].writes = pages[p].writes + 1 /\ pages[p].writes \in Nat
    BY <2>2, <2>3 DEF PageOK
  <2> QED
    BY <1>1, <2>3, <2>4, <2>5
<1> QED
  BY <1>1, <1>2, <1>3 DEF PagesInv

\* The page slots of other requests stay as they are.
LEMMA PageStepInv ==
  ASSUME PagesInv, NEW p \in Pages, NEW page, pages' = [pages EXCEPT ![p] = page],
         page # Idle /\ "read" \in DOMAIN page => PageOK(page) /\ page.writes <= written,
         written' = written
  PROVE  PagesInv'
BY DEF PagesInv, Reading

LEMMA PageBeginInv == ASSUME NEW p \in Pages PROVE PagesInv /\ PageBegin(p) => PagesInv'
<1> SUFFICES ASSUME PagesInv, PageBegin(p) PROVE PagesInv'
  OBVIOUS
<1>1. PICK kind \in {"dashboard", "income"}, filters \in Filters, today \in Today :
        pages' = [pages EXCEPT ![p] = Opened(kind, filters, today)]
  BY DEF PageBegin
<1> DEFINE page == Opened(kind, filters, today)
<1>2. DOMAIN NothingRead = Tables /\ DOMAIN Database = Tables
  BY DEF NothingRead, Database, Tables
<1>3. PageOK(page) /\ page.writes <= written
  BY <1>2 DEF PageOK, PagesInv, Opened, Needed
<1> HIDE DEF page
<1> QED
  BY <1>1, <1>3, PageStepInv DEF PageBegin, page

\* A query whose month is passed over is one of the list still.
LEMMA ListBeginInv == ASSUME NEW p \in Pages PROVE PagesInv /\ ListBegin(p) => PagesInv'
<1> SUFFICES ASSUME PagesInv, ListBegin(p) PROVE PagesInv'
  OBVIOUS
<1>1. PICK query \in Queries, locale \in Negotiated[fallback] :
        pages' = [pages EXCEPT ![p] = Opened("ledger", ReadFilters(query, locale), Unread)]
  BY DEF ListBegin
<1> DEFINE filters == ReadFilters(query, locale)
           page == Opened("ledger", filters, Unread)
<1>2. filters \in ListFilter
  BY QueriesAssumption DEF ReadFilters, ListFilter
<1> HIDE DEF filters
<1>3. DOMAIN NothingRead = Tables /\ DOMAIN Database = Tables
  BY DEF NothingRead, Database, Tables
<1>4. PageOK(page) /\ page.writes <= written
  BY <1>2, <1>3 DEF PageOK, PagesInv, Opened, Needed
<1>5. pages' = [pages EXCEPT ![p] = page]
  BY <1>1 DEF filters
<1> HIDE DEF page
<1> QED
  BY <1>4, <1>5, PageStepInv DEF ListBegin

LEMMA PageReadInv ==
  ASSUME NEW p \in Pages, NEW t \in Tables PROVE PagesInv /\ PageRead(p, t) => PagesInv'
<1> SUFFICES ASSUME PagesInv, PageRead(p, t) PROVE PagesInv'
  OBVIOUS
<1> DEFINE page == [pages[p] EXCEPT !.read[t] = Database[t]]
<1>1. PageOK(pages[p]) /\ pages[p].writes <= written
  BY DEF PageRead, PagesInv
<1>2. PageOK(page) /\ page.writes <= written
  BY <1>1 DEF PageOK
<1>3. pages' = [pages EXCEPT ![p] = page] /\ written' = written
  BY DEF PageRead, PagesInv
<1> HIDE DEF page
<1> QED
  BY <1>2, <1>3, PageStepInv

LEMMA PageEndInv ==
  ASSUME NEW p \in Pages PROVE PagesInv /\ (PageAnswer(p) \/ ListAnswer(p) \/ PageDone(p)) => PagesInv'
<1> SUFFICES ASSUME PagesInv, PageAnswer(p) \/ ListAnswer(p) \/ PageDone(p) PROVE PagesInv'
  OBVIOUS
<1>1. CASE PageAnswer(p) \/ ListAnswer(p)
  <2>1. \E answer : pages' = [pages EXCEPT ![p] = [answer |-> answer]]
    BY <1>1 DEF PageAnswer, ListAnswer
  <2>2. PICK answer : pages' = [pages EXCEPT ![p] = [answer |-> answer]]
    BY <2>1
  <2>3. "read" \notin DOMAIN [answer |-> answer]
    OBVIOUS
  <2> QED
    BY <1>1, <2>2, <2>3, PageStepInv DEF PageAnswer, ListAnswer
<1>2. CASE PageDone(p)
  BY <1>2, PageStepInv DEF PageDone
<1> QED
  BY <1>1, <1>2

-----------------------------------------------------------------------------
(* What a page has read, next to what is written.                          *)

LEMMA DatabaseTables ==
  /\ Database["accounts"] = accounts /\ Database["categories"] = categories
  /\ Database["transactions"] = transactions
  /\ Database["plans"] = plans /\ Database["overrides"] = overrides
  /\ Database.accounts = accounts /\ Database.categories = categories
  /\ Database.transactions = transactions
  /\ Database.plans = plans /\ Database.overrides = overrides
BY DEF Database

LEMMA DatabaseTablesNext ==
  /\ Database'["accounts"] = accounts' /\ Database'["categories"] = categories'
  /\ Database'["transactions"] = transactions'
  /\ Database'["plans"] = plans' /\ Database'["overrides"] = overrides'
BY DEF Database

LEMMA RowTyped ==
  ASSUME NEW row \in TxForms
  PROVE  /\ row.account \in Accounts /\ row.category \in Categories /\ row.month \in Nat
         /\ row.cents \in Int /\ row.cents < 0 /\ row # NoRow
         /\ row.booked \in BOOLEAN /\ row.fixed \in BOOLEAN /\ row.transfer \in BOOLEAN
BY TxFormsAssumption, NoRowAssumption DEF Tx

LEMMA WatchStays ==
  WatchInv /\ UNCHANGED <<accounts, categories, transactions, plans, overrides, pages>>
    => WatchInv'
<1> SUFFICES ASSUME WatchInv,
                    UNCHANGED <<accounts, categories, transactions, plans, overrides, pages>>
             PROVE  WatchInv'
  OBVIOUS
<1>1. Database' = Database
  BY DEF Database
<1>2. TablesOK(Database)'
  BY <1>1 DEF WatchInv, TablesOK
<1>3. MomentInv'
  <2> SUFFICES ASSUME NEW p \in Pages, Reading(p)' PROVE SeesMoment(pages[p])'
    BY DEF MomentInv
  <2>1. SeesMoment(pages[p])
    BY DEF WatchInv, MomentInv, Reading
  <2>2. pages[p]' = pages[p]
    OBVIOUS
  <2> DEFINE page == pages[p]
             db == Database
  <2>3. TablesOK(page.began)'
    BY <2>1, <2>2 DEF SeesMoment, TablesOK
  <2>4. /\ page.writes = 0 => \A t \in Tables : page.began[t] = db[t] /\ AsBegan(page, t)
        /\ page.writes = 1 => \E w \in Tables :
             /\ page.read[w] \in {Unread, page.began[w], db[w]}
             /\ \A t \in Tables \ {w} : page.began[t] = db[t] /\ AsBegan(page, t)
    BY <2>1 DEF SeesMoment
  <2>5. page' = page /\ db' = db
    BY <1>1, <2>2
  <2> HIDE DEF page, db
  <2>6. /\ page'.writes = 0 =>
             \A t \in Tables : page'.began[t] = db'[t] /\ AsBegan(page', t)
        /\ page'.writes = 1 => \E w \in Tables :
             /\ page'.read[w] \in {Unread, page'.began[w], db'[w]}
             /\ \A t \in Tables \ {w} : page'.began[t] = db'[t] /\ AsBegan(page', t)
    BY <2>4, <2>5 DEF AsBegan
  <2> QED
    BY <2>3, <2>6 DEF SeesMoment, page, db, AsBegan
<1>4. ReadInv'
  BY DEF WatchInv, ReadInv, HasRead, Reading
<1> QED
  BY <1>2, <1>3, <1>4 DEF WatchInv

\* A page that is read from, or one that begins.
LEMMA WatchPage ==
  ASSUME WatchInv, DOMAIN pages = Pages, NEW p \in Pages, NEW page,
         pages' = [pages EXCEPT ![p] = page],
         page # Idle /\ "read" \in DOMAIN page =>
           SeesMoment(page) /\ HasRead(page.read, page.created),
         UNCHANGED <<accounts, categories, transactions, plans, overrides>>
  PROVE  WatchInv'
<1>1. Database' = Database
  BY DEF Database
<1>2. ASSUME NEW q \in Pages, Reading(q)', NEW next, next = pages'[q]
      PROVE  SeesMoment(next)' /\ HasRead(next.read, next.created)'
  <2>1. SeesMoment(next) /\ HasRead(next.read, next.created)
    BY <1>2 DEF WatchInv, MomentInv, ReadInv, Reading
  <2>2. SeesMoment(next)'
    BY <1>1, <2>1 DEF SeesMoment, AsBegan, TablesOK
  <2>3. HasRead(next.read, next.created)'
    BY <2>1 DEF HasRead
  <2> QED
    BY <2>2, <2>3
<1>3. TablesOK(Database)'
  BY <1>1 DEF WatchInv, TablesOK
<1> QED
  BY <1>2, <1>3 DEF WatchInv, MomentInv, ReadInv

\* A write of one table, beside the pages; it deletes no account and no category, and
\* those it creates are noted.
LEMMA WatchWrite ==
  ASSUME WatchInv, PagesInv, NEW w \in Tables, NEW created,
         created \subseteq Accounts \cup Categories, Noted(created),
         TablesOK(Database)', \A t \in Tables \ {w} : Database'[t] = Database[t],
         \A a \in Accounts : accounts[a] # NoRow => accounts'[a] # NoRow,
         \A c \in Categories : categories[c] # NoRow => categories'[c] # NoRow,
         \A a \in Accounts \ created : accounts'[a] # NoRow => accounts[a] # NoRow,
         \A c \in Categories \ created : categories'[c] # NoRow => categories[c] # NoRow
  PROVE  WatchInv'
<1>1. ASSUME NEW p \in Pages, Reading(p)', NEW next, next = pages'[p]
      PROVE  SeesMoment(next)' /\ HasRead(next.read, next.created)'
  <2>1. Reading(p)
    BY <1>1 DEF Noted, Reading
  <2>2. pages'[p] = [pages[p] EXCEPT !.writes = @ + 1, !.created = @ \cup created]
    BY <2>1 DEF Noted
  <2>3. PageOK(pages[p]) /\ SeesMoment(pages[p]) /\ HasRead(pages[p].read, pages[p].created)
    BY <2>1 DEF PagesInv, WatchInv, MomentInv, ReadInv
  <2> DEFINE page == pages[p]
  <2>4. /\ next.began = page.began /\ next.read = page.read
        /\ next.writes = page.writes + 1 /\ page.writes \in Nat
        /\ next.created = page.created \cup created
    BY <1>1, <2>2, <2>3 DEF PageOK
  <2> HIDE DEF page
  <2>5. SeesMoment(next)'
    <3>1. TablesOK(next.began)
      BY <2>3, <2>4 DEF SeesMoment, page
    <3>2. TablesOK(next.began)'
      BY <3>1 DEF TablesOK
    <3>3. next.writes # 0
      BY <2>4
    <3>4. ASSUME next.writes = 1
          PROVE  /\ next.read[w] \in {Unread, next.began[w], Database'[w]}
                 /\ \A t \in Tables \ {w} : next.began[t] = Database'[t] /\ AsBegan(next, t)
      <4>1. page.writes = 0
        BY <2>4, <3>4
      <4>2. \A t \in Tables : page.began[t] = Database[t] /\ AsBegan(page, t)
        BY <2>3, <4>1 DEF SeesMoment, page
      <4>3. \A t \in Tables : next.began[t] = Database[t] /\ AsBegan(next, t)
        BY <2>4, <4>2 DEF AsBegan
      <4> QED
        BY <4>3 DEF AsBegan
    <3> QED
      BY <3>2, <3>3, <3>4 DEF SeesMoment, AsBegan
  <2>6. HasRead(next.read, next.created)'
    <3> DEFINE read == next.read
    <3>1. HasRead(read, page.created)
      BY <2>3, <2>4 DEF page
    <3> HIDE DEF read
    <3>2. read.accounts # Unread =>
            /\ read.accounts \in [Accounts -> Owners \cup {NoRow}]
            /\ \A a \in Accounts \ next.created : accounts'[a] # NoRow => read.accounts[a] # NoRow
      BY <2>4, <3>1 DEF HasRead
    <3>3. read.categories # Unread =>
            /\ read.categories \in [Categories -> CategoryState]
            /\ \A c \in Categories \ next.created :
                 categories'[c] # NoRow => read.categories[c] # NoRow
      BY <2>4, <3>1 DEF HasRead
    <3>4. read.transactions # Unread =>
            /\ read.transactions \in [TxIds -> TxForms \cup {NoRow}]
            /\ \A t \in TxIds : read.transactions[t] # NoRow =>
                 /\ accounts'[read.transactions[t].account] # NoRow
                 /\ categories'[read.transactions[t].category] # NoRow
      <4> SUFFICES ASSUME read.transactions # Unread, NEW t \in TxIds
                   PROVE  /\ read.transactions \in [TxIds -> TxForms \cup {NoRow}]
                          /\ read.transactions[t] # NoRow =>
                               /\ accounts'[read.transactions[t].account] # NoRow
                               /\ categories'[read.transactions[t].category] # NoRow
        BY <3>1 DEF HasRead
      <4>1. /\ read.transactions \in [TxIds -> TxForms \cup {NoRow}]
            /\ read.transactions[t] # NoRow =>
                 /\ accounts[read.transactions[t].account] # NoRow
                 /\ categories[read.transactions[t].category] # NoRow
        BY <3>1 DEF HasRead
      <4>2. read.transactions[t] # NoRow =>
              /\ read.transactions[t].account \in Accounts
              /\ read.transactions[t].category \in Categories
        BY <4>1, RowTyped
      <4> QED
        BY <4>1, <4>2
    <3>5. /\ read.plans # Unread => read.plans \in [PlanIds -> Plan \cup {NoRow}]
          /\ read.overrides # Unread => read.overrides \in [OverrideIds -> Override \cup {NoRow}]
      BY <3>1 DEF HasRead
    <3> QED
      BY <3>2, <3>3, <3>4, <3>5 DEF HasRead, read
  <2> QED
    BY <2>5, <2>6
<1> QED
  BY <1>1 DEF WatchInv, MomentInv, ReadInv

LEMMA WatchBegin ==
  ASSUME NEW p \in Pages, NEW kind, NEW filters, NEW today, WatchInv, DOMAIN pages = Pages,
         pages' = [pages EXCEPT ![p] = Opened(kind, filters, today)],
         UNCHANGED <<accounts, categories, transactions, plans, overrides>>
  PROVE  WatchInv'
<1> DEFINE page == Opened(kind, filters, today)
<1>1. /\ page.began = Database /\ page.read = NothingRead /\ page.writes = 0 /\ page.created = {}
      /\ \A t \in Tables : NothingRead[t] = Unread
  BY DEF Opened, NothingRead
<1>2. SeesMoment(page)
  BY <1>1 DEF SeesMoment, AsBegan, WatchInv
<1>3. HasRead(page.read, page.created)
  BY <1>1 DEF HasRead, Tables
<1> HIDE DEF page
<1>4. pages' = [pages EXCEPT ![p] = page]
  BY DEF page
<1> QED
  BY <1>2, <1>3, <1>4, WatchPage

LEMMA WatchRead ==
  ASSUME NEW p \in Pages, NEW t \in Tables, WatchInv, PagesInv, PageRead(p, t)
  PROVE  WatchInv'
<1> DEFINE old == pages[p]
           page == [old EXCEPT !.read[t] = Database[t]]
<1>1. /\ PageOK(old) /\ SeesMoment(old) /\ HasRead(old.read, old.created)
      /\ pages' = [pages EXCEPT ![p] = page] /\ DOMAIN pages = Pages
      /\ UNCHANGED <<incomeVars, accounts, categories, transactions>>
  BY DEF PageRead, PagesInv, WatchInv, MomentInv, ReadInv
<1>2. /\ page.began = old.began /\ page.writes = old.writes /\ page.created = old.created
      /\ page.read = [old.read EXCEPT ![t] = Database[t]] /\ DOMAIN old.read = Tables
  BY <1>1 DEF PageOK
<1> HIDE DEF page, old
<1>3. SeesMoment(page)
  <2>1. page.writes = 0 =>
          \A u \in Tables : page.began[u] = Database[u] /\ AsBegan(page, u)
    <3> SUFFICES ASSUME page.writes = 0, NEW u \in Tables
                 PROVE  page.began[u] = Database[u] /\ AsBegan(page, u)
      OBVIOUS
    <3>1. old.began[u] = Database[u] /\ AsBegan(old, u)
      BY <1>1, <1>2 DEF SeesMoment
    <3> QED
      BY <1>2, <3>1 DEF AsBegan
  <2>2. ASSUME page.writes = 1
        PROVE  \E w \in Tables :
                 /\ page.read[w] \in {Unread, page.began[w], Database[w]}
                 /\ \A u \in Tables \ {w} : page.began[u] = Database[u] /\ AsBegan(page, u)
    <3>1. PICK w \in Tables :
            /\ old.read[w] \in {Unread, old.began[w], Database[w]}
            /\ \A u \in Tables \ {w} : old.began[u] = Database[u] /\ AsBegan(old, u)
      BY <1>1, <1>2, <2>2 DEF SeesMoment
    <3>2. page.read[w] \in {Unread, page.began[w], Database[w]}
      BY <1>2, <3>1
    <3>3. \A u \in Tables \ {w} : page.began[u] = Database[u] /\ AsBegan(page, u)
      BY <1>2, <3>1 DEF AsBegan
    <3> QED
      BY <3>2, <3>3
  <2>3. TablesOK(page.began)
    BY <1>1, <1>2 DEF SeesMoment
  <2> QED
    BY <2>1, <2>2, <2>3 DEF SeesMoment
<1>4. HasRead(page.read, page.created)
  <2> DEFINE read == page.read
  <2>1. \A u \in Tables : read[u] = old.read[u] \/ read[u] = Database[u]
    BY <1>2
  <2>2. /\ read.accounts \in {old.read.accounts, accounts}
        /\ read.categories \in {old.read.categories, categories}
        /\ read.transactions \in {old.read.transactions, transactions}
        /\ read.plans \in {old.read.plans, plans}
        /\ read.overrides \in {old.read.overrides, overrides}
    BY <2>1, DatabaseTables DEF Tables
  <2>3. /\ accounts \in [Accounts -> Owners \cup {NoRow}]
        /\ categories \in [Categories -> CategoryState]
        /\ transactions \in [TxIds -> TxForms \cup {NoRow}]
        /\ plans \in [PlanIds -> Plan \cup {NoRow}]
        /\ overrides \in [OverrideIds -> Override \cup {NoRow}]
        /\ \A u \in TxIds : transactions[u] # NoRow =>
             /\ accounts[transactions[u].account] # NoRow
             /\ categories[transactions[u].category] # NoRow
    BY DatabaseTables DEF WatchInv, TablesOK
  <2> HIDE DEF read
  <2>4. HasRead(old.read, page.created)
    BY <1>1, <1>2
  <2>5. read.accounts # Unread =>
          /\ read.accounts \in [Accounts -> Owners \cup {NoRow}]
          /\ \A a \in Accounts \ page.created : accounts[a] # NoRow => read.accounts[a] # NoRow
    BY <2>2, <2>3, <2>4 DEF HasRead
  <2>6. read.categories # Unread =>
          /\ read.categories \in [Categories -> CategoryState]
          /\ \A c \in Categories \ page.created :
               categories[c] # NoRow => read.categories[c] # NoRow
    BY <2>2, <2>3, <2>4 DEF HasRead
  <2>7. read.transactions # Unread =>
          /\ read.transactions \in [TxIds -> TxForms \cup {NoRow}]
          /\ \A u \in TxIds : read.transactions[u] # NoRow =>
               /\ accounts[read.transactions[u].account] # NoRow
               /\ categories[read.transactions[u].category] # NoRow
    BY <2>2, <2>3, <2>4 DEF HasRead
  <2>8. /\ read.plans # Unread => read.plans \in [PlanIds -> Plan \cup {NoRow}]
        /\ read.overrides # Unread => read.overrides \in [OverrideIds -> Override \cup {NoRow}]
    BY <2>2, <2>3, <2>4 DEF HasRead
  <2> QED
    BY <2>5, <2>6, <2>7, <2>8 DEF HasRead, read
<1> QED
  BY <1>1, <1>3, <1>4, WatchPage DEF incomeVars

LEMMA InitInvariant == Init => IInv
<1> SUFFICES ASSUME Init PROVE IInv
  OBVIOUS
<1>1. PICK db \in StartDatabases :
        /\ plans = db.plans /\ overrides = db.overrides
        /\ saves = [s \in Savers |-> Idle]
        /\ entered = [p \in PlanIds |-> IF plans[p] = NoRow THEN NoRow ELSE Terms(plans[p])]
        /\ overlapped = {}
        /\ accounts = db.accounts /\ categories = db.categories
        /\ transactions = db.transactions /\ fallback = db.fallback
  BY DEF Init, IncomeInit
<1>2. /\ TablesOK(db) /\ db.fallback \in Locales
      /\ \A p \in PlanIds : db.plans[p] # NoRow => Terms(db.plans[p]) \in PlanForms
  BY StartDatabasesAssumption
<1>3. IncomeInv
  <2>1. IncomeTypeOK
    BY <1>1, <1>2 DEF IncomeTypeOK, TablesOK
  <2> QED
    BY <1>1, <2>1 DEF IncomeInv, EditsKept, SavesInv
<1>4. ColumnsOK
  BY <1>1, <1>2 DEF ColumnsOK, TablesOK
<1>5. PagesInv
  BY DEF Init, PagesInv, Reading
<1>6. WatchInv
  <2>1. TablesOK(Database)
    BY <1>1, <1>2, DatabaseTables DEF TablesOK
  <2> QED
    BY <2>1 DEF Init, WatchInv, MomentInv, ReadInv, Reading
<1> QED
  BY <1>3, <1>4, <1>5, <1>6, Parts

\* The writes of other requests.
LEMMA SaveAccountInv ==
  ASSUME PagesInv, ColumnsOK, WatchInv, SaveAccount
  PROVE  PagesInv' /\ ColumnsOK' /\ WatchInv'
<1>1. PICK a \in Accounts, o \in Owners :
        /\ accounts' = [accounts EXCEPT ![a] = o]
        /\ Noted(IF accounts[a] = NoRow THEN {a} ELSE {})
  BY DEF SaveAccount
<1> DEFINE created == IF accounts[a] = NoRow THEN {a} ELSE {}
<1>2. created \subseteq Accounts \cup Categories /\ Noted(created)
  BY <1>1
<1>3. UNCHANGED <<plans, overrides, categories, transactions, fallback>>
  BY DEF SaveAccount, incomeVars
<1>4. /\ accounts' \in [Accounts -> Owners \cup {NoRow}]
      /\ \A x \in Accounts : accounts[x] # NoRow => accounts'[x] # NoRow
      /\ \A x \in Accounts \ created : accounts'[x] # NoRow => accounts[x] # NoRow
  BY <1>1, NoRowAssumption DEF ColumnsOK
<1>5. ColumnsOK'
  BY <1>3, <1>4 DEF ColumnsOK
<1>6. TablesOK(Database)'
  <2>1. TablesOK(Database)
    BY DEF WatchInv
  <2>2. \A t \in TxIds : transactions[t] # NoRow => transactions[t].account \in Accounts
    BY RowTyped DEF ColumnsOK
  <2> QED
    BY <1>3, <1>4, <2>1, <2>2, DatabaseTables, DatabaseTablesNext DEF TablesOK, Database
<1>7. \A t \in Tables \ {"accounts"} : Database'[t] = Database[t]
  BY <1>3, DatabaseTables, DatabaseTablesNext DEF Tables
<1>8. "accounts" \in Tables
  BY DEF Tables
<1> HIDE DEF created
<1>9. PagesInv'
  BY <1>2, NotedInv
<1>10. WatchInv'
  BY <1>2, <1>3, <1>4, <1>6, <1>7, <1>8, WatchWrite
<1> QED
  BY <1>5, <1>9, <1>10

LEMMA SaveCategoryInv ==
  ASSUME PagesInv, ColumnsOK, WatchInv, SaveCategory
  PROVE  PagesInv' /\ ColumnsOK' /\ WatchInv'
<1>1. PICK c \in Categories, state \in {"active", "inactive"} :
        /\ categories' = [categories EXCEPT ![c] = state]
        /\ Noted(IF categories[c] = NoRow THEN {c} ELSE {})
  BY DEF SaveCategory
<1> DEFINE created == IF categories[c] = NoRow THEN {c} ELSE {}
<1>2. created \subseteq Accounts \cup Categories /\ Noted(created)
  BY <1>1
<1>3. UNCHANGED <<plans, overrides, accounts, transactions, fallback>>
  BY DEF SaveCategory, incomeVars
<1>4. /\ categories' \in [Categories -> CategoryState]
      /\ \A x \in Categories : categories[x] # NoRow => categories'[x] # NoRow
      /\ \A x \in Categories \ created : categories'[x] # NoRow => categories[x] # NoRow
  BY <1>1, NoRowAssumption DEF ColumnsOK, CategoryState
<1>5. ColumnsOK'
  BY <1>3, <1>4 DEF ColumnsOK
<1>6. TablesOK(Database)'
  <2>1. TablesOK(Database)
    BY DEF WatchInv
  <2>2. \A t \in TxIds : transactions[t] # NoRow => transactions[t].category \in Categories
    BY RowTyped DEF ColumnsOK
  <2> QED
    BY <1>3, <1>4, <2>1, <2>2, DatabaseTables, DatabaseTablesNext DEF TablesOK, Database
<1>7. \A t \in Tables \ {"categories"} : Database'[t] = Database[t]
  BY <1>3, DatabaseTables, DatabaseTablesNext DEF Tables
<1>8. "categories" \in Tables
  BY DEF Tables
<1> HIDE DEF created
<1>9. PagesInv'
  BY <1>2, NotedInv
<1>10. WatchInv'
  BY <1>2, <1>3, <1>4, <1>6, <1>7, <1>8, WatchWrite
<1> QED
  BY <1>5, <1>9, <1>10

LEMMA TransactionsInv ==
  ASSUME PagesInv, ColumnsOK, WatchInv, SaveTransaction \/ DeleteTransaction
  PROVE  PagesInv' /\ ColumnsOK' /\ WatchInv'
<1>1. UNCHANGED <<plans, overrides, accounts, categories, fallback>> /\ Noted({})
  BY DEF SaveTransaction, DeleteTransaction, incomeVars
<1>2. /\ transactions' \in [TxIds -> TxForms \cup {NoRow}]
      /\ \A t \in TxIds : transactions'[t] # NoRow =>
           /\ accounts[transactions'[t].account] # NoRow
           /\ categories[transactions'[t].category] # NoRow
  <2>1. \A t \in TxIds : transactions[t] # NoRow =>
          /\ accounts[transactions[t].account] # NoRow
          /\ categories[transactions[t].category] # NoRow
    BY DatabaseTables DEF WatchInv, TablesOK
  <2>2. CASE SaveTransaction
    <3>1. PICK t \in TxIds, row \in TxForms :
            /\ accounts[row.account] # NoRow /\ categories[row.category] # NoRow
            /\ transactions' = [transactions EXCEPT ![t] = row]
      BY <2>2 DEF SaveTransaction
    <3> QED
      BY <2>1, <3>1 DEF ColumnsOK
  <2>3. CASE DeleteTransaction
    <3>1. PICK t \in TxIds : transactions' = [transactions EXCEPT ![t] = NoRow]
      BY <2>3 DEF DeleteTransaction
    <3> QED
      BY <2>1, <3>1 DEF ColumnsOK
  <2> QED
    BY <2>2, <2>3
<1>3. ColumnsOK'
  BY <1>1, <1>2 DEF ColumnsOK
<1>4. TablesOK(Database)'
  <2>1. TablesOK(Database)
    BY DEF WatchInv
  <2> QED
    BY <1>1, <1>2, <2>1, DatabaseTables, DatabaseTablesNext DEF TablesOK, Database
<1>5. \A t \in Tables \ {"transactions"} : Database'[t] = Database[t]
  BY <1>1, DatabaseTables, DatabaseTablesNext DEF Tables
<1>6. "transactions" \in Tables
  BY DEF Tables
<1>7. PagesInv'
  BY <1>1, NotedInv
<1>8. WatchInv'
  BY <1>1, <1>4, <1>5, <1>6, WatchWrite
<1> QED
  BY <1>3, <1>7, <1>8

LEMMA IncomeInvNoted ==
  ASSUME IncomeInv, PagesInv, ColumnsOK, WatchInv, WriteIncome
  PROVE  IncomeInv' /\ PagesInv' /\ ColumnsOK' /\ WatchInv'
<1>1. UNCHANGED <<accounts, categories, transactions, fallback>> /\ Noted({})
  BY DEF WriteIncome
<1>2. IncomeInv'
  BY WritesIncomeInv DEF WriteIncome
<1>3. ColumnsOK'
  BY <1>1 DEF ColumnsOK
<1>4. TablesOK(Database)'
  <2>1. TablesOK(Database)
    BY DEF WatchInv
  <2>2. /\ plans' \in [PlanIds -> Plan \cup {NoRow}]
        /\ overrides' \in [OverrideIds -> Override \cup {NoRow}]
    BY <1>2 DEF IncomeInv, IncomeTypeOK
  <2> QED
    BY <1>1, <2>1, <2>2, DatabaseTables, DatabaseTablesNext DEF TablesOK, Database
<1>5. \E w \in {"plans", "overrides"} : \A t \in Tables \ {w} : Database'[t] = Database[t]
  <2>1. overrides' = overrides \/ plans' = plans
    BY DEF WriteIncome, IncomeWrites, CreatePlan, CreateOverride, SavePlan
  <2> QED
    BY <1>1, <2>1, DatabaseTables, DatabaseTablesNext DEF Tables
<1>6. PICK w \in {"plans", "overrides"} : \A t \in Tables \ {w} : Database'[t] = Database[t]
  BY <1>5
<1>7. w \in Tables
  BY DEF Tables
<1>8. PagesInv'
  BY <1>1, NotedInv
<1>9. WatchInv'
  BY <1>1, <1>4, <1>6, <1>7, WatchWrite
<1> QED
  BY <1>2, <1>3, <1>8, <1>9

LEMMA PagesStepInv ==
  ASSUME NEW p \in Pages, PagesInv, WatchInv,
         \/ PageBegin(p) \/ PageAnswer(p) \/ PageDone(p)
         \/ ListBegin(p) \/ ListAnswer(p)
         \/ \E t \in Tables : PageRead(p, t)
  PROVE  PagesInv' /\ WatchInv'
<1>1. PagesInv'
  BY PageBeginInv, ListBeginInv, PageEndInv, PageReadInv
<1>2. DOMAIN pages = Pages
  BY DEF PagesInv
<1>3. CASE PageBegin(p)
  <2>1. PICK kind \in {"dashboard", "income"}, filters \in Filters, today \in Today :
          pages' = [pages EXCEPT ![p] = Opened(kind, filters, today)]
    BY <1>3 DEF PageBegin
  <2>2. UNCHANGED <<accounts, categories, transactions, plans, overrides>>
    BY <1>3 DEF PageBegin, incomeVars
  <2> QED
    BY <1>1, <1>2, <2>1, <2>2, WatchBegin
<1>4. CASE ListBegin(p)
  <2>1. \E filters : pages' = [pages EXCEPT ![p] = Opened("ledger", filters, Unread)]
    BY <1>4 DEF ListBegin
  <2>2. PICK filters : pages' = [pages EXCEPT ![p] = Opened("ledger", filters, Unread)]
    BY <2>1
  <2>3. UNCHANGED <<accounts, categories, transactions, plans, overrides>>
    BY <1>4 DEF ListBegin, incomeVars
  <2> QED
    BY <1>1, <1>2, <2>2, <2>3, WatchBegin
<1>5. CASE PageAnswer(p) \/ ListAnswer(p) \/ PageDone(p)
  <2>1. \E page : pages' = [pages EXCEPT ![p] = page] /\ (page = Idle \/ "read" \notin DOMAIN page)
    BY <1>5 DEF PageAnswer, ListAnswer, PageDone
  <2>2. PICK page :
          pages' = [pages EXCEPT ![p] = page] /\ (page = Idle \/ "read" \notin DOMAIN page)
    BY <2>1
  <2>3. UNCHANGED <<accounts, categories, transactions, plans, overrides>>
    BY <1>5 DEF PageAnswer, ListAnswer, PageDone, incomeVars
  <2> QED
    BY <1>1, <1>2, <2>2, <2>3, WatchPage
<1>6. CASE \E t \in Tables : PageRead(p, t)
  BY <1>1, <1>6, WatchRead
<1> QED
  BY <1>3, <1>4, <1>5, <1>6

LEMMA StepInvariant == IInv /\ [Next]_vars => IInv'
<1> SUFFICES ASSUME IncomeInv, PagesInv, ColumnsOK, WatchInv, [Next]_vars
             PROVE  IncomeInv' /\ PagesInv' /\ ColumnsOK' /\ WatchInv'
  BY Parts DEF IInv, TypeOK, WritesInv, IncomeInv, PagesInv, ColumnsOK, WatchInv
<1>1. CASE SaveAccount
  BY <1>1, SaveAccountInv, IncomeStaysInv DEF SaveAccount
<1>2. CASE SaveCategory
  BY <1>2, SaveCategoryInv, IncomeStaysInv DEF SaveCategory
<1>3. CASE SaveTransaction \/ DeleteTransaction
  BY <1>3, TransactionsInv, IncomeStaysInv DEF SaveTransaction, DeleteTransaction
<1>4. CASE WriteIncome
  BY <1>4, IncomeInvNoted
<1>5. CASE StartUpdate
  <2>1. UNCHANGED <<plans, overrides>>
    BY <1>5 DEF StartUpdate, IncomeReads, SaveRefused, EditPlan, ActivatePlan, incomeTables
  <2>2. IncomeInv'
    BY <1>5, ReadsInv DEF StartUpdate
  <2>3. WatchInv'
    BY <1>5, <2>1, WatchStays DEF StartUpdate, dashboardVars
  <2>4. PagesInv' /\ ColumnsOK'
    BY <1>5 DEF StartUpdate, dashboardVars, ColumnsOK, PagesInv, Reading
  <2> QED
    BY <2>2, <2>3, <2>4
<1>6. ASSUME NEW p \in Pages,
             \/ PageBegin(p) \/ PageAnswer(p) \/ PageDone(p)
             \/ ListBegin(p) \/ ListAnswer(p)
             \/ \E t \in Tables : PageRead(p, t)
      PROVE  IncomeInv' /\ PagesInv' /\ ColumnsOK' /\ WatchInv'
  <2>1. PagesInv' /\ WatchInv'
    BY <1>6, PagesStepInv
  <2>2. UNCHANGED <<incomeVars, accounts, categories, transactions, fallback>>
    BY <1>6 DEF PageBegin, ListBegin, PageAnswer, ListAnswer, PageDone, PageRead
  <2> QED
    BY <2>1, <2>2, IncomeStaysInv DEF ColumnsOK
<1>7. CASE UNCHANGED vars
  <2>1. UNCHANGED <<accounts, categories, transactions, plans, overrides, pages>>
    BY <1>7 DEF vars, incomeVars, dashboardVars
  <2>2. WatchInv'
    BY <2>1, WatchStays
  <2> QED
    BY <1>7, <2>2, IncomeStaysInv DEF vars, dashboardVars, ColumnsOK, PagesInv, Reading
<1> QED
  BY <1>1, <1>2, <1>3, <1>4, <1>5, <1>6, <1>7 DEF Next


-----------------------------------------------------------------------------

\* The inductive invariant: types and foreign keys; that an activation holds the terms its
\* plan has as long as no form was saved since it read them; and what a page has read,
\* next to the database it began with and the one that is there.
THEOREM Invariance == Spec => []IInv
BY InitInvariant, StepInvariant, PTL DEF Spec

\* Every variable keeps its type.
THEOREM TypeCorrect == Spec => []TypeOK
<1>1. IInv => TypeOK
  BY DEF IInv
<1> QED
  BY Invariance, <1>1, PTL

\* Every header, however long, that does not name another region of English before
\* English itself gets the locale that its controlling ranges rank first; an excluded
\* one answers only where no other can (resolveRequestLocale).
THEOREM LocaleChosen == Spec => []LocaleNegotiated
<1>1. IInv => LocaleNegotiated
  BY Negotiation, Zenon DEF IInv, TypeOK, LocaleNegotiated, Sound
<1> QED
  BY Invariance, <1>1, PTL

\* A plan's terms are those of its last form, however many activations run beside
\* it, unless one of them had read the plan before that form was saved.
THEOREM ActivationsKeepTerms == Spec => []EditsKept
<1>1. IInv => EditsKept
  BY DEF IInv
<1> QED
  BY Invariance, <1>1, PTL

-----------------------------------------------------------------------------
(* Sums of rows.                                                           *)

Rows(db) == {t \in TxIds : db.transactions[t] # NoRow}
Cost(db) == [t \in TxIds |-> -db.transactions[t].cents]

\* The amounts of expenses are negative, so magnitudes are natural numbers that grow with
\* the set of rows.
LEMMA Magnitudes ==
  ASSUME NEW db, db.transactions \in [TxIds -> TxForms \cup {NoRow}],
         NEW ids \in SUBSET Rows(db)
  PROVE  /\ IsFiniteSet(ids) /\ \A t \in ids : Cost(db)[t] \in Nat
         /\ Magnitude(db, ids) = SumFunctionOnSet(Cost(db), ids)
         /\ Magnitude(db, ids) \in Nat
<1>1. IsFiniteSet(ids) /\ ids \in SUBSET TxIds
  BY IdsAssumption, FS_Subset DEF Rows
<1>2. \A t \in ids : db.transactions[t] \in TxForms
  BY DEF Rows
<1>3. \A t \in ids : Cost(db)[t] \in Nat /\ Cost(db)[t] = -db.transactions[t].cents
  <2> SUFFICES ASSUME NEW t \in ids
               PROVE  Cost(db)[t] \in Nat /\ Cost(db)[t] = -db.transactions[t].cents
    OBVIOUS
  <2>1. Cost(db)[t] = -db.transactions[t].cents
    BY <1>1 DEF Cost
  <2>2. db.transactions[t].cents \in Int /\ db.transactions[t].cents < 0
    BY <1>2, RowTyped
  <2> QED
    BY <2>1, <2>2
<1> DEFINE f == [t \in ids |-> -db.transactions[t].cents]
           c == Cost(db)
<1>4. Magnitude(db, ids) = SumFunctionOnSet(f, ids)
  BY DEF Magnitude, SumFunction, FoldFunction, SumFunctionOnSet
<1>5. \A t \in ids : f[t] = c[t] /\ c[t] \in Nat
  BY <1>3
<1> HIDE DEF f, c
<1>6. SumFunctionOnSet(f, ids) = SumFunctionOnSet(c, ids)
  BY <1>1, <1>5, SumSame
<1>7. SumFunctionOnSet(c, ids) \in Nat
  <2>1. ids \in SUBSET ids
    OBVIOUS
  <2> QED
    BY <1>1, <1>5, <2>1, SumNat
<1> QED
  BY <1>1, <1>4, <1>5, <1>6, <1>7 DEF c

\* The magnitudes of the classes of a set of rows add up to its magnitude.
LEMMA MagnitudesSplit ==
  ASSUME NEW db, db.transactions \in [TxIds -> TxForms \cup {NoRow}],
         NEW ids \in SUBSET Rows(db), NEW K, IsFiniteSet(K),
         NEW class, \A t \in ids : class[t] \in K
  PROVE  SumFunction([k \in K |-> Magnitude(db, {t \in ids : class[t] = k})]) = Magnitude(db, ids)
<1> DEFINE c == Cost(db)
           part(k) == {t \in ids : class[t] = k}
           f == [k \in K |-> Magnitude(db, part(k))]
           g == [k \in K |-> SumFunctionOnSet(c, part(k))]
<1>1. /\ IsFiniteSet(ids) /\ \A t \in ids : c[t] \in Int
      /\ Magnitude(db, ids) = SumFunctionOnSet(c, ids)
  <2>1. /\ IsFiniteSet(ids) /\ \A t \in ids : c[t] \in Nat
        /\ Magnitude(db, ids) = SumFunctionOnSet(c, ids)
    BY Magnitudes, Zenon
  <2> HIDE DEF c
  <2> QED
    BY <2>1
<1>2. \A k \in K : part(k) \in SUBSET Rows(db)
  OBVIOUS
<1>3. \A k \in K : Magnitude(db, part(k)) = SumFunctionOnSet(c, part(k))
  <2> HIDE DEF part
  <2> QED
    BY <1>2, Magnitudes
<1>4. f = g
  BY <1>3
<1>5. SumFunction(f) = SumFunctionOnSet(f, K)
  BY DEF SumFunction, FoldFunction, SumFunctionOnSet
<1>6. SumFunctionOnSet(g, K) = SumFunctionOnSet(c, ids)
  <2> HIDE DEF c
  <2> QED
    BY <1>1, SumSplit
<1> HIDE DEF f, g, c
<1>7. SumFunction(f) = Magnitude(db, ids)
  BY <1>1, <1>4, <1>5, <1>6
<1> QED
  BY <1>7 DEF f

LEMMA SpentRows ==
  ASSUME NEW db, NEW filters, NEW months
  PROVE  /\ Spent(db, filters, months) \in SUBSET Rows(db)
         /\ \A t \in Spent(db, filters, months) :
              t \in Filtered(db, filters) /\ db.transactions[t].month \in months
BY DEF Spent, Filtered, Rows

-----------------------------------------------------------------------------
(* What an answer is made of.                                              *)

LEMMA Answering ==
  ASSUME IInv, NEW p \in Pages, PageAnswer(p)
  PROVE  LET page == pages[p]
             read == page.read IN
         /\ Reading(p) /\ PageOK(page) /\ SeesMoment(page) /\ HasRead(read, page.created)
         /\ page.kind \in {"dashboard", "income"} /\ page.filters \in Filters
         /\ page.today \in Today
         /\ read.plans \in [PlanIds -> Plan \cup {NoRow}]
         /\ read.overrides \in [OverrideIds -> Override \cup {NoRow}]
         /\ \A t \in Needed[page.kind] : read[t] # Unread
         /\ page.kind = "dashboard" =>
              /\ read.accounts \in [Accounts -> Owners \cup {NoRow}]
              /\ read.categories \in [Categories -> CategoryState]
              /\ read.transactions \in [TxIds -> TxForms \cup {NoRow}]
              /\ read.accounts # Unread /\ read.categories # Unread /\ read.transactions # Unread
         /\ \E first \in Firsts(read, page.filters.month) :
              Answer(p) = IF page.kind = "dashboard"
                          THEN Calculate(read, page.filters, page.today, first)
                          ELSE CalculateIncome(read, page.filters, first)
<1> DEFINE page == pages[p]
           read == page.read
<1>1. /\ Reading(p) /\ page.kind # "ledger"
      /\ \A t \in Needed[page.kind] : read[t] # Unread
  BY DEF PageAnswer
<1>2. /\ PageOK(page) /\ SeesMoment(page) /\ HasRead(read, page.created) /\ DOMAIN pages = Pages
  BY <1>1 DEF IInv, TypeOK, MomentInv, ReadInv
<1>3. page.kind \in {"dashboard", "income"} /\ page.filters \in Filters /\ page.today \in Today
  BY <1>1, <1>2 DEF PageOK, Needed
<1>4. "plans" \in Needed[page.kind] /\ "overrides" \in Needed[page.kind]
  BY <1>3 DEF Needed, Tables
<1>5. page.kind = "dashboard" =>
        "accounts" \in Needed[page.kind] /\ "categories" \in Needed[page.kind]
          /\ "transactions" \in Needed[page.kind]
  BY DEF Needed, Tables
<1>6. PICK first \in Firsts(read, page.filters.month) :
        pages' = [pages EXCEPT ![p] = [answer |->
                    IF page.kind = "dashboard"
                    THEN Calculate(read, page.filters, page.today, first)
                    ELSE CalculateIncome(read, page.filters, first)]]
  BY DEF PageAnswer
<1>7. Answer(p) = IF page.kind = "dashboard"
                  THEN Calculate(read, page.filters, page.today, first)
                  ELSE CalculateIncome(read, page.filters, first)
  BY <1>2, <1>6 DEF Answer
<1>8. read.plans # Unread /\ read.overrides # Unread
  BY <1>1, <1>4
<1>9. page.kind = "dashboard" =>
        read.accounts # Unread /\ read.categories # Unread /\ read.transactions # Unread
  BY <1>1, <1>5
<1> HIDE DEF page, read
<1>10. /\ read.plans \in [PlanIds -> Plan \cup {NoRow}]
       /\ read.overrides \in [OverrideIds -> Override \cup {NoRow}]
       /\ page.kind = "dashboard" =>
              /\ read.accounts \in [Accounts -> Owners \cup {NoRow}]
              /\ read.categories \in [Categories -> CategoryState]
              /\ read.transactions \in [TxIds -> TxForms \cup {NoRow}]
  BY <1>2, <1>8, <1>9 DEF HasRead
<1> QED
  BY <1>1, <1>2, <1>3, <1>7, <1>8, <1>9, <1>10 DEF page, read

\* A page that does not fail shows these figures.
LEMMA Figures ==
  \A read, filters, today, first :
    LET answer == Calculate(read, filters, today, first) IN
    answer # Failed =>
      /\ answer.income = MonthlyIncome(read, filters, first)
      /\ answer.expense = Magnitude(read, Spent(read, filters, {filters.month}))
      /\ answer.balance = answer.income - answer.expense
      /\ answer.byCategory = GroupCategories(read, filters)
      /\ answer.byAccount = GroupAccounts(read, filters)
      /\ answer.averages = [w \in {3, 6, 12} |-> HistoricalAverage(read, filters, w)]
      /\ answer.forecast = IF filters.month = today.month
                           THEN MonthlyForecast(read, filters, today) ELSE 0
BY DEF Calculate

LEMMA Shows ==
  ASSUME NEW p, NEW first, Answer(p) # Failed,
         Answer(p) = Calculate(pages[p].read, pages[p].filters, pages[p].today, first)
  PROVE  LET page == pages[p]
             read == page.read
             filters == page.filters IN
         /\ Answer(p).income = MonthlyIncome(read, filters, first)
         /\ Answer(p).expense = Magnitude(read, Spent(read, filters, {filters.month}))
         /\ Answer(p).balance = Answer(p).income - Answer(p).expense
         /\ Answer(p).byCategory = GroupCategories(read, filters)
         /\ Answer(p).byAccount = GroupAccounts(read, filters)
         /\ Answer(p).averages = [w \in {3, 6, 12} |-> HistoricalAverage(read, filters, w)]
         /\ Answer(p).forecast = IF filters.month = page.today.month
                                 THEN MonthlyForecast(read, filters, page.today) ELSE 0
BY Figures, SMTT(40)

-----------------------------------------------------------------------------
(* The groups.                                                             *)

LEMMA AnswerReconciles ==
  ASSUME IInv, NEW p \in Pages, Answered(p, "dashboard"), pages[p].created = {}
  PROVE  /\ SumFunction(Answer(p).byCategory) = Answer(p).expense
         /\ SumFunction(Answer(p).byAccount) = Answer(p).expense
<1> DEFINE page == pages[p]
           read == page.read
           filters == page.filters
           spent == Spent(read, filters, {filters.month})
<1>1. PageAnswer(p) /\ page.kind = "dashboard" /\ Answer(p) # Failed
  BY DEF Answered
<1>2. /\ HasRead(read, page.created)
      /\ read.accounts # Unread /\ read.categories # Unread /\ read.transactions # Unread
      /\ read.transactions \in [TxIds -> TxForms \cup {NoRow}]
      /\ \E first \in Firsts(read, filters.month) :
           Answer(p) = Calculate(read, filters, page.today, first)
  BY <1>1, Answering
<1>3. PICK first \in Firsts(read, filters.month) :
        Answer(p) = Calculate(read, filters, page.today, first)
  BY <1>2
<1>4. /\ Answer(p).expense = Magnitude(read, spent)
      /\ Answer(p).byCategory = GroupCategories(read, filters)
      /\ Answer(p).byAccount = GroupAccounts(read, filters)
  BY <1>1, <1>3, Shows
<1>5. spent \in SUBSET Rows(read)
  BY SpentRows
<1>6. page.created = {}
  OBVIOUS
<1> HIDE DEF page, read, filters, spent
<1>7. ASSUME NEW t \in spent
      PROVE  /\ read.transactions[t].category \in {c \in Categories : read.categories[c] # NoRow}
             /\ read.transactions[t].account \in {a \in Accounts : read.accounts[a] # NoRow}
  <2>1. t \in TxIds /\ read.transactions[t] # NoRow /\ read.transactions[t] \in TxForms
    BY <1>2, <1>5 DEF Rows
  <2>2. read.transactions[t].account \in Accounts /\ read.transactions[t].category \in Categories
    BY <2>1, RowTyped
  <2>3. /\ accounts[read.transactions[t].account] # NoRow
        /\ categories[read.transactions[t].category] # NoRow
    BY <1>2, <2>1 DEF HasRead
  <2>4. /\ \A a \in Accounts : accounts[a] # NoRow => read.accounts[a] # NoRow
        /\ \A c \in Categories : categories[c] # NoRow => read.categories[c] # NoRow
    BY <1>2, <1>6 DEF HasRead
  <2> QED
    BY <2>2, <2>3, <2>4
<1>8. SumFunction(GroupCategories(read, filters)) = Magnitude(read, spent)
  <2> DEFINE K == {c \in Categories : read.categories[c] # NoRow}
             class == [t \in spent |-> read.transactions[t].category]
  <2>1. IsFiniteSet(K)
    BY IdsAssumption, FS_Subset
  <2>2. \A t \in spent : class[t] \in K
    BY <1>7
  <2>3. \A k \in K : {t \in spent : read.transactions[t].category = k} = {t \in spent : class[t] = k}
    OBVIOUS
  <2>4. GroupCategories(read, filters)
          = [k \in K |-> Magnitude(read, {t \in spent : read.transactions[t].category = k})]
    BY DEF GroupCategories, spent
  <2>5. GroupCategories(read, filters)
          = [k \in K |-> Magnitude(read, {t \in spent : class[t] = k})]
    <3> HIDE DEF K, class
    <3> QED
      BY <2>3, <2>4
  <2> HIDE DEF K, class
  <2>6. SumFunction([k \in K |-> Magnitude(read, {t \in spent : class[t] = k})])
          = Magnitude(read, spent)
    BY <1>2, <1>5, <2>1, <2>2, MagnitudesSplit
  <2> QED
    BY <2>5, <2>6
<1>9. SumFunction(GroupAccounts(read, filters)) = Magnitude(read, spent)
  <2> DEFINE K == {a \in Accounts : read.accounts[a] # NoRow}
             class == [t \in spent |-> read.transactions[t].account]
  <2>1. IsFiniteSet(K)
    BY IdsAssumption, FS_Subset
  <2>2. \A t \in spent : class[t] \in K
    BY <1>7
  <2>3. \A k \in K : {t \in spent : read.transactions[t].account = k} = {t \in spent : class[t] = k}
    OBVIOUS
  <2>4. GroupAccounts(read, filters)
          = [k \in K |-> Magnitude(read, {t \in spent : read.transactions[t].account = k})]
    BY DEF GroupAccounts, spent
  <2>5. GroupAccounts(read, filters)
          = [k \in K |-> Magnitude(read, {t \in spent : class[t] = k})]
    <3> HIDE DEF K, class
    <3> QED
      BY <2>3, <2>4
  <2> HIDE DEF K, class
  <2>6. SumFunction([k \in K |-> Magnitude(read, {t \in spent : class[t] = k})])
          = Magnitude(read, spent)
    BY <1>2, <1>5, <2>1, <2>2, MagnitudesSplit
  <2> QED
    BY <2>5, <2>6
<1> QED
  BY <1>4, <1>8, <1>9

\* The groups of a page add up to its expense, whatever was written between its
\* statements, unless an account or a category was created there (calculateDashboard).
THEOREM TotalsReconcile == Spec => GroupsReconcile
<1>1. IInv =>
        \A p \in Pages :
          Answered(p, "dashboard") =>
            \A group \in {Answer(p).byCategory, Answer(p).byAccount} :
              \/ SumFunction(group) = Answer(p).expense
              \/ pages[p].created # {}
  BY AnswerReconciles
<1> QED
  BY <1>1, Invariance, PTL DEF GroupsReconcile

-----------------------------------------------------------------------------
(* What a moment shows.                                                    *)

Counted(db, filters, month, booked, fixed) ==
  {t \in Filtered(db, filters) : /\ db.transactions[t].booked \in booked
                                 /\ db.transactions[t].fixed \in fixed
                                 /\ ~db.transactions[t].transfer
                                 /\ db.transactions[t].month = month}

\* The expense of a month, as the reference sums it and as the code does.
LEMMA ExpenseRows ==
  ASSUME NEW db, db.transactions \in [TxIds -> TxForms \cup {NoRow}],
         NEW filters \in Filters, NEW month \in Nat,
         NEW booked \in SUBSET BOOLEAN, NEW fixed \in SUBSET BOOLEAN
  PROVE  ExpenseAt(db, filters, month, booked, fixed)
           = Magnitude(db, Counted(db, filters, month, booked, fixed))
<1> DEFINE owned == {a \in Accounts : filters.owner \in {NoFilter, db.accounts[a]}}
           A == IF filters.account = NoFilter THEN owned ELSE owned \cap {filters.account}
           C == IF filters.category = NoFilter THEN Categories ELSE {filters.category}
           rows == [account : A, category : C,
                    month : {month}, cents : {form.cents : form \in TxForms},
                    booked : booked, fixed : fixed, transfer : {FALSE}]
           S == {u \in TxIds : db.transactions[u] \in rows}
           T == {t \in Filtered(db, filters) :
                   /\ db.transactions[t].booked \in booked
                   /\ db.transactions[t].fixed \in fixed
                   /\ ~db.transactions[t].transfer
                   /\ db.transactions[t].month = month}
<1>1. A \subseteq Accounts /\ C \subseteq Categories
  BY FiltersAssumption DEF Filter
<1>2. rows \subseteq Tx
  <2> SUFFICES ASSUME NEW row \in rows PROVE row \in Tx
    OBVIOUS
  <2>1. \A form \in TxForms : form.cents \in Int
    BY RowTyped
  <2> HIDE DEF A, C
  <2> QED
    BY <1>1, <2>1 DEF Tx
<1>3. ASSUME NEW t \in TxIds
      PROVE  t \in S <=> t \in T
  <2> DEFINE row == db.transactions[t]
  <2>1. row \in TxForms \cup {NoRow}
    OBVIOUS
  <2>2. CASE row = NoRow
    <3>1. row \notin rows
      BY <1>2, <2>2, NoRowAssumption
    <3> QED
      BY <2>2, <3>1 DEF Filtered
  <2>3. CASE row \in TxForms
    <3>1. row # NoRow /\ row \in Tx
      BY <2>3, RowTyped, TxFormsAssumption
    <3>2. t \in T <=> /\ Matches(row, filters, db)
                      /\ row.booked \in booked /\ row.fixed \in fixed
                      /\ ~row.transfer /\ row.month = month
      BY <3>1 DEF Filtered
    <3>3. Matches(row, filters, db) <=> row.account \in A /\ row.category \in C
      BY <3>1 DEF Matches, Tx
    <3>4. row.cents \in {form.cents : form \in TxForms}
      BY <2>3
    <3>5. row \in rows <=> /\ row.account \in A /\ row.category \in C /\ row.month = month
                           /\ row.booked \in booked /\ row.fixed \in fixed
                           /\ ~row.transfer
      <4> HIDE DEF row, A, C
      <4>1. row.transfer \in BOOLEAN
        BY <3>1 DEF Tx
      <4>2. row = [account |-> row.account, category |-> row.category, month |-> row.month,
                   cents |-> row.cents, booked |-> row.booked, fixed |-> row.fixed,
                   transfer |-> row.transfer]
        BY <3>1 DEF Tx
      <4> QED
        BY <3>4, <4>1, <4>2
    <3> HIDE DEF row, A, C, rows, T
    <3>6. row \in rows <=> t \in T
      BY <3>2, <3>3, <3>5
    <3> QED
      BY <3>6 DEF row
  <2> QED
    BY <2>1, <2>2, <2>3
<1>4. S = T
  <2>1. S \subseteq TxIds /\ T \subseteq TxIds
    BY DEF Filtered
  <2> HIDE DEF S, T
  <2> QED
    BY <1>3, <2>1
<1>5. T \in SUBSET Rows(db)
  BY DEF Filtered, Rows
<1> DEFINE f == [t \in S |-> db.transactions[t].cents]
<1>6. ExpenseAt(db, filters, month, booked, fixed) = -SumFunctionOnSet(f, S)
  BY DEF ExpenseAt, SumFunction, FoldFunction, SumFunctionOnSet
<1> HIDE DEF S, T
<1>7. IsFiniteSet(S) /\ S \in SUBSET TxIds /\ S \in SUBSET Rows(db)
  BY <1>4, <1>5, IdsAssumption, FS_Subset DEF Rows
<1>8. \A t \in S : f[t] \in Int /\ Cost(db)[t] = -f[t]
  <2> SUFFICES ASSUME NEW t \in S PROVE f[t] \in Int /\ Cost(db)[t] = -f[t]
    OBVIOUS
  <2>1. db.transactions[t] \in TxForms
    BY <1>7 DEF Rows
  <2>2. db.transactions[t].cents \in Int
    BY <2>1, RowTyped
  <2> QED
    BY <1>7, <2>2 DEF Cost
<1> DEFINE c == Cost(db)
<1>9. SumFunctionOnSet(c, S) = -SumFunctionOnSet(f, S)
  <2> HIDE DEF c, f
  <2>1. \A t \in S : f[t] \in Int /\ c[t] = -f[t]
    BY <1>8 DEF c
  <2> QED
    BY <1>7, <2>1, SumNegated
<1>10. Magnitude(db, S) = SumFunctionOnSet(c, S)
  BY <1>7, Magnitudes
<1> HIDE DEF c, f
<1>11. ExpenseAt(db, filters, month, booked, fixed) = Magnitude(db, T)
  BY <1>4, <1>6, <1>9, <1>10
<1> QED
  BY <1>11 DEF T, Counted

\* What a page adds up of a table it read is the expense of any database with that table.
LEMMA ExpenseShown ==
  ASSUME NEW read, read.transactions \in [TxIds -> TxForms \cup {NoRow}],
         NEW db, db.transactions = read.transactions, db.accounts = read.accounts,
         NEW filters \in Filters, NEW month \in Nat
  PROVE  Magnitude(read, Spent(read, filters, {month}))
           = ExpenseAt(db, filters, month, {TRUE}, BOOLEAN)
<1> DEFINE T == Counted(read, filters, month, {TRUE}, BOOLEAN)
<1>1. ExpenseAt(read, filters, month, {TRUE}, BOOLEAN) = Magnitude(read, T)
  <2>1. {TRUE} \in SUBSET BOOLEAN /\ BOOLEAN \in SUBSET BOOLEAN
    OBVIOUS
  <2> QED
    BY <2>1, ExpenseRows, Zenon
<1>2. Spent(read, filters, {month}) = T
  <2>1. ASSUME NEW t \in Filtered(read, filters)
        PROVE  /\ read.transactions[t].fixed \in BOOLEAN
               /\ read.transactions[t].booked \in BOOLEAN
    <3>1. read.transactions[t] \in TxForms
      BY DEF Filtered
    <3> QED
      BY <3>1, RowTyped
  <2> QED
    BY <2>1 DEF Spent, Counted
<1>3. ExpenseAt(db, filters, month, {TRUE}, BOOLEAN)
        = ExpenseAt(read, filters, month, {TRUE}, BOOLEAN)
  BY DEF ExpenseAt
<1> HIDE DEF T
<1> QED
  BY <1>1, <1>2, <1>3

\* The income of a page is one of those of any database with the plans and the
\* overrides it read.
LEMMA IncomeShown ==
  ASSUME NEW read, read.plans \in [PlanIds -> Plan \cup {NoRow}],
         NEW db, db.plans = read.plans, db.overrides = read.overrides,
         NEW filters \in Filters, NEW first \in Firsts(read, filters.month)
  PROVE  MonthlyIncome(read, filters, first) \in IncomesAt(db, filters, filters.month)
<1> DEFINE month == filters.month
           counting == {p \in PlanIds :
             /\ db.plans[p] # NoRow /\ db.plans[p].active
             /\ filters.owner # NoFilter => filters.owner = db.plans[p].owner
             /\ month \in db.plans[p].start..
                  (IF db.plans[p].end = NoEnd THEN month ELSE db.plans[p].end)}
           entries(p) == {db.overrides[v].amount : v \in Candidates(db, p, month)}
           amounts(p) == IF entries(p) = {} THEN {db.plans[p].amount} ELSE entries(p)
           counted == {p \in PlanIds : /\ read.plans[p] # NoRow
                                       /\ ActiveIn(read.plans[p], filters.month)
                                       /\ filters.owner \in {NoFilter, read.plans[p].owner}}
           f == [p \in counted |-> IncomeEntry(read, p, month, first)]
<1>1. month \in Nat
  BY FiltersAssumption DEF Filter
<1>2. counted = counting
  <2>1. ASSUME NEW p \in PlanIds
        PROVE  p \in counted <=> p \in counting
    <3>1. CASE read.plans[p] = NoRow
      BY <3>1
    <3>2. CASE read.plans[p] # NoRow
      <4>1. read.plans[p] \in Plan
        BY <3>2
      <4>2. ActiveIn(read.plans[p], month) <=>
              /\ read.plans[p].active
              /\ month \in read.plans[p].start..
                   (IF read.plans[p].end = NoEnd THEN month ELSE read.plans[p].end)
        BY <1>1, <4>1, NoEndAssumption DEF ActiveIn, Plan
      <4> QED
        BY <3>2, <4>2
    <3> QED
      BY <3>1, <3>2
  <2> QED
    BY <2>1
<1>3. ASSUME NEW p \in counting
      PROVE  f[p] \in amounts(p)
  <2>1. p \in PlanIds /\ f[p] = IncomeEntry(read, p, month, first)
    BY <1>2
  <2>2. Candidates(db, p, month) = Candidates(read, p, month)
    BY DEF Candidates
  <2>3. CASE Candidates(read, p, month) = {}
    BY <2>1, <2>2, <2>3 DEF IncomeEntry
  <2>4. CASE Candidates(read, p, month) # {}
    <3>1. first[p] \in Candidates(read, p, month)
      BY <2>1, <2>4 DEF Firsts
    <3>2. read.overrides[first[p]].amount \in entries(p)
      BY <2>2, <3>1
    <3>3. f[p] = read.overrides[first[p]].amount
      BY <2>1, <2>4 DEF IncomeEntry
    <3> HIDE DEF entries, f
    <3> QED
      BY <3>2, <3>3
  <2> QED
    BY <2>3, <2>4
<1>4. f \in {g \in [counting -> UNION {amounts(p) : p \in counting}] :
               \A p \in counting : g[p] \in amounts(p)}
  <2>1. f = [p \in counting |-> f[p]]
    BY <1>2
  <2> HIDE DEF f, counting, amounts
  <2>2. f \in [counting -> UNION {amounts(p) : p \in counting}]
    BY <1>3, <2>1
  <2> QED
    BY <1>3, <2>2
<1>5. MonthlyIncome(read, filters, first) = SumFunction(f)
  BY DEF MonthlyIncome
<1>6. IncomesAt(db, filters, month)
        = {SumFunction(g) : g \in {g \in [counting -> UNION {amounts(p) : p \in counting}] :
                                     \A p \in counting : g[p] \in amounts(p)}}
  BY DEF IncomesAt
<1> HIDE DEF f, counting, amounts, counted
<1>7. MonthlyIncome(read, filters, first) \in IncomesAt(db, filters, month)
  BY <1>4, <1>5, <1>6
<1> QED
  BY <1>7 DEF month

-----------------------------------------------------------------------------
(* A page and a moment.                                                    *)

\* With at most one write beside it, what a page has read is all of one database.
LEMMA OneMoment ==
  ASSUME NEW page, SeesMoment(page), page.writes \in Nat, page.writes < 2,
         NEW needed \in SUBSET Tables, \A t \in needed : page.read[t] # Unread
  PROVE  \E db \in {page.began, Database} : \A t \in needed : page.read[t] = db[t]
<1>1. CASE page.writes = 0
  BY <1>1 DEF SeesMoment, AsBegan
<1>2. CASE page.writes = 1
  <2>1. PICK w \in Tables :
          /\ page.read[w] \in {Unread, page.began[w], Database[w]}
          /\ \A t \in Tables \ {w} : page.began[t] = Database[t] /\ AsBegan(page, t)
    BY <1>2 DEF SeesMoment
  <2>2. \A t \in needed \ {w} : page.read[t] = page.began[t] /\ page.read[t] = Database[t]
    BY <2>1 DEF AsBegan
  <2>3. w \in needed => page.read[w] \in {page.began[w], Database[w]}
    BY <2>1
  <2> QED
    BY <2>2, <2>3
<1> QED
  BY <1>1, <1>2

LEMMA PageShowsMoment ==
  ASSUME IInv, NEW p \in Pages, PageAnswer(p), pages[p].writes < 2, Answer(p) # Failed
  PROVE  LET filters == pages[p].filters IN
         \E db \in {pages[p].began, Database} :
           /\ Answer(p).income \in IncomesAt(db, filters, filters.month)
           /\ pages[p].kind = "dashboard" =>
                /\ Answer(p).expense = ExpenseAt(db, filters, filters.month, {TRUE}, BOOLEAN)
                /\ Answer(p).balance = Answer(p).income - Answer(p).expense
<1> DEFINE page == pages[p]
           read == page.read
           filters == page.filters
<1>1. /\ SeesMoment(page) /\ page.writes \in Nat /\ page.writes < 2
      /\ page.kind \in {"dashboard", "income"} /\ filters \in Filters
      /\ read.plans \in [PlanIds -> Plan \cup {NoRow}]
      /\ \A t \in Needed[page.kind] : read[t] # Unread
      /\ page.kind = "dashboard" => read.transactions \in [TxIds -> TxForms \cup {NoRow}]
  BY Answering DEF PageOK
<1>2. PICK first \in Firsts(read, filters.month) :
        Answer(p) = IF page.kind = "dashboard"
                    THEN Calculate(read, filters, page.today, first)
                    ELSE CalculateIncome(read, filters, first)
  BY Answering
<1>3. Needed[page.kind] \in SUBSET Tables /\ "plans" \in Needed[page.kind]
      /\ "overrides" \in Needed[page.kind]
      /\ (page.kind = "dashboard" => /\ "accounts" \in Needed[page.kind]
                                    /\ "transactions" \in Needed[page.kind])
  BY <1>1 DEF Needed, Tables
<1>4. PICK db \in {page.began, Database} : \A t \in Needed[page.kind] : read[t] = db[t]
  <2> HIDE DEF page
  <2> QED
    BY <1>1, <1>3, OneMoment
<1>5. Answer(p).income = MonthlyIncome(read, filters, first)
  <2>1. CASE page.kind = "dashboard"
    BY <1>2, <2>1, Shows
  <2>2. CASE page.kind = "income"
    BY <1>2, <2>2 DEF CalculateIncome
  <2> QED
    BY <1>1, <2>1, <2>2
<1>6. page.kind = "dashboard" =>
        /\ Answer(p).expense = Magnitude(read, Spent(read, filters, {filters.month}))
        /\ Answer(p).balance = Answer(p).income - Answer(p).expense
  BY <1>2, Shows
<1>7. filters.month \in Nat
  BY <1>1, FiltersAssumption DEF Filter
<1> HIDE DEF page, read, filters
<1>8. MonthlyIncome(read, filters, first) \in IncomesAt(db, filters, filters.month)
  BY <1>1, <1>2, <1>3, <1>4, IncomeShown
<1>9. page.kind = "dashboard" =>
        Magnitude(read, Spent(read, filters, {filters.month}))
          = ExpenseAt(db, filters, filters.month, {TRUE}, BOOLEAN)
  BY <1>1, <1>3, <1>4, <1>7, ExpenseShown
<1>10. /\ Answer(p).income \in IncomesAt(db, filters, filters.month)
       /\ page.kind = "dashboard" =>
            /\ Answer(p).expense = ExpenseAt(db, filters, filters.month, {TRUE}, BOOLEAN)
            /\ Answer(p).balance = Answer(p).income - Answer(p).expense
  BY <1>5, <1>6, <1>8, <1>9
<1> QED
  BY <1>4, <1>10 DEF page, read, filters

LEMMA ListsRows ==
  ASSUME IInv, NEW filters \in ListFilter, filters.month = NoFilter \/ MonthAfterFound(filters.month)
  PROVE  Listed(filters) = ListedAt(Database, filters)
<1> DEFINE asked(value, all) == IF value = NoFilter THEN all ELSE {value}
           owned == {a \in Accounts : accounts[a] \in asked(filters.owner, Owners)}
           A == owned \cap asked(filters.account, Accounts)
           C == asked(filters.category, Categories)
           M == asked(filters.month, Nat)
           B == asked(filters.booked, BOOLEAN)
           F == asked(filters.fixed, BOOLEAN)
           T == asked(filters.transfer, BOOLEAN)
           wanted == [account : A, category : C, month : M,
                      cents : {form.cents : form \in TxForms},
                      booked : B, fixed : F, transfer : T]
<1>1. /\ A \subseteq Accounts /\ C \subseteq Categories /\ M \subseteq Nat
      /\ B \subseteq BOOLEAN /\ F \subseteq BOOLEAN /\ T \subseteq BOOLEAN
  BY DEF ListFilter
<1>2. wanted \subseteq Tx
  <2> SUFFICES ASSUME NEW row \in wanted PROVE row \in Tx
    OBVIOUS
  <2>1. \A form \in TxForms : form.cents \in Int
    BY RowTyped
  <2> HIDE DEF A, C, M, B, F, T
  <2> QED
    BY <1>1, <2>1 DEF Tx
<1>3. transactions \in [TxIds -> TxForms \cup {NoRow}] /\ TablesOK(Database)
  BY DEF IInv, TypeOK
<1>4. ASSUME NEW t \in TxIds
      PROVE  t \in Listed(filters) <=> transactions[t] \in wanted
  <2> DEFINE row == transactions[t]
  <2>1. CASE row = NoRow
    <3>1. row \notin wanted
      BY <1>2, <2>1, NoRowAssumption
    <3> QED
      BY <2>1, <3>1 DEF Listed
  <2>2. CASE row # NoRow
    <3>1. row \in TxForms /\ row \in Tx
      BY <1>3, <2>2, TxFormsAssumption
    <3>2. accounts[row.account] \in Owners
      BY <1>3, <2>2, <3>1, DatabaseTables, RowTyped DEF TablesOK
    <3>3. row.month \in Nat /\ row.account \in Accounts /\ row.category \in Categories
          /\ row.booked \in BOOLEAN /\ row.fixed \in BOOLEAN /\ row.transfer \in BOOLEAN
      BY <3>1, RowTyped
    <3>4. (filters.month # NoFilter =>
             filters.month <= row.month /\ row.month < NextMonth(filters.month))
            <=> row.month \in M
      <4>1. CASE filters.month = NoFilter
        BY <3>3, <4>1
      <4>2. CASE filters.month # NoFilter
        <5>1. filters.month \in Nat /\ MonthAfterFound(filters.month)
          BY <4>2 DEF ListFilter
        <5>2. NextMonth(filters.month) = filters.month + 1
          BY <5>1 DEF NextMonth, UtcMonth, YearOf, MonthAfterFound
        <5> QED
          BY <3>3, <4>2, <5>1, <5>2
      <4> QED
        BY <4>1, <4>2
    <3>5. row.account \in A <=> /\ filters.owner \in {NoFilter, accounts[row.account]}
                                /\ filters.account \in {NoFilter, row.account}
      BY <3>2, <3>3
    <3>6. filters.category \in {NoFilter, row.category} <=> row.category \in C
      BY <3>3
    <3>7. /\ filters.booked \in {NoFilter, row.booked} <=> row.booked \in B
          /\ filters.fixed \in {NoFilter, row.fixed} <=> row.fixed \in F
          /\ filters.transfer \in {NoFilter, row.transfer} <=> row.transfer \in T
      BY <3>3
    <3>8. t \in Listed(filters) <=>
            /\ filters.month # NoFilter =>
                 filters.month <= row.month /\ row.month < NextMonth(filters.month)
            /\ filters.owner \in {NoFilter, accounts[row.account]}
            /\ filters.account \in {NoFilter, row.account}
            /\ filters.category \in {NoFilter, row.category}
            /\ filters.booked \in {NoFilter, row.booked}
            /\ filters.fixed \in {NoFilter, row.fixed}
            /\ filters.transfer \in {NoFilter, row.transfer}
      BY <2>2 DEF Listed
    <3>9. row.cents \in {form.cents : form \in TxForms}
      BY <3>1
    <3>10. row \in wanted <=> /\ row.month \in M /\ row.account \in A /\ row.category \in C
                              /\ row.booked \in B /\ row.fixed \in F /\ row.transfer \in T
      <4> HIDE DEF row, A, C, M, B, F, T
      <4>1. row = [account |-> row.account, category |-> row.category, month |-> row.month,
                   cents |-> row.cents, booked |-> row.booked, fixed |-> row.fixed,
                   transfer |-> row.transfer]
        BY <3>1 DEF Tx
      <4> QED
        BY <3>9, <4>1
    <3> HIDE DEF row, A, C, M, B, F, T, wanted
    <3>11. t \in Listed(filters) <=> row \in wanted
      BY <3>4, <3>5, <3>6, <3>7, <3>8, <3>10
    <3> QED
      BY <3>11 DEF row
  <2> QED
    BY <2>1, <2>2
<1>5. ListedAt(Database, filters) = {t \in TxIds : transactions[t] \in wanted}
  BY DatabaseTables DEF ListedAt
<1>6. Listed(filters) \subseteq TxIds
  BY DEF Listed
<1> HIDE DEF wanted
<1> QED
  BY <1>4, <1>5, <1>6

\* A row whose category is shown by its id has one that was inactive before or after.
LEMMA UnnamedInactive ==
  ASSUME IInv, NEW p \in Pages, ListAnswer(p), pages[p].writes < 2,
         NEW t \in TxIds, transactions[t] # NoRow, ~Named(t, pages[p].read)
  PROVE  LET c == transactions[t].category IN
         "inactive" \in {pages[p].began.categories[c], categories[c]}
<1> DEFINE page == pages[p]
           read == page.read
           began == page.began
           c == transactions[t].category
<1>1. /\ read["categories"] # Unread /\ read["categories"][c] # "active"
      /\ Reading(p)
  BY DEF ListAnswer, Named
<1>2. /\ SeesMoment(page) /\ page.writes \in Nat /\ page.writes < 2
      /\ transactions \in [TxIds -> TxForms \cup {NoRow}] /\ TablesOK(Database)
  BY <1>1 DEF IInv, TypeOK, MomentInv, PageOK
<1>3. TablesOK(began)
  BY <1>2 DEF SeesMoment
<1>4. /\ c \in Categories /\ categories[c] \in {"active", "inactive"}
  <2>1. c \in Categories
    BY <1>2, RowTyped
  <2>2. categories[c] \in CategoryState /\ categories[c] # NoRow
    BY <1>2, <2>1, DatabaseTables DEF TablesOK
  <2> QED
    BY <2>1, <2>2 DEF CategoryState
<1> HIDE DEF page, read, began
<1>5. CASE read["categories"] = categories
  BY <1>1, <1>4, <1>5 DEF began
<1>6. CASE read["categories"] = began["categories"] /\ began["categories"] # categories
  <2>1. page.writes = 1
    BY <1>2, <1>6, DatabaseTables DEF SeesMoment, began, Tables
  <2>2. PICK w \in Tables : \A u \in Tables \ {w} : page.began[u] = Database[u]
    BY <1>2, <2>1 DEF SeesMoment
  <2>3. w = "categories"
    BY <1>6, <2>2, DatabaseTables DEF began, Tables
  <2>4. began["transactions"] = transactions
    BY <2>2, <2>3, DatabaseTables DEF began, Tables
  <2>5. began.transactions[t] # NoRow /\ began.transactions[t].category = c
    BY <2>4
  <2>6. began.categories[c] \in CategoryState /\ began.categories[c] # NoRow
    BY <1>3, <1>4, <2>5 DEF TablesOK
  <2> QED
    BY <1>1, <1>6, <2>6 DEF CategoryState, began, page
<1>7. read["categories"] \in {categories, began["categories"]}
  <2>1. CASE page.writes = 0
    BY <1>1, <1>2, <2>1, DatabaseTables DEF SeesMoment, AsBegan, Tables, read, began
  <2>2. CASE page.writes = 1
    <3>1. PICK w \in Tables :
            /\ page.read[w] \in {Unread, page.began[w], Database[w]}
            /\ \A u \in Tables \ {w} : page.began[u] = Database[u] /\ AsBegan(page, u)
      BY <1>2, <2>2 DEF SeesMoment
    <3>2. "categories" \in Tables
      BY DEF Tables
    <3> QED
      BY <1>1, <3>1, <3>2, DatabaseTables DEF AsBegan, read, began
  <2> QED
    BY <1>2, <2>1, <2>2
<1> QED
  BY <1>5, <1>6, <1>7 DEF began

LEMMA PageMoment ==
  ASSUME IInv, NEW p \in Pages
  PROVE  LET filters == pages[p].filters IN
         /\ Answered(p, "income") /\ pages[p].writes < 2 =>
              \E db \in {pages[p].began, Database} :
                Answer(p).income \in IncomesAt(db, filters, filters.month)
         /\ Answered(p, "dashboard") /\ pages[p].writes < 2 =>
              \E db \in {pages[p].began, Database} :
                /\ Answer(p).income \in IncomesAt(db, filters, filters.month)
                /\ Answer(p).expense =
                     ExpenseAt(db, filters, filters.month, {TRUE}, BOOLEAN)
                /\ Answer(p).balance = Answer(p).income - Answer(p).expense
         /\ ListAnswer(p) =>
              /\ filters.month = NoFilter \/ MonthAfterFound(filters.month) =>
                   Answer(p).rows = ListedAt(Database, filters)
              /\ \A t \in Answer(p).rows \ Answer(p).named :
                   LET c == transactions[t].category IN
                   \/ pages[p].writes > 1
                   \/ "inactive" \in {pages[p].began.categories[c], categories[c]}
<1> DEFINE filters == pages[p].filters
<1>1. ASSUME Answered(p, "income"), pages[p].writes < 2
      PROVE  \E db \in {pages[p].began, Database} :
               Answer(p).income \in IncomesAt(db, filters, filters.month)
  BY <1>1, PageShowsMoment DEF Answered
<1>2. ASSUME Answered(p, "dashboard"), pages[p].writes < 2
      PROVE  \E db \in {pages[p].began, Database} :
               /\ Answer(p).income \in IncomesAt(db, filters, filters.month)
               /\ Answer(p).expense = ExpenseAt(db, filters, filters.month, {TRUE}, BOOLEAN)
               /\ Answer(p).balance = Answer(p).income - Answer(p).expense
  BY <1>2, PageShowsMoment DEF Answered
<1>3. ASSUME ListAnswer(p)
      PROVE  /\ filters.month = NoFilter \/ MonthAfterFound(filters.month) =>
                  Answer(p).rows = ListedAt(Database, filters)
             /\ \A t \in Answer(p).rows \ Answer(p).named :
                  LET c == transactions[t].category IN
                  \/ pages[p].writes > 1
                  \/ "inactive" \in {pages[p].began.categories[c], categories[c]}
  <2>1. DOMAIN pages = Pages /\ PageOK(pages[p]) /\ pages[p].kind = "ledger"
    BY <1>3 DEF ListAnswer, IInv, TypeOK
  <2>2. filters \in ListFilter /\ pages[p].writes \in Nat
    BY <2>1 DEF PageOK
  <2>3. pages' = [pages EXCEPT ![p] = [answer |->
          [rows |-> Listed(filters),
           named |-> {t \in Listed(filters) : Named(t, pages[p].read)}]]]
    BY <1>3 DEF ListAnswer
  <2>4. /\ Answer(p).rows = Listed(filters)
        /\ Answer(p).named = {t \in Listed(filters) : Named(t, pages[p].read)}
    BY <2>1, <2>3 DEF Answer
  <2>5. filters.month = NoFilter \/ MonthAfterFound(filters.month) =>
          Answer(p).rows = ListedAt(Database, filters)
    BY <2>2, <2>4, ListsRows
  <2>6. ASSUME NEW t \in Answer(p).rows \ Answer(p).named
        PROVE  LET c == transactions[t].category IN
               \/ pages[p].writes > 1
               \/ "inactive" \in {pages[p].began.categories[c], categories[c]}
    <3>1. t \in TxIds /\ transactions[t] # NoRow /\ ~Named(t, pages[p].read)
      BY <2>4, <2>6 DEF Listed
    <3>2. pages[p].writes > 1 \/ pages[p].writes < 2
      BY <2>2
    <3> QED
      BY <1>3, <3>1, <3>2, UnnamedInactive
  <2> QED
    BY <2>5, <2>6
<1> QED
  BY <1>1, <1>2, <1>3

\* With at most one write beside it a page shows one moment, and the list the rows of its
\* end: the one that its statements read between, whichever order they came in
\* (handleDashboard, handleListTransactions).
THEOREM ShowsAMoment == Spec => PageIsSomeMoment
<1>1. IInv =>
        \A p \in Pages : pages[p] # Idle =>
          LET filters == pages[p].filters IN
          /\ Answered(p, "income") /\ pages[p].writes < 2 =>
               \E db \in {pages[p].began, Database} :
                 Answer(p).income \in IncomesAt(db, filters, filters.month)
          /\ Answered(p, "dashboard") /\ pages[p].writes < 2 =>
               \E db \in {pages[p].began, Database} :
                 /\ Answer(p).income \in IncomesAt(db, filters, filters.month)
                 /\ Answer(p).expense =
                      ExpenseAt(db, filters, filters.month, {TRUE}, BOOLEAN)
                 /\ Answer(p).balance = Answer(p).income - Answer(p).expense
          /\ ListAnswer(p) =>
               /\ filters.month = NoFilter \/ MonthAfterFound(filters.month) =>
                    Answer(p).rows = ListedAt(Database, filters)
               /\ \A t \in Answer(p).rows \ Answer(p).named :
                    LET c == transactions[t].category IN
                    \/ pages[p].writes > 1
                    \/ "inactive" \in {pages[p].began.categories[c], categories[c]}
  BY PageMoment, Zenon
<1> QED
  BY <1>1, Invariance, PTL DEF PageIsSomeMoment

-----------------------------------------------------------------------------
(* Exact figures.                                                          *)

LEMMA DayNumbers ==
  ASSUME NEW month \in Nat
  PROVE  DaysInMonth(month) \in 1..31
BY DEF DaysInMonth

\* Only a number above MaxSafe is an error.
LEMMA CheckedFacts ==
  ASSUME NEW n \in Nat
  PROVE  /\ Checked(n) = Unsafe <=> n > MaxSafe
         /\ Checked(n) # Unsafe => Checked(n) = n
BY MaxSafeAssumption DEF Checked, Unsafe

LEMMA ProductRounded ==
  ASSUME NEW n \in Nat, NEW m \in 1..31, NEW d \in 1..31
  PROVE  /\ Rounded(n * m, d) \in Nat
         /\ MultiplyAndRoundHalfUp(n, m, d) = Checked(Rounded(n * m, d))
<1>1. n * m \in Nat /\ d \in Nat \ {0}
  OBVIOUS
<1>2. Rounded(n * m, d) \in Nat
  <2> DEFINE k == n * m
  <2>1. k \in Nat /\ d \in Nat \ {0}
    BY <1>1
  <2> HIDE DEF k
  <2>2. Rounded(k, d) \in Nat
    BY <2>1, RoundHalfUpExact
  <2> QED
    BY <2>2 DEF k
<1> QED
  BY <1>2, RoundsOnce

LEMMA CountedRows ==
  ASSUME NEW read, read.transactions \in [TxIds -> TxForms \cup {NoRow}],
         NEW filters \in Filters, NEW month \in Nat,
         NEW booked \in BOOLEAN, NEW fixed \in BOOLEAN
  PROVE  /\ ExpenseAt(read, filters, month, {booked}, {fixed}) \in Nat
         /\ Magnitude(read, {t \in {u \in Filtered(read, filters) :
                                      /\ ~read.transactions[u].transfer
                                      /\ read.transactions[u].month = month} :
                               /\ read.transactions[t].booked = booked
                               /\ read.transactions[t].fixed = fixed})
              = ExpenseAt(read, filters, month, {booked}, {fixed})
<1> DEFINE T == Counted(read, filters, month, {booked}, {fixed})
           S == {t \in {u \in Filtered(read, filters) :
                          /\ ~read.transactions[u].transfer
                          /\ read.transactions[u].month = month} :
                   /\ read.transactions[t].booked = booked
                   /\ read.transactions[t].fixed = fixed}
<1>1. ExpenseAt(read, filters, month, {booked}, {fixed}) = Magnitude(read, T)
  <2>1. {booked} \in SUBSET BOOLEAN /\ {fixed} \in SUBSET BOOLEAN
    OBVIOUS
  <2> QED
    BY <2>1, ExpenseRows, Zenon
<1>2. S = T
  BY DEF Counted
<1>3. T \in SUBSET Rows(read)
  BY DEF Counted, Filtered, Rows
<1> HIDE DEF T, S
<1>4. Magnitude(read, T) \in Nat
  BY <1>3, Magnitudes
<1>5. Magnitude(read, S) = ExpenseAt(read, filters, month, {booked}, {fixed})
  BY <1>1, <1>2
<1> QED
  BY <1>1, <1>4, <1>5 DEF S

LEMMA ForecastExact ==
  ASSUME NEW page, page.read.transactions \in [TxIds -> TxForms \cup {NoRow}],
         page.filters \in Filters, page.today \in Today,
         page.filters.month = page.today.month
  PROVE  /\ ForecastOf(page) \in Nat
         /\ MonthlyForecast(page.read, page.filters, page.today) = Checked(ForecastOf(page))
<1> DEFINE read == page.read
           filters == page.filters
           month == filters.month
           day == page.today.day
           component(booked, fixed) ==
             Magnitude(read, {t \in {u \in Filtered(read, filters) :
                                       /\ ~read.transactions[u].transfer
                                       /\ read.transactions[u].month = month} :
                                /\ read.transactions[t].booked = booked
                                /\ read.transactions[t].fixed = fixed})
           spent(booked, fixed) == ExpenseAt(read, filters, month, {booked}, {fixed})
           extrapolated == MultiplyAndRoundHalfUp(component(TRUE, FALSE), DaysInMonth(month), day)
           exact == Rounded(spent(TRUE, FALSE) * DaysInMonth(month), day)
<1>1. month \in Nat /\ DaysInMonth(month) \in 1..31 /\ day \in 1..31
  <2>1. month \in Nat /\ day \in 1..DaysInMonth(month)
    BY FiltersAssumption, TodayAssumption DEF Filter
  <2>2. DaysInMonth(month) \in 1..31
    BY <2>1, DayNumbers
  <2> QED
    BY <2>1, <2>2
<1>2. \A booked, fixed \in BOOLEAN :
        spent(booked, fixed) \in Nat /\ component(booked, fixed) = spent(booked, fixed)
  <2> HIDE DEF read, filters, month
  <2> QED
    BY <1>1, CountedRows DEF read, filters
<1>3. ForecastOf(page) = spent(TRUE, TRUE) + spent(FALSE, TRUE) + exact
  BY DEF ForecastOf
<1>4. MonthlyForecast(read, filters, page.today)
        = IF extrapolated = Unsafe THEN Unsafe
          ELSE Checked(component(TRUE, TRUE) + component(FALSE, TRUE) + extrapolated)
  BY DEF MonthlyForecast
<1>5. /\ exact \in Nat
      /\ extrapolated = Checked(exact)
  <2> DEFINE n == spent(TRUE, FALSE)
             days == DaysInMonth(month)
  <2>1. n \in Nat /\ days \in 1..31 /\ day \in 1..31 /\ component(TRUE, FALSE) = n
    BY <1>1, <1>2
  <2> HIDE DEF n, days, day, component
  <2>2. Rounded(n * days, day) \in Nat
        /\ MultiplyAndRoundHalfUp(n, days, day) = Checked(Rounded(n * days, day))
    BY <2>1, ProductRounded
  <2>3. extrapolated = MultiplyAndRoundHalfUp(n, days, day)
    BY <2>1 DEF days
  <2> QED
    BY <2>2, <2>3 DEF n, days
<1>6. spent(TRUE, TRUE) \in Nat /\ spent(FALSE, TRUE) \in Nat
  BY <1>2
<1> DEFINE a == spent(TRUE, TRUE)
           b == spent(FALSE, TRUE)
<1> HIDE DEF extrapolated, exact, a, b
<1>7. ForecastOf(page) \in Nat /\ ForecastOf(page) = a + b + exact /\ a \in Nat /\ b \in Nat
  <2>1. ForecastOf(page) = a + b + exact
    BY <1>3 DEF a, b
  <2>2. a \in Nat /\ b \in Nat
    BY <1>6 DEF a, b
  <2> QED
    BY <1>5, <2>1, <2>2
<1>8. MonthlyForecast(read, filters, page.today) = Checked(ForecastOf(page))
  <2>2. component(TRUE, TRUE) = a /\ component(FALSE, TRUE) = b
    BY <1>2 DEF a, b
  <2> HIDE DEF spent, component, day
  <2>3. CASE extrapolated = Unsafe
    <3>1. exact > MaxSafe
      BY <1>5, <2>3, CheckedFacts
    <3>2. ForecastOf(page) > MaxSafe
      BY <1>5, <1>7, <3>1, MaxSafeAssumption
    <3> QED
      BY <1>4, <1>7, <2>3, <3>2, CheckedFacts
  <2>4. CASE extrapolated # Unsafe
    <3>1. extrapolated = exact
      BY <1>5, <2>4, CheckedFacts
    <3> QED
      BY <1>4, <1>7, <2>2, <2>4, <3>1
  <2> QED
    BY <2>3, <2>4
<1> QED
  BY <1>7, <1>8 DEF read, filters

\* The months of a window are those before the month, from the year 1001 on.
LEMMA WindowMonths ==
  ASSUME NEW month \in Nat, YearOf(month) > 1000, NEW w \in 1..12
  PROVE  /\ PrecedingMonths(month, w) = {m \in Nat : month - m \in 1..w}
         /\ \A i \in 1..w : month - i \in Nat
<1>1. UtcMonth(month) = month /\ month >= 12012
  BY DEF UtcMonth, YearOf
<1>2. ASSUME NEW m \in (month - w)..(month - 1)
      PROVE  YearOf(m) >= 1000 /\ m \in Nat
  <2>1. m \in Nat /\ m >= 12000
    BY <1>1
  <2> QED
    BY <2>1 DEF YearOf
<1>3. PrecedingMonths(month, w) = (month - w)..(month - 1)
  BY <1>1, <1>2 DEF PrecedingMonths
<1>4. ASSUME NEW m PROVE m \in (month - w)..(month - 1) <=> m \in Nat /\ month - m \in 1..w
  <2>1. m \in (month - w)..(month - 1) => m \in Nat /\ month - m \in 1..w
    BY <1>2
  <2>2. m \in Nat /\ month - m \in 1..w => m \in (month - w)..(month - 1)
    OBVIOUS
  <2> QED
    BY <2>1, <2>2
<1>5. \A i \in 1..w : month - i \in Nat
  BY <1>1
<1> QED
  BY <1>3, <1>4, <1>5

LEMMA WindowExact ==
  ASSUME NEW page, page.read.transactions \in [TxIds -> TxForms \cup {NoRow}],
         page.filters \in Filters, YearOf(page.filters.month) > 1000, NEW w \in 1..12
  PROVE  /\ WindowOf(page, w) \in Nat
         /\ Magnitude(page.read, Spent(page.read, page.filters,
                                       PrecedingMonths(page.filters.month, w)))
              = WindowOf(page, w)
<1> DEFINE read == page.read
           filters == page.filters
           month == filters.month
           months == PrecedingMonths(month, w)
           spent == Spent(read, filters, months)
           class == [t \in spent |-> month - read.transactions[t].month]
           part(i) == {t \in spent : class[t] = i}
<1>1. month \in Nat
  BY FiltersAssumption DEF Filter
<1>2. /\ months = {m \in Nat : month - m \in 1..w}
      /\ \A i \in 1..w : month - i \in Nat
  BY <1>1, WindowMonths
<1>3. read.transactions \in [TxIds -> TxForms \cup {NoRow}] /\ filters \in Filters
      /\ spent \in SUBSET Rows(read)
  BY SpentRows
<1>4. \A t \in spent : class[t] \in 1..w
  BY <1>2 DEF Spent
<1>5. ASSUME NEW i \in 1..w
      PROVE  Magnitude(read, part(i)) = ExpenseAt(read, filters, month - i, {TRUE}, BOOLEAN)
  <2>1. ASSUME NEW t \in Filtered(read, filters)
        PROVE  read.transactions[t].month \in Nat
    <3>1. read.transactions[t] \in TxForms
      BY <1>3 DEF Filtered
    <3> QED
      BY <3>1, RowTyped
  <2>2. ASSUME NEW t \in Filtered(read, filters)
        PROVE  (read.transactions[t].month \in months /\ month - read.transactions[t].month = i)
                 <=> read.transactions[t].month = month - i
    <3> DEFINE m == read.transactions[t].month
    <3>1. m \in Nat
      BY <2>1
    <3> HIDE DEF m
    <3>2. m \in months <=> month - m \in 1..w
      BY <1>2, <3>1
    <3>3. month - m = i <=> m = month - i
      BY <1>1, <3>1
    <3>4. (m \in months /\ month - m = i) <=> m = month - i
      BY <3>2, <3>3
    <3> QED
      BY <3>4 DEF m
  <2>3. part(i) = Spent(read, filters, {month - i})
    <3> HIDE DEF months, month
    <3> QED
      BY <2>2 DEF Spent
  <2> HIDE DEF read, filters, month, part
  <2>4. month - i \in Nat
    BY <1>2
  <2>5. \A n \in Nat : Magnitude(read, Spent(read, filters, {n}))
                         = ExpenseAt(read, filters, n, {TRUE}, BOOLEAN)
    BY <1>3, ExpenseShown
  <2> QED
    BY <2>3, <2>4, <2>5
<1> DEFINE f == [i \in 1..w |-> Magnitude(read, part(i))]
<1>6. SumFunction(f) = Magnitude(read, spent)
  <2> HIDE DEF spent, class, read
  <2>1. IsFiniteSet(1..w)
    BY FS_Interval
  <2> QED
    BY <1>3, <1>4, <2>1, MagnitudesSplit, SMTT(40)
<1>7. WindowOf(page, w)
        = SumFunction([i \in 1..w |-> ExpenseAt(read, filters, month - i, {TRUE}, BOOLEAN)])
  BY DEF WindowOf
<1> HIDE DEF part, read, filters, month, spent
<1>8. f = [i \in 1..w |-> ExpenseAt(read, filters, month - i, {TRUE}, BOOLEAN)]
  BY <1>5
<1> HIDE DEF f
<1>9. WindowOf(page, w) = Magnitude(read, spent)
  BY <1>6, <1>7, <1>8
<1>10. Magnitude(read, spent) \in Nat
  BY <1>3, Magnitudes
<1> QED
  BY <1>9, <1>10 DEF read, filters, month, spent

\* A longer window has no smaller sum.
LEMMA WindowGrows ==
  ASSUME NEW page, page.read.transactions \in [TxIds -> TxForms \cup {NoRow}],
         page.filters \in Filters, YearOf(page.filters.month) > 1000, NEW w \in 1..12
  PROVE  WindowOf(page, w) <= WindowOf(page, 12)
<1> DEFINE read == page.read
           filters == page.filters
           month == filters.month
           short == Spent(read, filters, PrecedingMonths(month, w))
           long == Spent(read, filters, PrecedingMonths(month, 12))
<1>1. month \in Nat
  BY FiltersAssumption DEF Filter
<1>2. PrecedingMonths(month, w) \subseteq PrecedingMonths(month, 12)
  <2>1. PrecedingMonths(month, w) = {m \in Nat : month - m \in 1..w}
    BY <1>1, WindowMonths
  <2>2. PrecedingMonths(month, 12) = {m \in Nat : month - m \in 1..12}
    BY <1>1, WindowMonths
  <2> HIDE DEF month
  <2> QED
    BY <2>1, <2>2
<1>3. short \in SUBSET long
  BY <1>2 DEF Spent
<1>4. short \in SUBSET Rows(read) /\ long \in SUBSET Rows(read)
  BY SpentRows
<1>5. WindowOf(page, w) = Magnitude(read, short) /\ WindowOf(page, 12) = Magnitude(read, long)
  BY WindowExact
<1> DEFINE c == Cost(read)
<1> HIDE DEF short, long
<1>6. /\ IsFiniteSet(long) /\ \A t \in long : c[t] \in Nat
      /\ Magnitude(read, long) = SumFunctionOnSet(c, long)
      /\ Magnitude(read, short) = SumFunctionOnSet(c, short)
  BY <1>4, Magnitudes, Zenon
<1> HIDE DEF c, read
<1>7. SumFunctionOnSet(c, short) <= SumFunctionOnSet(c, long)
  BY <1>3, <1>6, SumNat
<1> QED
  BY <1>5, <1>6, <1>7

LEMMA AverageExact ==
  ASSUME NEW page, page.read.transactions \in [TxIds -> TxForms \cup {NoRow}],
         page.filters \in Filters, YearOf(page.filters.month) > 1000, NEW w \in 1..12
  PROVE  LET average == HistoricalAverage(page.read, page.filters, w) IN
         /\ average = Unsafe <=> WindowOf(page, w) > MaxSafe
         /\ average # Unsafe => average = Rounded(WindowOf(page, w), w)
<1> DEFINE total == Magnitude(page.read, Spent(page.read, page.filters,
                                               PrecedingMonths(page.filters.month, w)))
           average == HistoricalAverage(page.read, page.filters, w)
<1>1. total \in Nat /\ total = WindowOf(page, w)
  BY WindowExact
<1>2. average = IF Checked(total) = Unsafe THEN Unsafe ELSE RoundHalfUp(total, w)
  BY DEF HistoricalAverage
<1> HIDE DEF total, average
<1>3. RoundHalfUp(total, w) = Rounded(total, w) /\ RoundHalfUp(total, w) \in Nat
  <2>1. w \in Nat \ {0}
    OBVIOUS
  <2> QED
    BY <1>1, <2>1, RoundHalfUpExact
<1>4. average = Unsafe <=> total > MaxSafe
  BY <1>1, <1>2, <1>3, CheckedFacts DEF Unsafe
<1>5. average # Unsafe => average = Rounded(total, w)
  BY <1>2, <1>3
<1> QED
  BY <1>1, <1>4, <1>5 DEF average

LEMMA IncomeNat ==
  ASSUME NEW read, read.plans \in [PlanIds -> Plan \cup {NoRow}],
         read.overrides \in [OverrideIds -> Override \cup {NoRow}],
         NEW filters, NEW first \in Firsts(read, filters.month)
  PROVE  MonthlyIncome(read, filters, first) \in Nat
<1> DEFINE counting == {p \in PlanIds : /\ read.plans[p] # NoRow
                                        /\ ActiveIn(read.plans[p], filters.month)
                                        /\ filters.owner \in {NoFilter, read.plans[p].owner}}
           f == [p \in counting |-> IncomeEntry(read, p, filters.month, first)]
<1>1. IsFiniteSet(counting)
  BY IdsAssumption, FS_Subset
<1>2. ASSUME NEW p \in counting
      PROVE  IncomeEntry(read, p, filters.month, first) \in Nat
  <2>1. CASE Candidates(read, p, filters.month) = {}
    BY <2>1 DEF IncomeEntry, Plan
  <2>2. CASE Candidates(read, p, filters.month) # {}
    <3>1. first[p] \in Candidates(read, p, filters.month)
      BY <2>2 DEF Firsts
    <3>2. read.overrides[first[p]] \in Override
      BY <3>1 DEF Candidates
    <3> QED
      BY <2>2, <3>2 DEF IncomeEntry, Override
  <2> QED
    BY <2>1, <2>2
<1>3. \A p \in counting : f[p] \in Nat
  BY <1>2
<1>4. MonthlyIncome(read, filters, first) = SumFunctionOnSet(f, counting)
  BY DEF MonthlyIncome, SumFunction, FoldFunction, SumFunctionOnSet
<1> HIDE DEF counting, f
<1>5. counting \in SUBSET counting
  OBVIOUS
<1> QED
  BY <1>1, <1>3, <1>4, <1>5, SumNat

\* A page fails when an amount it computes is an error.
LEMMA FailureCauses ==
  ASSUME NEW read, NEW filters, NEW today, NEW first
  PROVE  Calculate(read, filters, today, first) = Failed <=>
           \/ Checked(Magnitude(read, Spent(read, filters, {filters.month}))) = Unsafe
           \/ Checked(MonthlyIncome(read, filters, first)) = Unsafe
           \/ filters.month = today.month /\ MonthlyForecast(read, filters, today) = Unsafe
           \/ \E w \in {3, 6, 12} : HistoricalAverage(read, filters, w) = Unsafe
<1> DEFINE expense == Magnitude(read, Spent(read, filters, {filters.month}))
           income == MonthlyIncome(read, filters, first)
           forecast == IF filters.month = today.month
                       THEN MonthlyForecast(read, filters, today) ELSE 0
           averages == [w \in {3, 6, 12} |-> HistoricalAverage(read, filters, w)]
           errors == {Checked(expense), Checked(income), forecast}
                       \cup {averages[w] : w \in {3, 6, 12}}
           shown == [income |-> income, expense |-> expense, balance |-> income - expense,
                     byCategory |-> GroupCategories(read, filters),
                     byAccount |-> GroupAccounts(read, filters),
                     averages |-> averages, forecast |-> forecast]
<1>1. Calculate(read, filters, today, first) = IF Unsafe \in errors THEN Failed ELSE shown
  BY DEF Calculate
<1>2. shown # Failed
  <2>1. "income" \in DOMAIN shown /\ "income" \notin DOMAIN Failed
    BY DEF Failed
  <2> QED
    BY <2>1
<1>3. Unsafe \in errors <=>
        \/ Checked(expense) = Unsafe
        \/ Checked(income) = Unsafe
        \/ filters.month = today.month /\ MonthlyForecast(read, filters, today) = Unsafe
        \/ \E w \in {3, 6, 12} : HistoricalAverage(read, filters, w) = Unsafe
  <2>1. forecast = Unsafe <=>
          filters.month = today.month /\ MonthlyForecast(read, filters, today) = Unsafe
    BY DEF Unsafe
  <2>2. \A w \in {3, 6, 12} : averages[w] = HistoricalAverage(read, filters, w)
    OBVIOUS
  <2> HIDE DEF forecast, averages, expense, income
  <2> QED
    BY <2>1, <2>2
<1> HIDE DEF errors, shown
<1>4. Calculate(read, filters, today, first) = Failed <=> Unsafe \in errors
  BY <1>1, <1>2
<1> QED
  BY <1>3, <1>4

LEMMA PageFigures ==
  ASSUME IInv, NEW p \in Pages, PageAnswer(p), pages[p].kind = "dashboard"
  PROVE  /\ Answer(p) # Failed /\ pages[p].filters.month = pages[p].today.month =>
              Answer(p).forecast = ForecastOf(pages[p])
         /\ YearOf(pages[p].filters.month) > 1000 =>
              /\ FailureExact(pages[p], Answer(p))
              /\ Answer(p) # Failed => AveragesExact(pages[p], Answer(p))
<1> DEFINE page == pages[p]
           read == page.read
           filters == page.filters
           today == page.today
           month == filters.month
           expense == ExpenseAt(read, filters, month, {TRUE}, BOOLEAN)
           spent == Magnitude(read, Spent(read, filters, {month}))
           current == month = today.month
<1>1. /\ filters \in Filters /\ today \in Today
      /\ read.plans \in [PlanIds -> Plan \cup {NoRow}]
      /\ read.overrides \in [OverrideIds -> Override \cup {NoRow}]
      /\ read.transactions \in [TxIds -> TxForms \cup {NoRow}]
  BY Answering
<1>2. PICK first \in Firsts(read, month) : Answer(p) = Calculate(read, filters, today, first)
  BY Answering
<1> DEFINE income == MonthlyIncome(read, filters, first)
           average(w) == HistoricalAverage(read, filters, w)
           forecast == MonthlyForecast(read, filters, today)
<1>3. Answer(p) = Failed <=>
        \/ Checked(spent) = Unsafe
        \/ Checked(income) = Unsafe
        \/ current /\ forecast = Unsafe
        \/ \E w \in {3, 6, 12} : average(w) = Unsafe
  BY <1>2, FailureCauses
<1>4. Answer(p) # Failed =>
        /\ Answer(p).income = income
        /\ Answer(p).averages = [w \in {3, 6, 12} |-> average(w)]
        /\ Answer(p).forecast = IF current THEN forecast ELSE 0
  BY <1>2, Shows
<1>5. month \in Nat
  BY <1>1, FiltersAssumption DEF Filter
<1>6. current => ForecastOf(page) \in Nat /\ forecast = Checked(ForecastOf(page))
  <2> HIDE DEF page
  <2> QED
    BY <1>1, ForecastExact
<1>7. ASSUME YearOf(month) > 1000
      PROVE  /\ \A w \in {3, 6, 12} :
                  /\ WindowOf(page, w) \in Nat /\ WindowOf(page, w) <= WindowOf(page, 12)
                  /\ average(w) = Unsafe <=> WindowOf(page, w) > MaxSafe
                  /\ average(w) # Unsafe => average(w) = Rounded(WindowOf(page, w), w)
  <2> HIDE DEF page
  <2> SUFFICES ASSUME NEW w \in {3, 6, 12}
               PROVE  /\ WindowOf(page, w) \in Nat /\ WindowOf(page, w) <= WindowOf(page, 12)
                      /\ average(w) = Unsafe <=> WindowOf(page, w) > MaxSafe
                      /\ average(w) # Unsafe => average(w) = Rounded(WindowOf(page, w), w)
    OBVIOUS
  <2>1. w \in 1..12
    OBVIOUS
  <2>2. WindowOf(page, w) \in Nat
    BY <1>1, <1>7, <2>1, WindowExact
  <2>3. WindowOf(page, w) <= WindowOf(page, 12)
    BY <1>1, <1>7, <2>1, WindowGrows
  <2>4. /\ average(w) = Unsafe <=> WindowOf(page, w) > MaxSafe
        /\ average(w) # Unsafe => average(w) = Rounded(WindowOf(page, w), w)
    BY <1>1, <1>7, <2>1, AverageExact
  <2> QED
    BY <2>2, <2>3, <2>4
<1> HIDE DEF page, read, filters, today, month
<1>8. spent = expense /\ spent \in Nat
  <2>1. Spent(read, filters, {month}) \in SUBSET Rows(read)
    BY SpentRows
  <2>2. spent \in Nat
    BY <1>1, <2>1, Magnitudes
  <2> QED
    BY <1>1, <1>5, <2>2, ExpenseShown
<1>9. income \in Nat /\ income \in IncomesAt(read, filters, month)
  BY <1>1, <1>2, IncomeNat, IncomeShown DEF month
<1> HIDE DEF spent, expense, income, forecast, average, current
<1>10. ASSUME Answer(p) # Failed, current
       PROVE  Answer(p).forecast = ForecastOf(page) /\ ForecastOf(page) <= MaxSafe
  <2>1. forecast # Unsafe
    BY <1>3, <1>10
  <2>2. forecast = ForecastOf(page) /\ ~(ForecastOf(page) > MaxSafe)
    BY <1>6, <1>10, <2>1, CheckedFacts
  <2> QED
    BY <1>4, <1>6, <1>10, <2>2, MaxSafeAssumption
<1>11. ASSUME YearOf(month) > 1000, Answer(p) # Failed
       PROVE  AveragesExact(page, Answer(p))
  <2>1. \A w \in {3, 6, 12} : average(w) # Unsafe
    BY <1>3, <1>11
  <2>2. \A w \in {3, 6, 12} : average(w) = Rounded(WindowOf(page, w), w)
    BY <1>7, <1>11, <2>1
  <2> QED
    BY <1>4, <1>11, <2>2 DEF AveragesExact
<1> DEFINE shown == Shown(page)
<1>12. shown = {WindowOf(page, 12), expense} \cup (IF current THEN {ForecastOf(page)} ELSE {})
  BY DEF Shown, expense, current, read, filters, month, today
<1> HIDE DEF shown
<1>13. ASSUME YearOf(month) > 1000, Answer(p) = Failed
       PROVE  \E n \in shown \cup IncomesAt(read, filters, month) : n > MaxSafe
  <2>1. CASE Checked(spent) = Unsafe
    BY <1>8, <1>12, <2>1, CheckedFacts
  <2>2. CASE Checked(income) = Unsafe
    BY <1>9, <2>2, CheckedFacts
  <2>3. CASE current /\ forecast = Unsafe
    BY <1>6, <1>12, <2>3, CheckedFacts
  <2>4. CASE \E w \in {3, 6, 12} : average(w) = Unsafe
    <3>1. PICK w \in {3, 6, 12} : average(w) = Unsafe
      BY <2>4
    <3>2. WindowOf(page, w) > MaxSafe /\ WindowOf(page, w) <= WindowOf(page, 12)
      BY <1>7, <1>13, <3>1
    <3>3. WindowOf(page, 12) \in Nat /\ WindowOf(page, w) \in Nat
      BY <1>7, <1>13
    <3>4. WindowOf(page, 12) > MaxSafe
      BY <3>2, <3>3, MaxSafeAssumption
    <3> QED
      BY <1>12, <3>4
  <2> QED
    BY <1>3, <1>13, <2>1, <2>2, <2>3, <2>4
<1>14. ASSUME YearOf(month) > 1000, Answer(p) # Failed
       PROVE  \A n \in shown \cup {Answer(p).income} : n <= MaxSafe
  <2>1. spent <= MaxSafe
    BY <1>3, <1>8, <1>14, CheckedFacts, MaxSafeAssumption
  <2>2. income <= MaxSafe
    BY <1>3, <1>9, <1>14, CheckedFacts, MaxSafeAssumption
  <2>3. WindowOf(page, 12) <= MaxSafe
    <3>1. average(12) # Unsafe
      BY <1>3, <1>14
    <3>2. WindowOf(page, 12) \in Nat /\ ~(WindowOf(page, 12) > MaxSafe)
      BY <1>7, <1>14, <3>1
    <3> QED
      BY <3>2, MaxSafeAssumption
  <2>4. current => ForecastOf(page) <= MaxSafe
    BY <1>10, <1>14
  <2> QED
    BY <1>4, <1>8, <1>12, <1>14, <2>1, <2>2, <2>3, <2>4
<1>15. YearOf(month) > 1000 => FailureExact(page, Answer(p))
  BY <1>13, <1>14 DEF FailureExact, shown, read, filters, month
<1> QED
  BY <1>10, <1>11, <1>15 DEF current, page, filters, today, month

\* The figures of a page are the exact ones over the tables it read, rounded once and
\* half up, and it fails exactly when one of its amounts is above the safe integers
\* (multiplyAndRoundHalfUp, calculateHistoricalAverage).
THEOREM FiguresAreExact == Spec => FiguresExact
<1>1. IInv =>
        \A p \in Pages : PageAnswer(p) /\ pages[p].kind = "dashboard" =>
          /\ Answer(p) # Failed /\ pages[p].filters.month = pages[p].today.month =>
               Answer(p).forecast = ForecastOf(pages[p])
          /\ YearOf(pages[p].filters.month) > 1000 =>
               /\ FailureExact(pages[p], Answer(p))
               /\ Answer(p) # Failed => AveragesExact(pages[p], Answer(p))
  BY PageFigures, Zenon
<1> QED
  BY <1>1, Invariance, PTL DEF FiguresExact
=============================================================================
