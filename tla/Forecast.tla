------------------------------ MODULE Forecast ------------------------------
(***************************************************************************)
(* The arithmetic of averages and forecasts.  Amounts are non-negative     *)
(* cents; an amount that is no safe integer is an error.  A month is       *)
(* counted from January of the year 0.                                     *)
(***************************************************************************)
EXTENDS Integers

CONSTANT MaxSafe   \* Number.MAX_SAFE_INTEGER

ASSUME MaxSafeAssumption == MaxSafe \in Nat /\ MaxSafe >= 31 * 31

Unsafe == -1       \* the error

Checked(n) == IF n > MaxSafe THEN Unsafe ELSE n

\* Reference: n / d, rounded half up.
Rounded(n, d) == (2 * n + d) \div (2 * d)

\* Fault: halves are rounded down.
RoundHalfUp_Down(dividend, divisor) ==
  (dividend \div divisor) + (IF (dividend % divisor) > (divisor + 1) \div 2 THEN 1 ELSE 0)

RoundHalfUp(dividend, divisor) ==
  (dividend \div divisor) + (IF (dividend % divisor) >= (divisor + 1) \div 2 THEN 1 ELSE 0)

\* The product is taken in two parts, so that no intermediate value is larger than
\* the result or than a small constant.
MultiplyAndRoundHalfUp(value, multiplier, divisor) ==
  LET whole == ((value - (value % divisor)) \div divisor) * multiplier
      remainderProduct == (value % divisor) * multiplier IN
  IF Unsafe \in {Checked(whole), Checked(remainderProduct)} THEN Unsafe
  ELSE Checked(whole + RoundHalfUp(remainderProduct, divisor))

-----------------------------------------------------------------------------
YearOf(month) == month \div 12

\* Date.UTC takes the years 0 to 99 for 1900 to 1999.
UtcMonth(month) == IF YearOf(month) < 100 THEN month + 12 * 1900 ELSE month

Leap(year) == year % 4 = 0 /\ (year % 100 # 0 \/ year % 400 = 0)

DaysInMonth(month) ==
  LET m == UtcMonth(month) IN
  CASE m % 12 = 1 -> IF Leap(YearOf(m)) THEN 29 ELSE 28
    [] m % 12 \in {3, 5, 8, 10} -> 30
    [] OTHER -> 31

\* The months of the window.  A year before 1000 loses its leading zeros and then
\* equals no transaction's month.
PrecedingMonths(month, count) ==
  {m \in (UtcMonth(month) - count)..(UtcMonth(month) - 1) : YearOf(m) >= 1000}
=============================================================================
