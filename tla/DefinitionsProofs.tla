------------------------- MODULE DefinitionsProofs -------------------------
(***************************************************************************)
(* Theorems about Definitions, for every set of people, course of          *)
(* questions, mapping, document and table, every dialect and every bound.  *)
(***************************************************************************)
EXTENDS Definitions, SiftProofs, SequenceTheorems, FiniteSetTheorems

-----------------------------------------------------------------------------
(* The calendar: a year has 365 or 366 days, a month 28 to 31, and every day *)
(* from day 1 on lies in one year and one month.                             *)

LEMMA YearLength ==
  ASSUME NEW y \in Int
  PROVE  /\ YearStart(y) \in Int
         /\ YearStart(y + 1) - YearStart(y) = 365 + (IF IsLeap(y) THEN 1 ELSE 0)
  BY DEF YearStart, IsLeap

LEMMA YearBounds ==
  ASSUME NEW y \in Nat \ {0}
  PROVE  YearStart(y) >= 365 * (y - 1) + 1 /\ YearStart(y) <= 366 * (y - 1) + 1
  BY DEF YearStart

LEMMA YearsInOrder ==
  ASSUME NEW y \in Nat, NEW z \in Nat, y < z
  PROVE  YearStart(y + 1) <= YearStart(z)
<1>1. z - (y + 1) \in Nat /\ z = (y + 1) + (z - (y + 1))
  OBVIOUS
<1>2. \A a, n \in Nat : /\ (a + n) \div 4 - (a + n) \div 100 >= a \div 4 - a \div 100
                        /\ (a + n) \div 400 >= a \div 400
  OBVIOUS
<1>3. YearStart(y + 1) = 365 * y + y \div 4 - y \div 100 + y \div 400 + 1
  BY DEF YearStart
<1>4. YearStart(z) = 365 * (y + (z - (y + 1))) + (y + (z - (y + 1))) \div 4 - (y + (z - (y + 1))) \div 100
                     + (y + (z - (y + 1))) \div 400 + 1
  BY <1>1 DEF YearStart
<1> QED
  BY <1>1, <1>2, <1>3, <1>4

\* The year a day lies in, and no other.
InYear(d, y) == YearStart(y) <= d /\ d < YearStart(y + 1)

LEMMA YearExists ==
  ASSUME NEW d \in Nat \ {0}
  PROVE  \E y \in (d \div 366)..(d \div 365 + 1) : InYear(d, y)
<1> DEFINE n == d \div 365 + 1
           P == {y \in 1..n : YearStart(y) <= d}
<1>1. n \in Nat /\ 1 \in 1..n /\ d < 365 * n
  OBVIOUS
<1>2. YearStart(1) = 1
  BY DEF YearStart
<1>3. 1 \in P /\ P \in SUBSET (1..n)
  BY <1>1, <1>2
<1>4. PICK k \in P : \A j \in P : j <= k
  <2> HIDE DEF P, n
  <2> QED  BY <1>1, <1>3, LastPosition
<1>5. k \in Nat \ {0} /\ k <= n /\ YearStart(k) <= d
  BY <1>1, <1>4
<1>6. d < YearStart(k + 1)
  <2>1. CASE k = n
    <3>1. YearStart(k + 1) >= 365 * ((k + 1) - 1) + 1
      BY <1>5, YearBounds, k + 1 \in Nat \ {0}
    <3> QED  BY <1>1, <1>5, <2>1, <3>1, YearLength
  <2>2. CASE k < n
    <3>1. k + 1 \in 1..n /\ k + 1 \notin P
      BY <1>4, <1>5, <1>1, <2>2
    <3> QED  BY <1>5, <3>1, YearLength
  <2> QED  BY <1>1, <1>5, <2>1, <2>2
<1>7. d \div 366 <= k
  <2>1. SUFFICES ASSUME k < d \div 366 PROVE FALSE
    BY <1>5
  <2>2. 366 * (k + 1) <= d
    BY <1>5, <2>1
  <2>3. YearStart(k + 1) <= 366 * ((k + 1) - 1) + 1
    BY <1>5, YearBounds, k + 1 \in Nat \ {0}
  <2> QED  BY <1>5, <1>6, <2>2, <2>3, YearLength
<1>8. k \in (d \div 366)..(d \div 365 + 1)
  BY <1>5, <1>7
<1> QED
  BY <1>5, <1>6, <1>8 DEF InYear

LEMMA YearFacts ==
  ASSUME NEW d \in Nat \ {0}
  PROVE  YearOf(d) \in Nat \ {0} /\ InYear(d, YearOf(d))
<1> DEFINE y == YearOf(d)
<1>1. y \in (d \div 366)..(d \div 365 + 1) /\ InYear(d, y)
  BY YearExists DEF YearOf, InYear
<1>2. y \in Nat
  BY <1>1
<1>3. y # 0
  <2>1. YearStart(0 + 1) = 1
    BY DEF YearStart
  <2> HIDE DEF y
  <2> QED  BY <1>1, <2>1 DEF InYear
<1> QED
  BY <1>1, <1>2, <1>3

LEMMA OneYear ==
  ASSUME NEW d \in Nat, NEW y \in Nat, NEW z \in Nat, InYear(d, y), InYear(d, z)
  PROVE  y = z
<1>1. /\ YearStart(y + 1) \in Int /\ YearStart(z + 1) \in Int
      /\ YearStart(y) \in Int /\ YearStart(z) \in Int
  BY YearLength
<1>2. y < z => YearStart(y + 1) <= YearStart(z)
  BY YearsInOrder
<1>3. z < y => YearStart(z + 1) <= YearStart(y)
  BY YearsInOrder
<1> QED
  BY <1>1, <1>2, <1>3 DEF InYear

LEMMA DaysBeforeEach ==
  /\ DaysBefore[1] = 0 /\ DaysBefore[2] = 31 /\ DaysBefore[3] = 59 /\ DaysBefore[4] = 90
  /\ DaysBefore[5] = 120 /\ DaysBefore[6] = 151 /\ DaysBefore[7] = 181 /\ DaysBefore[8] = 212
  /\ DaysBefore[9] = 243 /\ DaysBefore[10] = 273 /\ DaysBefore[11] = 304 /\ DaysBefore[12] = 334
  BY DEF DaysBefore

\* Where a month begins in its year.
LEMMA FirstOfMonth ==
  ASSUME NEW y \in Nat, NEW m \in 1..12
  PROVE  /\ FirstOf(12 * y + m - 1)
              = YearStart(y) + DaysBefore[m] + (IF m > 2 /\ IsLeap(y) THEN 1 ELSE 0)
         /\ FirstOf(12 * y + m - 1) \in Int
<1>1. (12 * y + m - 1) \div 12 = y /\ ((12 * y + m - 1) % 12) + 1 = m
  OBVIOUS
<1>2. FirstOf(12 * y + m - 1)
        = YearStart(y) + DaysBefore[m] + (IF m > 2 /\ IsLeap(y) THEN 1 ELSE 0)
  BY <1>1 DEF FirstOf
<1>3. DaysBefore[m] \in Nat
  BY DaysBeforeEach
<1> QED
  BY <1>2, <1>3, YearLength

LEMMA MonthIsOfAYear ==
  ASSUME NEW k \in Nat
  PROVE  \E y \in Nat : \E m \in 1..12 : k = 12 * y + m - 1 /\ y = k \div 12
<1>1. k \div 12 \in Nat /\ (k % 12) + 1 \in 1..12 /\ k = 12 * (k \div 12) + ((k % 12) + 1) - 1
  OBVIOUS
<1> QED
  BY <1>1

LEMMA MonthLength ==
  ASSUME NEW k \in Nat
  PROVE  /\ FirstOf(k) \in Int /\ FirstOf(k + 1) \in Int
         /\ FirstOf(k + 1) - FirstOf(k) >= 28 /\ FirstOf(k + 1) - FirstOf(k) <= 31
<1>1. PICK y \in Nat, m \in 1..12 : k = 12 * y + m - 1
  BY MonthIsOfAYear
<1>2. /\ FirstOf(k) = YearStart(y) + DaysBefore[m] + (IF m > 2 /\ IsLeap(y) THEN 1 ELSE 0)
      /\ FirstOf(k) \in Int
  BY <1>1, FirstOfMonth
<1>3. CASE m = 12
  <2>1. k + 1 = 12 * (y + 1) + 1 - 1 /\ y + 1 \in Nat /\ 1 \in 1..12
    BY <1>1, <1>3
  <2>2. FirstOf(k + 1) = YearStart(y + 1) + DaysBefore[1] + (IF 1 > 2 /\ IsLeap(y + 1) THEN 1 ELSE 0)
    BY <2>1, FirstOfMonth
  <2>3. FirstOf(k + 1) = YearStart(y + 1) /\ YearStart(y + 1) \in Int /\ YearStart(y) \in Int
    BY <2>2, DaysBeforeEach, YearLength
  <2>4. YearStart(y + 1) - YearStart(y) = 365 + (IF IsLeap(y) THEN 1 ELSE 0)
    BY YearLength
  <2> QED  BY <1>2, <1>3, <2>3, <2>4, DaysBeforeEach
<1>4. CASE m # 12
  <2>1. k + 1 = 12 * y + (m + 1) - 1 /\ m + 1 \in 1..12
    BY <1>1, <1>4
  <2>2. /\ FirstOf(k + 1) = YearStart(y) + DaysBefore[m + 1] + (IF m + 1 > 2 /\ IsLeap(y) THEN 1 ELSE 0)
        /\ FirstOf(k + 1) \in Int
    BY <2>1, FirstOfMonth
  <2>3. YearStart(y) \in Int
    BY YearLength
  <2>4. m \in {1, 2, 3, 4, 5, 6, 7, 8, 9, 10, 11}
    BY <1>4
  <2> QED  BY <1>2, <2>2, <2>3, <2>4, DaysBeforeEach
<1> QED
  BY <1>3, <1>4

\* Months in their order; NatSetInduction over how far apart they are.
LEMMA MonthsInOrder ==
  ASSUME NEW k \in Nat, NEW l \in Nat, k < l
  PROVE  FirstOf(k + 1) <= FirstOf(l)
<1> DEFINE S == {n \in Nat : FirstOf(k + 1) <= FirstOf((k + 1) + n)}
<1>1. 0 \in S
  BY MonthLength
<1>2. ASSUME NEW n \in S PROVE n + 1 \in S
  <2>1. n \in Nat /\ (k + 1) + n \in Nat /\ FirstOf(k + 1) <= FirstOf((k + 1) + n)
    OBVIOUS
  <2>2. /\ FirstOf((k + 1) + n) \in Int /\ FirstOf(((k + 1) + n) + 1) \in Int
        /\ FirstOf(((k + 1) + n) + 1) - FirstOf((k + 1) + n) >= 28
    BY <2>1, MonthLength
  <2>3. FirstOf(k + 1) \in Int
    BY MonthLength
  <2>4. ((k + 1) + n) + 1 = (k + 1) + (n + 1)
    BY <2>1
  <2> QED  BY <2>1, <2>2, <2>3, <2>4
<1> HIDE DEF S
<1>3. S = Nat
  <2>1. S \in SUBSET Nat
    BY DEF S
  <2> QED  BY <1>1, <1>2, <2>1, NatSetInduction
<1>4. l - (k + 1) \in S
  BY <1>3
<1>5. (k + 1) + (l - (k + 1)) = l
  OBVIOUS
<1> QED
  BY <1>4, <1>5 DEF S

\* The month a day lies in, and no other.
InMonth(d, k) == FirstOf(k) <= d /\ d < FirstOf(k + 1)

LEMMA YearIsTwelveMonths ==
  ASSUME NEW y \in Nat
  PROVE  /\ YearMonth(y, 1) = 12 * y /\ YearMonth(y, 12) = 12 * y + 11
         /\ FirstOf(12 * y) = YearStart(y) /\ FirstOf((12 * y + 11) + 1) = YearStart(y + 1)
<1>1. 12 * y = 12 * y + 1 - 1 /\ 1 \in 1..12
  OBVIOUS
<1>2. FirstOf(12 * y) = YearStart(y) + DaysBefore[1] + (IF 1 > 2 /\ IsLeap(y) THEN 1 ELSE 0)
  BY <1>1, FirstOfMonth
<1>3. (12 * y + 11) + 1 = 12 * (y + 1) + 1 - 1 /\ y + 1 \in Nat
  OBVIOUS
<1>4. FirstOf((12 * y + 11) + 1)
        = YearStart(y + 1) + DaysBefore[1] + (IF 1 > 2 /\ IsLeap(y + 1) THEN 1 ELSE 0)
  BY <1>1, <1>3, FirstOfMonth
<1>5. YearStart(y) \in Int /\ YearStart(y + 1) \in Int
  BY YearLength
<1>6. YearMonth(y, 1) = 12 * y /\ YearMonth(y, 12) = 12 * y + 11
  BY DEF YearMonth
<1> QED
  BY <1>2, <1>4, <1>5, <1>6, DaysBeforeEach

LEMMA MonthExists ==
  ASSUME NEW d \in Nat \ {0}
  PROVE  \E k \in YearMonth(YearOf(d), 1)..YearMonth(YearOf(d), 12) : InMonth(d, k)
<1>1. PICK y \in Nat \ {0} : y = YearOf(d) /\ InYear(d, y)
  BY YearFacts
<1>2. /\ YearMonth(y, 1) = 12 * y /\ YearMonth(y, 12) = 12 * y + 11
      /\ FirstOf(12 * y) = YearStart(y) /\ FirstOf((12 * y + 11) + 1) = YearStart(y + 1)
  BY YearIsTwelveMonths
<1> DEFINE n == 12 * y + 11
           P == {k \in 1..n : 12 * y <= k /\ FirstOf(k) <= d}
<1>3. n \in Nat /\ 12 * y \in 1..n /\ 12 * y \in P
  BY <1>1, <1>2 DEF InYear
<1>4. PICK k \in P : \A j \in P : j <= k
  <2>1. P \in SUBSET (1..n)
    OBVIOUS
  <2> HIDE DEF P, n
  <2> QED  BY <1>3, <2>1, LastPosition
<1>5. k \in Nat /\ 12 * y <= k /\ k <= 12 * y + 11 /\ FirstOf(k) <= d
  OBVIOUS
<1>6. d < FirstOf(k + 1)
  <2>1. CASE k = 12 * y + 11
    BY <1>1, <1>2, <2>1 DEF InYear
  <2>2. CASE k < 12 * y + 11
    <3>1. k + 1 \in 1..n /\ 12 * y <= k + 1 /\ k + 1 \notin P
      BY <1>4, <1>5, <2>2
    <3>2. FirstOf(k + 1) \in Int
      BY <1>5, MonthLength
    <3> QED  BY <3>1, <3>2
  <2> QED  BY <1>5, <2>1, <2>2
<1>7. k \in (12 * y)..(12 * y + 11)
  BY <1>5
<1> QED
  BY <1>1, <1>2, <1>5, <1>6, <1>7 DEF InMonth

LEMMA MonthFacts ==
  ASSUME NEW d \in Nat \ {0}
  PROVE  /\ MonthOf(d) \in Nat /\ MonthOf(d) >= 12 /\ InMonth(d, MonthOf(d))
         /\ FirstOf(MonthOf(d)) \in Int
<1>1. PICK y \in Nat \ {0} : y = YearOf(d)
  BY YearFacts
<1>2. MonthOf(d) \in YearMonth(y, 1)..YearMonth(y, 12) /\ InMonth(d, MonthOf(d))
  BY <1>1, MonthExists DEF MonthOf, InMonth
<1>3. YearMonth(y, 1) = 12 * y /\ YearMonth(y, 12) = 12 * y + 11
  BY YearIsTwelveMonths
<1>4. MonthOf(d) \in (12 * y)..(12 * y + 11)
  BY <1>2, <1>3
<1>5. MonthOf(d) \in Nat /\ MonthOf(d) >= 12
  BY <1>4
<1> QED
  BY <1>2, <1>5, MonthLength

LEMMA OneMonth ==
  ASSUME NEW d \in Nat, NEW k \in Nat, NEW l \in Nat, InMonth(d, k), InMonth(d, l)
  PROVE  k = l
<1>1. /\ FirstOf(k) \in Int /\ FirstOf(k + 1) \in Int
      /\ FirstOf(l) \in Int /\ FirstOf(l + 1) \in Int
  BY MonthLength
<1>2. k < l => FirstOf(k + 1) <= FirstOf(l)
  BY MonthsInOrder
<1>3. l < k => FirstOf(l + 1) <= FirstOf(k)
  BY MonthsInOrder
<1> QED
  BY <1>1, <1>2, <1>3 DEF InMonth

\* A month counted from the first of the calendar begins on a day of it.
LEMMA MonthInCalendar ==
  ASSUME NEW k \in Nat, k >= 12
  PROVE  FirstOf(k) \in Nat \ {0}
<1>1. FirstOf(12) = 1
  <2>1. FirstOf(12 * 1) = YearStart(1)
    BY YearIsTwelveMonths
  <2>2. YearStart(1) = 1
    BY DEF YearStart
  <2> QED  BY <2>1, <2>2
<1>2. CASE k = 12
  BY <1>1, <1>2
<1>3. CASE k > 12
  <2>1. FirstOf(12 + 1) <= FirstOf(k)
    BY <1>3, MonthsInOrder
  <2>2. FirstOf(12 + 1) \in Int /\ FirstOf(12 + 1) - FirstOf(12) >= 28 /\ FirstOf(k) \in Int
    BY MonthLength
  <2> QED  BY <1>1, <2>1, <2>2
<1> QED
  BY <1>2, <1>3

-----------------------------------------------------------------------------
(* What a text's time words say is a range of days that begins in the         *)
(* calendar, whichever pattern reads them.                                    *)

Ranges == {p \in Int \X Int : 1 <= p[1]}

LEMMA RangeOf ==
  ASSUME NEW a \in Int, NEW b \in Int, 1 <= a
  PROVE  Period(a, b) \in Ranges /\ Period(a, b)[1] = a /\ Period(a, b)[2] = b
<1>1. <<a, b>> \in Int \X Int /\ <<a, b>>[1] = a /\ <<a, b>>[2] = b
  OBVIOUS
<1> QED
  BY <1>1 DEF Ranges, Period

LEMMA RefusedIsARange ==
  Refused \in Ranges /\ Raises(Refused)
<1>1. Refused = Period(1, 0) /\ Period(1, 0) \in Ranges /\ Period(1, 0)[1] = 1 /\ Period(1, 0)[2] = 0
  BY RangeOf DEF Refused
<1> QED
  BY <1>1 DEF Raises

LEMMA MonthRange ==
  ASSUME NEW k \in Nat, k >= 12
  PROVE  Month(k) \in Ranges
<1>1. FirstOf(k) \in Nat \ {0} /\ FirstOf(k + 1) \in Int
  BY MonthInCalendar, MonthLength
<1> QED
  BY <1>1, RangeOf DEF Month

LEMMA NamedMonthRange ==
  ASSUME NEW y \in Nat \ {0}, NEW m \in Nat
  PROVE  MonthNamed(y, m) \subseteq Ranges
<1>1. m \in 1..12 => YearMonth(y, m) \in Nat /\ YearMonth(y, m) >= 12
  BY DEF YearMonth
<1>2. m \in 1..12 => Month(YearMonth(y, m)) \in Ranges
  BY <1>1, MonthRange
<1> QED
  BY <1>2 DEF MonthNamed

LEMMA DayRange ==
  ASSUME NEW d \in Nat
  PROVE  OneDay(d) \subseteq Ranges
<1>1. d # 0 => Period(d, d) \in Ranges
  BY RangeOf
<1> QED
  BY <1>1, RefusedIsARange DEF OneDay, NoDay

LEMMA DateIsADay ==
  ASSUME NEW y \in Nat \ {0}, NEW m \in Nat, NEW d \in Nat
  PROVE  Date(y, m, d) \in Nat
<1>1. CASE m \in 1..12
  <2>1. YearMonth(y, m) \in Nat /\ YearMonth(y, m) >= 12
    BY <1>1 DEF YearMonth
  <2>2. FirstOf(YearMonth(y, m)) \in Nat \ {0} /\ FirstOf(YearMonth(y, m) + 1) \in Int
    BY <2>1, MonthInCalendar, MonthLength
  <2> DEFINE f == FirstOf(YearMonth(y, m))
             g == FirstOf(YearMonth(y, m) + 1)
  <2>3. Date(y, m, d) = IF m \in 1..12 /\ f + d - 1 \in f..(g - 1) THEN f + d - 1 ELSE NoDay
    BY DEF Date
  <2>4. f \in Nat \ {0} /\ g \in Int
    BY <2>2
  <2> HIDE DEF f, g
  <2> QED  BY <2>3, <2>4 DEF NoDay
<1>2. CASE m \notin 1..12
  BY <1>2 DEF Date, NoDay
<1> QED
  BY <1>1, <1>2

LEMMA WorkDay ==
  ASSUME NEW d \in WorkDays
  PROVE  /\ d \in Nat \ {0} /\ YearOf(d) \in Nat /\ YearOf(d) >= 2
         /\ MonthOf(d) \in Nat /\ MonthOf(d) >= 13
<1>1. d \in Nat /\ d > 2 * 366
  BY DefinitionsAssumption
<1>2. d \in Nat \ {0} /\ YearOf(d) \in Nat \ {0} /\ InYear(d, YearOf(d))
  BY <1>1, YearFacts
<1>3. YearOf(d) # 1
  <2>1. YearStart(2) = 366
    BY DEF YearStart
  <2>2. YearOf(d) = 1 => YearOf(d) + 1 = 2
    OBVIOUS
  <2> QED  BY <1>1, <1>2, <2>1, <2>2 DEF InYear
<1>4. MonthOf(d) \in Nat /\ MonthOf(d) >= 12 /\ InMonth(d, MonthOf(d))
  BY <1>2, MonthFacts
<1>5. MonthOf(d) # 12
  <2>1. FirstOf(12) \in Int /\ FirstOf(12 + 1) \in Int /\ FirstOf(12 + 1) - FirstOf(12) <= 31
    BY MonthLength
  <2>2. FirstOf(12) = 1
    <3>1. FirstOf(12 * 1) = YearStart(1)
      BY YearIsTwelveMonths
    <3>2. YearStart(1) = 1
      BY DEF YearStart
    <3> QED  BY <3>1, <3>2
  <2> QED  BY <1>1, <1>4, <2>1, <2>2 DEF InMonth
<1> QED
  BY <1>2, <1>3, <1>4, <1>5

\* The words w are those a pattern asks for.
Fits(w, shape) == \A j \in 1..Len(shape) : WordOK(w[j]) /\ w[j].is = shape[j]
Shapes == {Patterns[k] : k \in 1..Len(Patterns)}

LEMMA ShapesListed ==
  /\ Len(Patterns) = 15
  /\ Shapes = {<<"iso", "to", "iso">>, <<"year", "month", "day">>, <<"iso">>,
               <<"year", "month">>, <<"isoMonth">>, <<"lastDays">>, <<"lastMonths">>,
               <<"prevMonth">>, <<"thisMonth">>, <<"prevWeek">>, <<"thisWeek">>,
               <<"prevYear">>, <<"thisYear">>, <<"daysAgo">>, <<"month">>}
<1>1. Len(Patterns) = 15
  BY DEF Patterns
<1>2. 1..15 = {1, 2, 3, 4, 5, 6, 7, 8, 9, 10, 11, 12, 13, 14, 15}
  OBVIOUS
<1>3. /\ Patterns[1] = <<"iso", "to", "iso">> /\ Patterns[2] = <<"year", "month", "day">>
      /\ Patterns[3] = <<"iso">> /\ Patterns[4] = <<"year", "month">>
      /\ Patterns[5] = <<"isoMonth">> /\ Patterns[6] = <<"lastDays">>
      /\ Patterns[7] = <<"lastMonths">> /\ Patterns[8] = <<"prevMonth">>
      /\ Patterns[9] = <<"thisMonth">> /\ Patterns[10] = <<"prevWeek">>
      /\ Patterns[11] = <<"thisWeek">> /\ Patterns[12] = <<"prevYear">>
      /\ Patterns[13] = <<"thisYear">> /\ Patterns[14] = <<"daysAgo">>
      /\ Patterns[15] = <<"month">>
  BY DEF Patterns
<1>4. Shapes = {Patterns[k] : k \in {1, 2, 3, 4, 5, 6, 7, 8, 9, 10, 11, 12, 13, 14, 15}}
  BY <1>1, <1>2 DEF Shapes
<1>5. Shapes = {Patterns[1], Patterns[2], Patterns[3], Patterns[4], Patterns[5], Patterns[6],
                Patterns[7], Patterns[8], Patterns[9], Patterns[10], Patterns[11],
                Patterns[12], Patterns[13], Patterns[14], Patterns[15]}
  BY <1>4, Zenon
<1> QED
  BY <1>1, <1>3, <1>5, Zenon

LEMMA ReadingIsARange ==
  ASSUME NEW shape \in Shapes, NEW w, Fits(w, shape), NEW today_ \in WorkDays
  PROVE  Handler(shape, w, today_) \subseteq Ranges
<1> DEFINE y == YearOf(today_)
           k == MonthOf(today_)
<1>1. /\ today_ \in Nat \ {0} /\ y \in Nat /\ y >= 2 /\ k \in Nat /\ k >= 13
  BY WorkDay
<1>2. Handler(shape, w, today_) = Reading(shape, w, today_, y, k)
  BY DEF Handler
<1>3. \A n : n \in WorkDays => n \in Nat
  BY DefinitionsAssumption
<1> HIDE DEF y, k
<1>4. CASE shape = <<"iso", "to", "iso">>
  <2>1. Fits(w, <<"iso", "to", "iso">>) => WordOK(w[1]) /\ w[1].is = "iso" /\ WordOK(w[3]) /\ w[3].is = "iso"
    BY DEF Fits
  <2>2. w[1].day \in Nat /\ w[3].day \in Nat
    BY <1>4, <2>1 DEF WordOK
  <2>3. Reading(shape, w, today_, y, k)
          = IF NoDay \in {w[1].day, w[3].day} THEN {Refused} ELSE {Period(w[1].day, w[3].day)}
    BY <1>4 DEF Reading
  <2>4. w[1].day # 0 => Period(w[1].day, w[3].day) \in Ranges
    BY <2>2, RangeOf
  <2> QED  BY <1>2, <2>3, <2>4, RefusedIsARange DEF NoDay
<1>5. CASE shape = <<"year", "month", "day">>
  <2>1. Fits(w, <<"year", "month", "day">>) =>
          /\ WordOK(w[1]) /\ w[1].is = "year" /\ WordOK(w[2]) /\ w[2].is = "month"
          /\ WordOK(w[3]) /\ w[3].is = "day"
    BY DEF Fits
  <2>2. w[1].y \in Nat \ {0} /\ w[2].m \in Nat /\ w[3].d \in Nat
    BY <1>5, <2>1 DEF WordOK
  <2>3. Reading(shape, w, today_, y, k) = OneDay(Date(w[1].y, w[2].m, w[3].d))
    BY <1>5 DEF Reading
  <2> QED  BY <1>2, <2>2, <2>3, DateIsADay, DayRange
<1>6. CASE shape = <<"iso">>
  <2>1. Fits(w, <<"iso">>) => WordOK(w[1]) /\ w[1].is = "iso"
    BY DEF Fits
  <2>2. w[1].day \in Nat
    BY <1>6, <2>1 DEF WordOK
  <2>3. Reading(shape, w, today_, y, k) = OneDay(w[1].day)
    BY <1>6 DEF Reading
  <2> QED  BY <1>2, <2>2, <2>3, DayRange
<1>7. CASE shape = <<"year", "month">>
  <2>1. Fits(w, <<"year", "month">>) =>
          WordOK(w[1]) /\ w[1].is = "year" /\ WordOK(w[2]) /\ w[2].is = "month"
    BY DEF Fits
  <2>2. w[1].y \in Nat \ {0} /\ w[2].m \in Nat
    BY <1>7, <2>1 DEF WordOK
  <2>3. Reading(shape, w, today_, y, k) = MonthNamed(w[1].y, w[2].m)
    BY <1>7 DEF Reading
  <2> QED  BY <1>2, <2>2, <2>3, NamedMonthRange
<1>8. CASE shape = <<"isoMonth">>
  <2>1. Fits(w, <<"isoMonth">>) => WordOK(w[1]) /\ w[1].is = "isoMonth"
    BY DEF Fits
  <2>2. w[1].y \in Nat \ {0} /\ w[1].m \in Nat
    BY <1>8, <2>1 DEF WordOK
  <2>3. Reading(shape, w, today_, y, k) = MonthNamed(w[1].y, w[1].m)
    BY <1>8 DEF Reading
  <2> QED  BY <1>2, <2>2, <2>3, NamedMonthRange
<1>9. CASE shape = <<"lastDays">>
  <2>1. Fits(w, <<"lastDays">>) => WordOK(w[1]) /\ w[1].is = "lastDays"
    BY DEF Fits
  <2>2. w[1].n \in Nat /\ w[1].n < today_
    BY <1>9, <2>1 DEF WordOK
  <2>3. Reading(shape, w, today_, y, k)
          = IF w[1].n = 0 THEN {} ELSE {Period(today_ - (w[1].n - 1), today_)}
    BY <1>9 DEF Reading
  <2>4. Period(today_ - (w[1].n - 1), today_) \in Ranges
    BY <1>1, <2>2, RangeOf
  <2> QED  BY <1>2, <2>3, <2>4
<1>10. CASE shape = <<"lastMonths">>
  <2>1. Fits(w, <<"lastMonths">>) => WordOK(w[1]) /\ w[1].is = "lastMonths"
    BY DEF Fits
  <2>2. w[1].n \in Nat /\ w[1].n <= k - 12
    BY <1>10, <2>1 DEF WordOK, k
  <2>3. Reading(shape, w, today_, y, k) = IF w[1].n = 0 THEN {} ELSE {Rolling(w[1].n, today_, k)}
    BY <1>10 DEF Reading
  <2>4. k - (w[1].n - 1) \in Nat /\ k - (w[1].n - 1) >= 12
    BY <1>1, <2>2
  <2>5. FirstOf(k - (w[1].n - 1)) \in Nat \ {0}
    BY <2>4, MonthInCalendar
  <2>6. Rolling(w[1].n, today_, k) \in Ranges
    BY <1>1, <2>5, RangeOf DEF Rolling
  <2> QED  BY <1>2, <2>3, <2>6
<1>11. CASE shape = <<"prevMonth">>
  <2>1. Reading(shape, w, today_, y, k) = {Month(k - 1)}
    BY <1>11 DEF Reading
  <2>2. Month(k - 1) \in Ranges
    BY <1>1, MonthRange, k - 1 \in Nat
  <2> QED  BY <1>2, <2>1, <2>2
<1>12. CASE shape = <<"thisMonth">>
  <2>1. Reading(shape, w, today_, y, k) = {Period(FirstOf(k), today_)}
    BY <1>12 DEF Reading
  <2>2. FirstOf(k) \in Nat \ {0}
    BY <1>1, MonthInCalendar
  <2> QED  BY <1>1, <1>2, <2>1, <2>2, RangeOf
<1>13. CASE shape = <<"prevWeek">>
  <2>1. Reading(shape, w, today_, y, k) = {Period(Monday(today_) - 7, Monday(today_) - 1)}
    BY <1>13 DEF Reading
  <2>2. today_ > 732
    BY DefinitionsAssumption
  <2>3. Monday(today_) \in Int /\ Monday(today_) > today_ - 7
    BY <1>1 DEF Monday
  <2> QED  BY <1>1, <1>2, <2>1, <2>2, <2>3, RangeOf
<1>14. CASE shape = <<"thisWeek">>
  <2>1. Reading(shape, w, today_, y, k) = {Period(Monday(today_), today_)}
    BY <1>14 DEF Reading
  <2>2. Monday(today_) \in Int /\ Monday(today_) >= 1
    BY <1>1 DEF Monday
  <2> QED  BY <1>1, <1>2, <2>1, <2>2, RangeOf
<1>15. CASE shape = <<"prevYear">>
  <2>1. Reading(shape, w, today_, y, k) = {Period(YearStart(y - 1), YearStart(y) - 1)}
    BY <1>15 DEF Reading
  <2>2. y - 1 \in Nat \ {0} /\ YearStart(y) \in Int /\ YearStart(y - 1) \in Int
    BY <1>1, YearLength
  <2>3. PICK x \in Nat \ {0} : x = y - 1
    BY <2>2
  <2>4. YearStart(y - 1) >= 1
    <3>1. YearStart(x) >= 365 * (x - 1) + 1
      BY YearBounds
    <3>2. YearStart(x) \in Int
      BY YearLength
    <3>3. YearStart(x) >= 1
      BY <3>1, <3>2
    <3> QED  BY <2>3, <3>3, Zenon
  <2> QED  BY <1>2, <2>1, <2>2, <2>4, RangeOf
<1>16. CASE shape = <<"thisYear">>
  <2>1. Reading(shape, w, today_, y, k) = {Period(YearStart(y), today_)}
    BY <1>16 DEF Reading
  <2>2. y \in Nat \ {0} /\ YearStart(y) \in Int
    BY <1>1, YearLength
  <2>3. YearStart(y) >= 365 * (y - 1) + 1
    BY <2>2, YearBounds
  <2>4. YearStart(y) >= 1
    BY <2>2, <2>3
  <2> QED  BY <1>1, <1>2, <2>1, <2>2, <2>4, RangeOf
<1>17. CASE shape = <<"daysAgo">>
  <2>1. Fits(w, <<"daysAgo">>) => WordOK(w[1]) /\ w[1].is = "daysAgo"
    BY DEF Fits
  <2>2. w[1].n \in Nat /\ w[1].n < today_
    BY <1>17, <2>1 DEF WordOK
  <2>3. Reading(shape, w, today_, y, k) = {Period(today_ - w[1].n, today_ - w[1].n)}
    BY <1>17 DEF Reading
  <2> QED  BY <1>1, <1>2, <2>2, <2>3, RangeOf
<1>18. CASE shape = <<"month">>
  <2>1. Fits(w, <<"month">>) => WordOK(w[1]) /\ w[1].is = "month"
    BY DEF Fits
  <2>2. w[1].m \in Nat
    BY <1>18, <2>1 DEF WordOK
  <2>3. Reading(shape, w, today_, y, k)
          = MonthNamed(IF w[1].m <= (k % 12) + 1 THEN y ELSE y - 1, w[1].m)
    BY <1>18 DEF Reading
  <2>4. (IF w[1].m <= (k % 12) + 1 THEN y ELSE y - 1) \in Nat \ {0}
    BY <1>1
  <2> QED  BY <1>2, <2>2, <2>3, <2>4, NamedMonthRange
<1> QED
  BY <1>4, <1>5, <1>6, <1>7, <1>8, <1>9, <1>10, <1>11, <1>12, <1>13, <1>14, <1>15, <1>16,
     <1>17, <1>18, ShapesListed, Zenon

\* A match is of one of the patterns, on words of its kinds.
LEMMA SequenceIsList ==
  ASSUME NEW s, IsSequence(s)
  PROVE  IsList(s) /\ Len(s) \in Nat /\ DOMAIN s = 1..Len(s)
<1>1. Len(s) \in Nat /\ s = [i \in 1..Len(s) |-> s[i]]
  BY DEF IsSequence
<1>2. DOMAIN s = 1..Len(s)
  BY <1>1
<1>3. \A i \in 1..Len(s) : s[i] \in ToSet(s)
  BY <1>2 DEF ToSet
<1>4. s \in Seq(ToSet(s))
  BY <1>1, <1>3
<1> QED
  BY <1>1, <1>2, <1>4 DEF IsList

LEMMA MatchesFit ==
  ASSUME NEW text, IsSequence(text)
  PROVE  /\ IsList(Matches(text))
         /\ \A try \in ToSet(Matches(text)) :
              try[1] \in Shapes /\ try[2] \in 1..Len(text) /\ Spans(text, try[1], try[2])
<1> DEFINE n == Len(text)
           m == Len(Patterns) * n
           tries == [k \in 1..m |-> <<Patterns[((k - 1) \div n) + 1], ((k - 1) % n) + 1>>]
           I == {k \in 1..Len(tries) : Spans(text, tries[k][1], tries[k][2])}
<1>1. n \in Nat /\ Len(Patterns) = 15 /\ m \in Nat
  BY SequenceIsList, ShapesListed
<1>2. Matches(text) = Picked(tries, I)
  BY DEF Matches, Where
<1>3. ASSUME NEW k \in 1..m
      PROVE  ((k - 1) \div n) + 1 \in 1..15 /\ ((k - 1) % n) + 1 \in 1..n
  <2>1. k \in Nat /\ 1 <= k /\ k <= 15 * n /\ n > 0
    BY <1>1
  <2>2. (k - 1) % n \in 0..(n - 1)
    BY <1>1, <2>1
  <2>3. (k - 1) = n * ((k - 1) \div n) + ((k - 1) % n)
    BY <1>1, <2>1
  <2>4. \A q \in Int, r \in 0..(n - 1) : k - 1 = n * q + r => q >= 0 /\ q < 15
    BY <1>1, <2>1
  <2>5. (k - 1) \div n \in Int
    BY <1>1, <2>1
  <2> DEFINE q == (k - 1) \div n
             r == (k - 1) % n
  <2>6. q \in Int /\ r \in 0..(n - 1) /\ k - 1 = n * q + r
    BY <2>2, <2>3, <2>5
  <2> HIDE DEF q, r
  <2>7. q >= 0 /\ q < 15
    BY <2>4, <2>6
  <2>8. q + 1 \in 1..15 /\ r + 1 \in 1..n
    BY <1>1, <2>6, <2>7
  <2> QED  BY <2>8 DEF q, r
<1>4. ASSUME NEW k \in 1..m PROVE tries[k][1] \in Shapes /\ tries[k][2] \in 1..n
  <2>1. tries[k] = <<Patterns[((k - 1) \div n) + 1], ((k - 1) % n) + 1>>
    OBVIOUS
  <2>2. Patterns[((k - 1) \div n) + 1] \in Shapes
    BY <1>1, <1>3 DEF Shapes
  <2> HIDE DEF tries
  <2> QED  BY <1>3, <2>1, <2>2
<1>5. tries \in Seq({tries[k] : k \in 1..m}) /\ Len(tries) = m
  <2> DEFINE T == {tries[k] : k \in 1..m}
  <2>1. tries = [k \in 1..m |-> tries[k]] /\ \A k \in 1..m : tries[k] \in T
    OBVIOUS
  <2> HIDE DEF tries, m, T
  <2>2. tries \in [1..m -> T]
    BY <2>1
  <2>3. tries \in Seq(T) /\ Len(tries) = m
    BY <1>1, <2>2
  <2> QED  BY <2>3 DEF T
<1> HIDE DEF tries, m
<1>6. IsList(tries) /\ I \in SUBSET (1..Len(tries))
  BY <1>5, OfAType
<1>7. IsList(Matches(text)) /\ ToSet(Matches(text)) = {tries[k] : k \in I}
  BY <1>2, <1>6, PickedElements
<1> QED
  BY <1>4, <1>5, <1>7

\* What the scan has found after n matches; there is such a function for every n.
ScansTo(tries, text, day, n, g) ==
  g = [i \in 0..n |-> IF i = 0 THEN [taken |-> {}, found |-> {}]
                      ELSE AfterTry(g[i - 1], tries[i], text, day)]
ScanStep(tries, text, day, g, i) ==
  g[i] = IF i = 0 THEN [taken |-> {}, found |-> {}]
         ELSE AfterTry(g[i - 1], tries[i], text, day)

LEMMA ScanEquation ==
  ASSUME NEW tries, NEW text, NEW day, NEW n \in Nat, NEW g,
         g = [i \in 0..n |-> g[i]], \A i \in 0..n : ScanStep(tries, text, day, g, i)
  PROVE  ScansTo(tries, text, day, n, g)
  BY DEF ScansTo, ScanStep

LEMMA ScanExists ==
  ASSUME NEW tries, NEW text, NEW day, NEW n \in Nat
  PROVE  \E g : ScansTo(tries, text, day, n, g)
<1> DEFINE L == {m \in Nat : \E g : ScansTo(tries, text, day, m, g)}
<1>1. 0 \in L
  <2>1. ScansTo(tries, text, day, 0, [i \in 0..0 |-> [taken |-> {}, found |-> {}]])
    BY DEF ScansTo
  <2>2. QED
    BY <2>1
<1>2. ASSUME NEW m \in L PROVE m + 1 \in L
  <2>1. PICK g : ScansTo(tries, text, day, m, g)
    OBVIOUS
  <2> DEFINE next == AfterTry(g[m], tries[m + 1], text, day)
             h == [i \in 0..(m + 1) |-> IF i = m + 1 THEN next ELSE g[i]]
  <2>2. m \in Nat /\ m + 1 \in Nat
    OBVIOUS
  <2>3. \A i \in 0..m : h[i] = g[i] /\ ScanStep(tries, text, day, g, i)
    <3>1. ASSUME NEW i \in 0..m PROVE h[i] = g[i]
      BY <2>2
    <3>2. ASSUME NEW i \in 0..m PROVE ScanStep(tries, text, day, g, i)
      BY <2>1, <2>2 DEF ScansTo, ScanStep
    <3>3. QED
      BY <3>1, <3>2
  <2>4. /\ h = [i \in 0..(m + 1) |-> h[i]]
        /\ h[m + 1] = next
    BY <2>2
  <2> HIDE DEF h
  <2>5. ASSUME NEW i \in 0..m PROVE ScanStep(tries, text, day, h, i)
    <3>1. CASE i = 0
      BY <2>3, <3>1 DEF ScanStep
    <3>2. CASE i # 0
      <4>1. i - 1 \in 0..m
        BY <2>2, <3>2
      <4>2. QED
        BY <2>3, <4>1 DEF ScanStep
    <3>3. QED
      BY <3>1, <3>2
  <2>6. ScanStep(tries, text, day, h, m + 1)
    <3>1. m + 1 # 0 /\ (m + 1) - 1 = m /\ h[m] = g[m]
      BY <2>2, <2>3
    <3>2. QED
      BY <2>4, <3>1 DEF ScanStep
  <2>7. \A i \in 0..(m + 1) : ScanStep(tries, text, day, h, i)
    <3>1. \A i \in 0..(m + 1) : i \in 0..m \/ i = m + 1
      BY <2>2
    <3>2. QED
      BY <2>5, <2>6, <3>1
  <2>8. QED
    BY <2>2, <2>4, <2>7, ScanEquation
<1> HIDE DEF L
<1>3. L = Nat
  <2>1. L \in SUBSET Nat
    BY DEF L
  <2>2. QED
    BY <1>1, <1>2, <2>1, NatSetInduction
<1>4. QED
  BY <1>3 DEF L

LEMMA TryFindsRanges ==
  ASSUME NEW text, TextOK(text), NEW day \in WorkDays, NEW acc, acc.found \subseteq Ranges,
         NEW try \in ToSet(Matches(text))
  PROVE  AfterTry(acc, try, text, day).found \subseteq Ranges
<1> DEFINE shape == try[1]
           i == try[2]
           last == i + Len(shape) - 1
           w == SubSeq(text, i, last)
           made == Handler(shape, w, day)
<1>1. /\ IsSequence(text) /\ IsList(text) /\ Len(text) \in Nat
      /\ \A j \in 1..Len(text) : WordOK(text[j])
  BY SequenceIsList DEF TextOK
<1>2. shape \in Shapes /\ i \in 1..Len(text) /\ Spans(text, shape, i)
  BY <1>1, MatchesFit
<1>3. Len(shape) \in 1..3
  <2> HIDE DEF shape
  <2>1. \A x, y, z : Len(<<x>>) = 1 /\ Len(<<x, y>>) = 2 /\ Len(<<x, y, z>>) = 3
    OBVIOUS
  <2> QED  BY <1>2, <2>1, ShapesListed
<1>4. Fits(w, shape)
  <2>1. last <= Len(text) /\ \A j \in 1..Len(shape) : text[i + j - 1].is = shape[j]
    BY <1>2 DEF Spans
  <2> HIDE DEF shape, i
  <2>2. i \in Nat /\ 1 <= i /\ i <= Len(text) /\ Len(shape) \in Nat /\ 1 <= Len(shape)
    <3>1. Len(text) \in Nat /\ i \in 1..Len(text)
      BY <1>1, <1>2
    <3>2. Len(shape) \in 1..3
      BY <1>3
    <3> HIDE DEF last, w, made
    <3> QED  BY <3>1, <3>2
  <2>3. \A j \in 1..Len(shape) : i + j - 1 \in 1..Len(text) /\ j \in 1..(last - i + 1)
    BY <1>1, <2>1, <2>2
  <2>4. \A j \in 1..Len(shape) : w[j] = text[i + j - 1]
    <3>1. text \in Seq(ToSet(text))
      BY <1>1 DEF IsList
    <3>2. i \in 1..(Len(text) + 1) /\ last \in (i - 1)..Len(text)
      BY <1>1, <2>1, <2>2
    <3>3. \A j \in 1..(last - i + 1) : w[j] = text[i + j - 1]
      BY <3>1, <3>2, SubSeqProperties
    <3> QED  BY <2>3, <3>3
  <2> HIDE DEF w
  <2> QED  BY <1>1, <2>1, <2>3, <2>4 DEF Fits
<1>5. made \subseteq Ranges
  <2> HIDE DEF shape, w
  <2> QED  BY <1>2, <1>4, ReadingIsARange
<1>6. \/ AfterTry(acc, try, text, day) = acc
      \/ AfterTry(acc, try, text, day) = [taken |-> acc.taken \cup (i..last), found |-> acc.found \cup made]
  BY DEF AfterTry
<1> HIDE DEF made
<1> QED
  BY <1>5, <1>6

LEMMA ScanFindsRanges ==
  ASSUME NEW text, TextOK(text), NEW day \in WorkDays
  PROVE  Scan(text, day) \subseteq Ranges
<1> DEFINE tries == Matches(text)
           g == CHOOSE h : ScansTo(tries, text, day, Len(tries), h)
<1>1. IsList(tries) /\ Len(tries) \in Nat /\ DOMAIN tries = 1..Len(tries)
  <2>1. IsList(tries)
    BY MatchesFit DEF TextOK
  <2> HIDE DEF tries
  <2> QED  BY <2>1 DEF IsList
<1>2. ScansTo(tries, text, day, Len(tries), g)
  <2> HIDE DEF tries
  <2> QED  BY <1>1, ScanExists
<1>3. Scan(text, day) = g[Len(tries)].found
  BY DEF Scan, ScansTo
<1> HIDE DEF tries, g
<1>4. \A n \in 0..Len(tries) : ScanStep(tries, text, day, g, n)
  BY <1>1, <1>2 DEF ScansTo, ScanStep
<1> DEFINE L == {n \in Nat : n <= Len(tries) => g[n].found \subseteq Ranges}
<1>5. 0 \in L
  <2>1. g[0] = [taken |-> {}, found |-> {}]
    BY <1>1, <1>4 DEF ScanStep
  <2> QED  BY <2>1
<1>6. ASSUME NEW n \in L PROVE n + 1 \in L
  <2>1. n \in Nat /\ n + 1 \in Nat
    OBVIOUS
  <2>2. ASSUME n + 1 <= Len(tries) PROVE g[n + 1].found \subseteq Ranges
    <3>1. /\ n <= Len(tries) /\ n + 1 \in 0..Len(tries) /\ n + 1 # 0 /\ (n + 1) - 1 = n
          /\ n + 1 \in 1..Len(tries)
      BY <1>1, <2>1, <2>2
    <3>2. g[n].found \subseteq Ranges
      BY <3>1
    <3>3. tries[n + 1] \in ToSet(Matches(text))
      BY <1>1, <3>1 DEF ToSet, tries
    <3>4. g[n + 1] = AfterTry(g[n], tries[n + 1], text, day)
      BY <1>4, <3>1 DEF ScanStep
    <3> HIDE DEF L
    <3> QED  BY <3>2, <3>3, <3>4, TryFindsRanges
  <2> QED  BY <2>1, <2>2
<1> HIDE DEF L
<1>7. L = Nat
  <2>1. L \in SUBSET Nat
    BY DEF L
  <2> QED  BY <1>5, <1>6, <2>1, NatSetInduction
<1>8. Len(tries) \in L /\ Len(tries) <= Len(tries)
  BY <1>1, <1>7
<1> QED
  BY <1>3, <1>8 DEF L

\* A period that is found or parsed, and not refused, is a range that ends
\* no sooner than it begins.
GoodPeriods == {p \in Int \X Int : 1 <= p[1] /\ p[1] <= p[2]}

LEMMA PeriodsAreGood ==
  ASSUME NEW text, TextOK(text), NEW day \in WorkDays
  PROVE  /\ FindPeriod(text, day) = {Refused} \/ FindPeriod(text, day) \subseteq GoodPeriods
         /\ ParsePeriod(text, day) = {Refused} \/ ParsePeriod(text, day) \subseteq GoodPeriods
<1>1. Scan(text, day) \subseteq Ranges
  BY ScanFindsRanges
<1>2. (\A p \in Scan(text, day) : ~Raises(p)) => Scan(text, day) \subseteq GoodPeriods
  <2>1. ASSUME NEW p \in Ranges, ~Raises(p) PROVE p \in GoodPeriods
    BY <2>1 DEF Ranges, Raises, GoodPeriods
  <2> QED  BY <1>1, <2>1
<1>3. AtMostOne(Scan(text, day)) = {Refused} \/ AtMostOne(Scan(text, day)) \subseteq GoodPeriods
  BY <1>2 DEF AtMostOne
<1>4. FindPeriod(text, day) = {Refused} \/ FindPeriod(text, day) \subseteq GoodPeriods
  BY <1>3 DEF FindPeriod
<1>5. ParsePeriod(text, day) = {Refused} \/ ParsePeriod(text, day) = FindPeriod(text, day)
  BY DEF ParsePeriod, Stated
<1> QED
  BY <1>4, <1>5

-----------------------------------------------------------------------------
(* Definitions as sets of rules: what adding rules to one makes of it, and    *)
(* that a key's value is the value of one of its rules.                       *)

IsDef(d) ==
  /\ d = [metric |-> d.metric, rules |-> d.rules, missing |-> d.missing,
          candidates |-> d.candidates]
  /\ IsList(d.rules)
RulesOf(d) == ToSet(d.rules)
KeysIn(rules) == {r.key : r \in ToSet(rules)}

LEMMA ListFacts ==
  ASSUME NEW s, IsList(s)
  PROVE  /\ DOMAIN s = 1..Len(s) /\ Len(s) \in Nat
         /\ ToSet(s) = {s[i] : i \in 1..Len(s)} /\ \A i \in 1..Len(s) : s[i] \in ToSet(s)
<1>1. s \in Seq(ToSet(s))
  BY DEF IsList
<1>2. DOMAIN s = 1..Len(s) /\ Len(s) \in Nat /\ ToSet(s) = {s[i] : i \in 1..Len(s)}
  BY <1>1, OfAType
<1> QED
  BY <1>2

LEMMA KeysAreThose ==
  ASSUME NEW s, IsList(s)
  PROVE  {s[i].key : i \in DOMAIN s} = KeysIn(s)
  BY ListFacts DEF KeysIn

LEMMA WithRulesFacts ==
  ASSUME NEW d, IsDef(d), NEW added, IsList(added)
  PROVE  /\ IsDef(WithRules(d, added))
         /\ WithRules(d, added).metric = d.metric
         /\ WithRules(d, added).candidates = d.candidates
         /\ WithRules(d, added).missing = d.missing \ KeysIn(added)
         /\ RulesOf(WithRules(d, added))
              = {r \in RulesOf(d) : r.key \notin KeysIn(added)} \cup ToSet(added)
<1> DEFINE keys == {added[i].key : i \in DOMAIN added}
           I == {i \in 1..Len(d.rules) : d.rules[i].key \notin keys}
           kept == Picked(d.rules, I)
           new == kept \o added
<1>1. keys = KeysIn(added)
  BY KeysAreThose
<1>2. WithRules(d, added) = [d EXCEPT !.rules = new, !.missing = d.missing \ keys]
  BY DEF WithRules, Where
<1>3. IsList(d.rules) /\ I \in SUBSET (1..Len(d.rules))
  BY DEF IsDef
<1> HIDE DEF keys
<1>4. IsList(kept) /\ ToSet(kept) = {d.rules[i] : i \in I}
  <2> HIDE DEF I
  <2> QED  BY <1>3, PickedElements
<1>5. {d.rules[i] : i \in I} = {r \in RulesOf(d) : r.key \notin keys}
  <2>1. RulesOf(d) = {d.rules[i] : i \in 1..Len(d.rules)}
    BY <1>3, ListFacts DEF RulesOf
  <2> QED  BY <2>1
<1> HIDE DEF I, kept
<1>6. IsList(new) /\ ToSet(new) = ToSet(kept) \cup ToSet(added)
  BY <1>4, Joined
<1> HIDE DEF new
<1>7. WithRules(d, added) = [metric |-> d.metric, rules |-> new, missing |-> d.missing \ keys,
                             candidates |-> d.candidates]
  BY <1>2 DEF IsDef
<1> QED
  BY <1>1, <1>4, <1>5, <1>6, <1>7 DEF IsDef, RulesOf

LEMMA HasRuleMeans ==
  ASSUME NEW d, IsDef(d), NEW key
  PROVE  /\ HasRule(d, key) <=> \E r \in RulesOf(d) : r.key = key
         /\ Keys(d) = {r.key : r \in RulesOf(d)}
<1>1. RulesOf(d) = {d.rules[i] : i \in 1..Len(d.rules)} /\ DOMAIN d.rules = 1..Len(d.rules)
  BY ListFacts DEF RulesOf, IsDef
<1> QED
  BY <1>1 DEF HasRule, Keys

LEMMA ValueIsOfARule ==
  ASSUME NEW d, IsDef(d), NEW key, HasRule(d, key)
  PROVE  /\ Head(RuleAt(d, key)) \in RulesOf(d) /\ Head(RuleAt(d, key)).key = key
         /\ Value(d, key) = Head(RuleAt(d, key)).value
<1> DEFINE I == {i \in 1..Len(d.rules) : d.rules[i].key = key}
           at == Picked(d.rules, I)
<1>1. RuleAt(d, key) = at /\ Value(d, key) = Head(at).value
  BY DEF RuleAt, Where, Value
<1>2. IsList(d.rules) /\ I \in SUBSET (1..Len(d.rules))
  BY DEF IsDef
<1>3. /\ RulesOf(d) = {d.rules[i] : i \in 1..Len(d.rules)}
      /\ DOMAIN d.rules = 1..Len(d.rules)
  BY <1>2, ListFacts DEF RulesOf
<1>4. IsList(at) /\ ToSet(at) = {d.rules[i] : i \in I}
  <2> HIDE DEF I
  <2> QED  BY <1>2, PickedElements
<1>5. I # {} /\ \A x \in {d.rules[i] : i \in I} : x.key = key /\ x \in RulesOf(d)
  BY <1>3 DEF HasRule, Keys
<1> HIDE DEF I, at
<1>6. Len(at) \in Nat /\ ToSet(at) = {at[i] : i \in 1..Len(at)}
  BY <1>4, ListFacts
<1>7. 1 \in 1..Len(at)
  <2>1. PICK i \in I : TRUE
    BY <1>5
  <2>2. d.rules[i] \in ToSet(at)
    BY <1>4, <2>1
  <2>3. \E j \in 1..Len(at) : at[j] = d.rules[i]
    BY <1>6, <2>2
  <2> QED  BY <1>6, <2>3
<1>8. Head(at) = at[1] /\ at[1] \in ToSet(at)
  BY <1>4, <1>6, <1>7 DEF IsList
<1> QED
  BY <1>1, <1>4, <1>5, <1>8

-----------------------------------------------------------------------------
(* Finite sets: as sequences, as what a function makes of one, their last and *)
(* first position.                                                            *)

LEMMA AsSequence ==
  ASSUME NEW S, IsFiniteSet(S)
  PROVE  IsList(SetToSeq(S)) /\ ToSet(SetToSeq(S)) \subseteq S
<1>1. Cardinality(S) \in Nat /\ ExistsBijection(1..Cardinality(S), S)
  BY FS_CardinalityType
<1>2. \E f \in [1..Cardinality(S) -> S] : IsInjective(f)
  BY <1>1 DEF ExistsBijection, Bijection, Injection, IsInjective
<1>3. SetToSeq(S) \in [1..Cardinality(S) -> S]
  BY <1>2 DEF SetToSeq
<1>4. SetToSeq(S) \in Seq(S)
  BY <1>1, <1>3
<1> QED
  BY <1>4, OfAType

LEMMA FiniteImage ==
  ASSUME NEW S, IsFiniteSet(S), NEW f, DOMAIN f = S, f = [x \in S |-> f[x]]
  PROVE  IsFiniteSet({f[x] : x \in S})
<1> DEFINE T == {f[x] : x \in S}
<1>1. f \in [S -> T] /\ \A t \in T : \E x \in S : f[x] = t
  OBVIOUS
<1>2. f \in Surjection(S, T)
  BY <1>1 DEF Surjection
<1> QED
  BY <1>2, FS_Surjection

LEMMA LargestPosition ==
  ASSUME NEW n \in Nat, NEW P \in SUBSET (1..n), P # {}
  PROVE  Max(P) \in P /\ \A j \in P : j <= Max(P)
<1>1. \E k \in P : \A j \in P : k >= j
  BY LastPosition
<1>2. Max(P) \in P /\ \A j \in P : Max(P) >= j
  BY <1>1 DEF Max
<1> QED
  BY <1>2

LEMMA FirstPosition ==
  ASSUME NEW n \in Nat, NEW P \in SUBSET (1..n), P # {}
  PROVE  \E k \in P : \A j \in P : k <= j
<1> DEFINE Q == {i \in 1..n : n + 1 - i \in P}
<1>1. Q \in SUBSET (1..n) /\ \A j \in P : n + 1 - j \in Q
  OBVIOUS
<1>2. Q # {}
  BY <1>1
<1>3. PICK k \in Q : \A j \in Q : j <= k
  <2> HIDE DEF Q
  <2> QED  BY <1>1, <1>2, LastPosition
<1>4. \A j \in P : n + 1 - k <= j
  BY <1>1, <1>3
<1>5. n + 1 - k \in P
  OBVIOUS
<1> QED
  BY <1>4, <1>5

-----------------------------------------------------------------------------
(* What is read from a question. *)

\* What every definition on a sheet is made of.
DefOK(d) ==
  /\ IsDef(d)
  /\ IsFiniteSet(d.candidates)
  /\ \A c \in d.candidates : c.key \in AllowedKeys \cup {"variant"}
  /\ \A r \in RulesOf(d) : r.key = "period" => r.value \in GoodPeriods

OwnRules == {"period", "group_by", "filter"}
BaseOK(d) ==
  /\ DefOK(d)
  /\ \A r \in RulesOf(d) : r.source = "user" /\ r.key \in OwnRules
  /\ \A c \in d.candidates : c.key = "variant" /\ c.implies = {}

LEMMA FirstDefinition ==
  ASSUME NEW m \in DOMAIN Metrics
  PROVE  BaseOK(DefinitionFor(m)) /\ DefinitionFor(m).metric = m
<1> DEFINE d == DefinitionFor(m)
           vs == Metrics[m].variants
           f == [v \in vs |-> Candidate("variant", v, NoRef, {})]
<1>1. IsFiniteSet(vs)
  BY DefinitionsAssumption
<1>2. IsFiniteSet({f[v] : v \in vs})
  <2>1. DOMAIN f = vs /\ f = [v \in vs |-> f[v]]
    OBVIOUS
  <2> HIDE DEF f, vs
  <2> QED  BY <1>1, <2>1, FiniteImage
<1>3. d.candidates = {f[v] : v \in vs}
  BY DEF DefinitionFor
<1>7. IsFiniteSet(d.candidates)
  BY <1>2, <1>3
<1>4. \A c \in d.candidates : c.key = "variant" /\ c.implies = {}
  BY DEF DefinitionFor, Candidate
<1>5. d.rules = <<>> /\ IsList(d.rules) /\ RulesOf(d) = {}
  BY SingleList DEF DefinitionFor, RulesOf
<1>6. /\ d = [metric |-> d.metric, rules |-> d.rules, missing |-> d.missing,
              candidates |-> d.candidates]
      /\ d.metric = m
  BY DEF DefinitionFor
<1> HIDE DEF d
<1>8. IsDef(d)
  BY <1>5, <1>6 DEF IsDef
<1>9. DefOK(d)
  BY <1>4, <1>5, <1>7, <1>8 DEF DefOK
<1>10. BaseOK(d) /\ d.metric = m
  BY <1>4, <1>5, <1>6, <1>9 DEF BaseOK
<1> QED
  BY <1>10 DEF d

LEMMA RuleFields ==
  ASSUME NEW k, NEW v, NEW s, NEW f, NEW i
  PROVE  /\ Rule(k, v, s, f, i).key = k /\ Rule(k, v, s, f, i).value = v
         /\ Rule(k, v, s, f, i).source = s /\ Rule(k, v, s, f, i).ref = f
         /\ Rule(k, v, s, f, i).implies = i
  BY DEF Rule

LEMMA ReadIsBase ==
  ASSUME NEW d, BaseOK(d), NEW key \in OwnRules, NEW found, NEW refused,
         key = "period" => found = {refused} \/ found \subseteq GoodPeriods
  PROVE  /\ BaseOK(Read(d, key, found, refused))
         /\ Read(d, key, found, refused).metric = d.metric
         /\ Read(d, key, found, refused).candidates = d.candidates
<1>1. CASE found = {}
  BY <1>1 DEF Read
<1>2. CASE found = {refused}
  <2> DEFINE e == [d EXCEPT !.missing = d.missing \cup {key}]
  <2>1. Read(d, key, found, refused) = e
    BY <1>2 DEF Read
  <2>2. e = [metric |-> d.metric, rules |-> d.rules, missing |-> d.missing \cup {key},
             candidates |-> d.candidates]
    <3>1. IsDef(d)
      BY DEF BaseOK, DefOK
    <3> QED  BY <3>1 DEF IsDef
  <2> HIDE DEF e
  <2> QED  BY <2>1, <2>2 DEF BaseOK, DefOK, IsDef, RulesOf
<1>3. CASE found # {} /\ found # {refused}
  <2> DEFINE v == CHOOSE x \in found : TRUE
             r == Rule(key, v, "user", NoRef, {})
             e == WithRules(d, <<r>>)
  <2>1. Read(d, key, found, refused) = e
    BY <1>3 DEF Read
  <2>2. key = "period" => v \in GoodPeriods
    BY <1>3
  <2> HIDE DEF v
  <2>3. r.key = key /\ r.source = "user" /\ r.value = v
    BY RuleFields
  <2> HIDE DEF r
  <2>4. IsList(<<r>>) /\ ToSet(<<r>>) = {r}
    BY SingleList
  <2>5. IsDef(d)
    BY DEF BaseOK, DefOK
  <2>6. /\ IsDef(e) /\ e.metric = d.metric /\ e.candidates = d.candidates
        /\ RulesOf(e) = {x \in RulesOf(d) : x.key \notin KeysIn(<<r>>)} \cup {r}
    BY <2>4, <2>5, WithRulesFacts
  <2> HIDE DEF e
  <2> QED  BY <2>1, <2>2, <2>3, <2>6 DEF BaseOK, DefOK
<1> QED
  BY <1>1, <1>2, <1>3

LEMMA BaseIsRead ==
  ASSUME NEW text, TextOK(text), MetricNamed(text) # {}, NEW day \in WorkDays
  PROVE  /\ BaseOK(Base(text, day))
         /\ Base(text, day).metric \in DOMAIN Metrics
<1> DEFINE m == CHOOSE x \in MetricNamed(text) : TRUE
           d0 == DefinitionFor(m)
           d1 == Read(d0, "period", FindPeriod(text, day), Refused)
           d2 == Read(d1, "group_by", FindGrouping(text), Unclear)
           d3 == Read(d2, "filter", FindFilter(text), Unclear)
<1>1. Base(text, day) = d3
  BY DEF Base
<1>2. m \in DOMAIN Metrics
  <2>1. m \in MetricNamed(text)
    OBVIOUS
  <2>2. DOMAIN text = 1..Len(text) /\ \A i \in 1..Len(text) : WordOK(text[i])
    BY SequenceIsList DEF TextOK
  <2>3. \A i \in 1..Len(text) : At(text, i) = "metric" => text[i].metric \in DOMAIN Metrics
    BY <2>2 DEF At, WordOK
  <2> HIDE DEF m
  <2> QED  BY <2>1, <2>3 DEF MetricNamed
<1> HIDE DEF m
<1>3. BaseOK(d0) /\ d0.metric = m
  BY <1>2, FirstDefinition
<1>4. "period" \in OwnRules /\ "group_by" \in OwnRules /\ "filter" \in OwnRules
  BY DEF OwnRules
<1> HIDE DEF d0
<1>5. BaseOK(d1) /\ d1.metric = m
  BY <1>3, <1>4, PeriodsAreGood, ReadIsBase
<1> HIDE DEF d1
<1>6. BaseOK(d2) /\ d2.metric = m
  BY <1>4, <1>5, ReadIsBase
<1> HIDE DEF d2
<1>7. BaseOK(d3) /\ d3.metric = m
  BY <1>4, <1>6, ReadIsBase
<1> HIDE DEF d3
<1> QED
  BY <1>1, <1>2, <1>7

-----------------------------------------------------------------------------
(* What the documents say.  A claim counts when it is grounded in an excerpt  *)
(* that was shown, and of those with one key and value the last one does.     *)

ShownOf(out, gone) ==
  Where(out, LAMBDA p : p.citation \in DOMAIN Menu => Menu[p.citation].doc \notin gone)
CountsIn(p, gone) == Grounded(p) /\ Menu[p.citation].doc \notin gone
ClaimsOf(out, gone) ==
  {out[i] : i \in {j \in DOMAIN out :
        /\ CountsIn(out[j], gone)
        /\ \A k \in (j + 1)..Len(out) :
              CountsIn(out[k], gone) => out[k].key # out[j].key \/ out[k].value # out[j].value}}
DocRule(templates, metric, p) ==
  Rule(p.key, p.value, "doc", <<Menu[p.citation].doc, p.quote>>,
       Implied(templates, metric, p.key, p.quote))

\* The claims that count are kept, in their order.
KeptAs(out, gone, kept, h) ==
  /\ h \in [1..Len(kept) -> {j \in 1..Len(out) : CountsIn(out[j], gone)}]
  /\ \A i \in 1..Len(kept) : kept[i] = out[h[i]]
  /\ \A i, j \in 1..Len(kept) : i < j => h[i] < h[j]
  /\ \A j \in 1..Len(out) : CountsIn(out[j], gone) => \E i \in 1..Len(kept) : h[i] = j

LEMMA KeptInOrder ==
  ASSUME NEW out, IsSequence(out), NEW gone
  PROVE  /\ IsList(Where(ShownOf(out, gone), Grounded))
         /\ \E h : KeptAs(out, gone, Where(ShownOf(out, gone), Grounded), h)
<1> DEFINE S == {j \in 1..Len(out) : out[j].citation \in DOMAIN Menu
                                         => Menu[out[j].citation].doc \notin gone}
           shown == Picked(out, S)
           G == {j \in 1..Len(shown) : Grounded(shown[j])}
           kept == Picked(shown, G)
<1>1. ShownOf(out, gone) = shown /\ Where(shown, Grounded) = kept
  BY DEF ShownOf, Where
<1>2. out \in Seq(ToSet(out)) /\ Len(out) \in Nat
  BY SequenceIsList DEF IsList
<1>3. shown \in Seq(ToSet(out)) /\ \E f : InOrder(out, S, Len(out), shown, f)
  <2> HIDE DEF S
  <2> QED  BY <1>2, PickedFacts
<1>4. PICK f : InOrder(out, S, Len(out), shown, f)
  BY <1>3
<1>5. /\ \A j \in 1..Len(out) : j \in S <=> (out[j].citation \in DOMAIN Menu
                                              => Menu[out[j].citation].doc \notin gone)
      /\ S \subseteq 1..Len(out)
  OBVIOUS
<1> HIDE DEF S
<1>6. Len(shown) \in Nat
  BY <1>3
<1> HIDE DEF shown
<1>7. kept \in Seq(ToSet(out)) /\ \E g : InOrder(shown, G, Len(shown), kept, g)
  <2> HIDE DEF G
  <2> QED  BY <1>3, PickedFacts
<1>8. PICK g : InOrder(shown, G, Len(shown), kept, g)
  BY <1>7
<1>9. \A j \in 1..Len(shown) : j \in G <=> Grounded(shown[j])
  OBVIOUS
<1> HIDE DEF G
<1>10. Len(kept) \in Nat
  BY <1>7
<1> HIDE DEF kept
<1>11. IsList(kept)
  BY <1>7, OfAType
<1> DEFINE h == [i \in 1..Len(kept) |-> f[g[i]]]
<1>12. /\ \A i \in 1..Len(kept) : g[i] \in G /\ g[i] \in 1..Len(shown) /\ kept[i] = shown[g[i]]
       /\ \A i, j \in 1..Len(kept) : i < j => g[i] < g[j]
       /\ \A j \in 1..Len(shown) : j \in G => \E i \in 1..Len(kept) : g[i] = j
  BY <1>8 DEF InOrder
<1>13. /\ \A i \in 1..Len(shown) : f[i] \in S /\ f[i] \in 1..Len(out) /\ shown[i] = out[f[i]]
       /\ \A i, j \in 1..Len(shown) : i < j => f[i] < f[j]
       /\ \A j \in 1..Len(out) : j \in S => \E i \in 1..Len(shown) : f[i] = j
  BY <1>4 DEF InOrder
<1>14. ASSUME NEW i \in 1..Len(kept)
       PROVE  h[i] \in 1..Len(out) /\ kept[i] = out[h[i]] /\ CountsIn(out[h[i]], gone)
  <2>1. h[i] = f[g[i]] /\ g[i] \in G /\ g[i] \in 1..Len(shown) /\ kept[i] = shown[g[i]]
    BY <1>12
  <2>2. h[i] \in S /\ h[i] \in 1..Len(out) /\ kept[i] = out[h[i]] /\ Grounded(out[h[i]])
    BY <1>9, <1>13, <2>1
  <2> HIDE DEF h
  <2>3. out[h[i]].citation \in DOMAIN Menu
    BY <2>2 DEF Grounded
  <2> QED  BY <1>5, <2>2, <2>3 DEF CountsIn
<1>15. ASSUME NEW i \in 1..Len(kept), NEW j \in 1..Len(kept), i < j PROVE h[i] < h[j]
  BY <1>12, <1>13, <1>15
<1>16. ASSUME NEW j \in 1..Len(out), CountsIn(out[j], gone)
       PROVE  \E i \in 1..Len(kept) : h[i] = j
  <2>1. j \in S
    BY <1>5, <1>16 DEF CountsIn
  <2>2. PICK k \in 1..Len(shown) : f[k] = j
    BY <1>13, <2>1
  <2>3. k \in G
    BY <1>9, <1>13, <1>16, <2>2 DEF CountsIn
  <2>4. PICK i \in 1..Len(kept) : g[i] = k
    BY <1>12, <2>3
  <2> QED  BY <2>2, <2>4
<1>17. h = [i \in 1..Len(kept) |-> h[i]]
  OBVIOUS
<1> HIDE DEF h
<1>18. h \in [1..Len(kept) -> {j \in 1..Len(out) : CountsIn(out[j], gone)}]
  BY <1>14, <1>17
<1>19. KeptAs(out, gone, kept, h)
  BY <1>14, <1>15, <1>16, <1>18 DEF KeptAs
<1> QED
  BY <1>1, <1>11, <1>19

\* Of a list that a function makes of another, position by position.
LEMMA MappedList ==
  ASSUME NEW n \in Nat, NEW t, t = [i \in 1..n |-> t[i]]
  PROVE  IsList(t) /\ Len(t) = n /\ DOMAIN t = 1..n /\ ToSet(t) = {t[i] : i \in 1..n}
<1> DEFINE T == {t[i] : i \in 1..n}
<1>1. DOMAIN t = 1..n /\ \A i \in 1..n : t[i] \in T
  OBVIOUS
<1> HIDE DEF T
<1>2. t \in [1..n -> T]
  BY <1>1
<1>3. t \in Seq(T) /\ Len(t) = n
  BY <1>2
<1> QED
  BY <1>1, <1>3, OfAType DEF T

LEMMA ExtractedIsList ==
  ASSUME NEW templates, NEW metric, NEW out, IsSequence(out), NEW gone
  PROVE  LET X == Extracted(templates, metric, ShownOf(out, gone))
             kept == Where(ShownOf(out, gone), Grounded)
         IN /\ IsList(X) /\ Len(X) = Len(kept) /\ DOMAIN X = 1..Len(kept)
            /\ \A i \in 1..Len(kept) : X[i] = DocRule(templates, metric, kept[i])
<1> DEFINE kept == Where(ShownOf(out, gone), Grounded)
           X == [i \in 1..Len(kept) |-> DocRule(templates, metric, kept[i])]
<1>1. IsList(kept)
  BY KeptInOrder
<1>2. DOMAIN kept = 1..Len(kept) /\ Len(kept) \in Nat
  <2> HIDE DEF kept
  <2> QED  BY <1>1, ListFacts
<1>3. Extracted(templates, metric, ShownOf(out, gone)) = X
  BY <1>2 DEF Extracted, DocRule
<1> HIDE DEF kept
<1>4. X = [i \in 1..Len(kept) |-> X[i]] /\ \A i \in 1..Len(kept) : X[i] = DocRule(templates, metric, kept[i])
  OBVIOUS
<1> HIDE DEF X
<1>5. IsList(X) /\ Len(X) = Len(kept) /\ DOMAIN X = 1..Len(kept)
  BY <1>2, <1>4, MappedList
<1> QED
  BY <1>3, <1>4, <1>5 DEF kept

\* What is extracted says what the claims say, and the last to say it is one.
SaysTheClaims(templates, metric, X, C) ==
  /\ IsList(X)
  /\ \A i \in DOMAIN X : \E p \in C : p.key = X[i].key /\ p.value = X[i].value
  /\ \A p \in C : /\ \E i \in DOMAIN X : X[i].key = p.key /\ X[i].value = p.value
                  /\ LastSaying(X, p.key, p.value) = DocRule(templates, metric, p)

LEMMA ExtractedSaysTheClaims ==
  ASSUME NEW templates, NEW metric, NEW out, IsSequence(out), NEW gone
  PROVE  SaysTheClaims(templates, metric, Extracted(templates, metric, ShownOf(out, gone)),
                       ClaimsOf(out, gone))
<1> DEFINE kept == Where(ShownOf(out, gone), Grounded)
           n == Len(kept)
           X == Extracted(templates, metric, ShownOf(out, gone))
           C == ClaimsOf(out, gone)
<1>1. IsList(kept) /\ \E g : KeptAs(out, gone, kept, g)
  BY KeptInOrder
<1>2. PICK h : KeptAs(out, gone, kept, h)
  BY <1>1
<1>3. /\ IsList(X) /\ DOMAIN X = 1..n
      /\ \A i \in 1..n : X[i] = DocRule(templates, metric, kept[i])
  BY ExtractedIsList
<1> HIDE DEF kept
<1>4. n \in Nat
  BY <1>1, ListFacts
<1>5. Len(out) \in Nat /\ DOMAIN out = 1..Len(out)
  BY SequenceIsList
<1>6. /\ \A i \in 1..n : /\ h[i] \in 1..Len(out) /\ CountsIn(out[h[i]], gone)
                         /\ kept[i] = out[h[i]]
      /\ \A i, j \in 1..n : i < j => h[i] < h[j]
      /\ \A j \in 1..Len(out) : CountsIn(out[j], gone) => \E i \in 1..n : h[i] = j
  BY <1>2 DEF KeptAs
<1> HIDE DEF X, n
<1>7. \A i \in 1..n : X[i].key = out[h[i]].key /\ X[i].value = out[h[i]].value
  <2>1. \A p : DocRule(templates, metric, p).key = p.key /\ DocRule(templates, metric, p).value = p.value
    BY RuleFields DEF DocRule
  <2>2. \A i \in 1..n : X[i] = DocRule(templates, metric, kept[i]) /\ kept[i] = out[h[i]]
    BY <1>3, <1>6
  <2> QED  BY <2>1, <2>2
<1> DEFINE At_(key, value) == {i \in 1..n : X[i].key = key /\ X[i].value = value}
<1>8. ASSUME NEW key, NEW value, At_(key, value) # {}
      PROVE  \E m \in At_(key, value) : /\ Max(At_(key, value)) = m
                                        /\ \A j \in At_(key, value) : j <= m
  <2>1. At_(key, value) \in SUBSET (1..n)
    OBVIOUS
  <2> HIDE DEF At_
  <2> QED  BY <1>4, <1>8, <2>1, LargestPosition
<1>9. ASSUME NEW key, NEW value, NEW m \in At_(key, value), \A j \in At_(key, value) : j <= m
      PROVE  out[h[m]] \in C /\ out[h[m]].key = key /\ out[h[m]].value = value
  <2>1. m \in 1..n /\ out[h[m]].key = key /\ out[h[m]].value = value
    BY <1>7
  <2>2. ASSUME NEW k \in (h[m] + 1)..Len(out), CountsIn(out[k], gone)
        PROVE  out[k].key # key \/ out[k].value # value
    <3>1. k \in 1..Len(out) /\ h[m] < k
      BY <1>5, <1>6, <2>1
    <3>2. PICK i \in 1..n : h[i] = k
      BY <1>6, <2>2, <3>1
    <3>3. ~(i <= m)
      <4>1. i < m => h[i] < h[m]
        BY <1>6, <2>1
      <4>2. h[m] \in Nat /\ h[i] \in Nat /\ i \in Nat /\ m \in Nat
        BY <1>5, <1>6, <2>1, <1>4
      <4> QED  BY <3>1, <3>2, <4>1, <4>2
    <3>4. i \notin At_(key, value)
      BY <1>9, <3>3
    <3> QED  BY <1>7, <3>2, <3>4
  <2>3. h[m] \in DOMAIN out /\ CountsIn(out[h[m]], gone)
    BY <1>5, <1>6, <2>1
  <2> HIDE DEF At_
  <2>4. out[h[m]] \in C
    BY <2>1, <2>2, <2>3 DEF ClaimsOf
  <2> QED  BY <2>1, <2>4
<1>10. ASSUME NEW i \in 1..n PROVE \E p \in C : p.key = X[i].key /\ p.value = X[i].value
  <2>1. i \in At_(X[i].key, X[i].value)
    OBVIOUS
  <2>2. PICK m \in At_(X[i].key, X[i].value) : \A j \in At_(X[i].key, X[i].value) : j <= m
    <3> HIDE DEF At_
    <3> QED  BY <1>8, <2>1
  <2>3. out[h[m]] \in C /\ out[h[m]].key = X[i].key /\ out[h[m]].value = X[i].value
    <3> HIDE DEF At_, C
    <3> QED  BY <1>9, <2>2
  <2> QED  BY <2>3
<1>11. ASSUME NEW p \in C
       PROVE  /\ \E i \in 1..n : X[i].key = p.key /\ X[i].value = p.value
              /\ LastSaying(X, p.key, p.value) = DocRule(templates, metric, p)
  <2>1. PICK j \in 1..Len(out) :
          /\ p = out[j] /\ CountsIn(out[j], gone)
          /\ \A k \in (j + 1)..Len(out) :
               CountsIn(out[k], gone) => out[k].key # out[j].key \/ out[k].value # out[j].value
    BY <1>5 DEF ClaimsOf
  <2>2. PICK i \in 1..n : h[i] = j
    BY <1>6, <2>1
  <2>3. X[i].key = p.key /\ X[i].value = p.value /\ i \in At_(p.key, p.value)
    BY <1>7, <2>1, <2>2
  <2>4. PICK m \in At_(p.key, p.value) : /\ Max(At_(p.key, p.value)) = m
                                        /\ \A l \in At_(p.key, p.value) : l <= m
    <3> HIDE DEF At_
    <3> QED  BY <1>8, <2>3
  <2>5. m \in 1..n /\ i <= m /\ out[h[m]].key = p.key /\ out[h[m]].value = p.value
    BY <1>7, <2>3, <2>4
  <2>6. h[m] = j
    <3>1. i < m => h[i] < h[m]
      BY <1>6, <2>5
    <3>2. h[m] \in 1..Len(out) /\ CountsIn(out[h[m]], gone)
      BY <1>6, <2>5
    <3>3. h[m] \notin (j + 1)..Len(out)
      BY <2>1, <2>5, <3>2
    <3> QED  BY <1>4, <1>5, <2>1, <2>2, <2>5, <3>1, <3>2, <3>3
  <2>7. LastSaying(X, p.key, p.value) = X[m]
    BY <1>3, <2>4 DEF LastSaying, n
  <2>8. X[m] = DocRule(templates, metric, out[h[m]])
    BY <1>3, <1>6, <2>5 DEF n
  <2> QED  BY <2>1, <2>3, <2>6, <2>7, <2>8
<1>12. DOMAIN X = 1..n
  BY <1>3
<1> QED
  <2> HIDE DEF C
  <2>1. SaysTheClaims(templates, metric, X, C)
    BY <1>3, <1>10, <1>11, <1>12 DEF SaysTheClaims
  <2> QED  BY <2>1 DEF X, C

\* Two claims speak differently about a rule.
Disputed(C, key) == \E p, q \in C : p.key = key /\ q.key = key /\ p.value # q.value
DocCandidate(templates, metric, p) ==
  Candidate(p.key, p.value, <<Menu[p.citation].doc, p.quote>>,
            Implied(templates, metric, p.key, p.quote))

\* One wording states a rule, several are candidates for an open one.
StatesTheClaims(templates, metric, base, C, d) ==
  /\ \A r \in RulesOf(d) : \/ r \in RulesOf(base)
                           \/ \E p \in C : /\ r = DocRule(templates, metric, p)
                                           /\ ~Disputed(C, p.key)
  /\ \A p \in C : ~Disputed(C, p.key) => DocRule(templates, metric, p) \in RulesOf(d)
  /\ \A p \in C : Disputed(C, p.key) =>
                    p.key \in d.missing /\ DocCandidate(templates, metric, p) \in d.candidates

\* The values X has for a key, and whether it is their only one.
SayingOf(X, key) == {X[i].value : i \in {j \in DOMAIN X : X[j].key = key}}

LEMMA SayingFacts ==
  ASSUME NEW templates, NEW metric, NEW X, NEW C, SaysTheClaims(templates, metric, X, C),
         NEW key
  PROVE  /\ SayingOf(X, key) = {p.value : p \in {q \in C : q.key = key}}
         /\ IsFiniteSet(SayingOf(X, key))
         /\ (\E p \in C : p.key = key) /\ ~Disputed(C, key) => Cardinality(SayingOf(X, key)) = 1
         /\ Cardinality(SayingOf(X, key)) = 1 => ~Disputed(C, key)
         /\ Disputed(C, key) => Cardinality(SayingOf(X, key)) > 1
<1> DEFINE V == SayingOf(X, key)
<1>1. V = {p.value : p \in {q \in C : q.key = key}}
  <2>1. ASSUME NEW i \in DOMAIN X, X[i].key = key
        PROVE  X[i].value \in {p.value : p \in {q \in C : q.key = key}}
    BY <2>1 DEF SaysTheClaims
  <2>2. ASSUME NEW p \in C, p.key = key PROVE p.value \in V
    BY <2>2 DEF SaysTheClaims, SayingOf
  <2> QED  BY <2>1, <2>2 DEF SayingOf
<1>2. IsFiniteSet(V)
  <2>1. DOMAIN X = 1..Len(X) /\ Len(X) \in Nat
    BY ListFacts DEF SaysTheClaims
  <2> DEFINE S == {j \in DOMAIN X : X[j].key = key}
             f == [i \in S |-> X[i].value]
  <2>2. IsFiniteSet(S)
    <3>1. IsFiniteSet(1..Len(X))
      BY <2>1, FS_Interval
    <3>2. S \in SUBSET (1..Len(X))
      BY <2>1
    <3> HIDE DEF S
    <3> QED  BY <3>1, <3>2, FS_Subset
  <2>3. DOMAIN f = S /\ f = [i \in S |-> f[i]] /\ V = {f[i] : i \in S}
    BY DEF SayingOf
  <2> HIDE DEF f, S, V
  <2> QED  BY <2>2, <2>3, FiniteImage
<1> HIDE DEF V
<1>3. Cardinality(V) \in Nat /\ (Cardinality(V) = 0 <=> V = {}) /\ (Cardinality(V) = 1 <=> \E x : V = {x})
  BY <1>2, FS_CardinalityType, FS_EmptySet, FS_Singleton
<1>4. ASSUME NEW p \in C, p.key = key, ~Disputed(C, key) PROVE Cardinality(V) = 1
  <2>1. V = {p.value}
    BY <1>1, <1>4 DEF Disputed
  <2> QED  BY <1>3, <2>1
<1>5. ASSUME Disputed(C, key) PROVE Cardinality(V) # 1 /\ Cardinality(V) # 0
  <2>1. PICK p \in C, q \in C : p.key = key /\ q.key = key /\ p.value # q.value
    BY <1>5 DEF Disputed
  <2>2. p.value \in V /\ q.value \in V
    BY <1>1, <2>1
  <2> QED  BY <1>3, <2>1, <2>2
<1>6. Disputed(C, key) => Cardinality(V) > 1
  BY <1>3, <1>5
<1>7. Cardinality(V) = 1 => ~Disputed(C, key)
  BY <1>5
<1>8. (\E p \in C : p.key = key) /\ ~Disputed(C, key) => Cardinality(V) = 1
  BY <1>4
<1> QED
  BY <1>1, <1>2, <1>6, <1>7, <1>8 DEF V

\* The rules that are added: for each agreed key the last to state it.
AgreedKeys(base, X) ==
  {key \in {X[i].key : i \in DOMAIN X} \ Keys(base) : Cardinality(SayingOf(X, key)) = 1}
DisputedKeys(X) ==
  {key \in {X[i].key : i \in DOMAIN X} : Cardinality(SayingOf(X, key)) > 1}
IsFirst(base, X, i) ==
  X[i].key \in AgreedKeys(base, X) /\ \A j \in 1..(i - 1) : X[j].key # X[i].key
FirstsOf(base, X) == Where([i \in DOMAIN X |-> i], LAMBDA i : IsFirst(base, X, i))
AgreedRules(base, X) ==
  [n \in DOMAIN FirstsOf(base, X) |->
     LastSaying(X, X[FirstsOf(base, X)[n]].key, X[FirstsOf(base, X)[n]].value)]
DisputedCandidates(X) ==
  UNION {{Candidate(key, v, LastSaying(X, key, v).ref, LastSaying(X, key, v).implies)
          : v \in SayingOf(X, key)} : key \in DisputedKeys(X)}

LEMMA WithDocumentsIs ==
  ASSUME NEW base, NEW X
  PROVE  WithDocuments(base, X)
           = [base EXCEPT !.rules = base.rules \o AgreedRules(base, X),
                          !.missing = (base.missing \ AgreedKeys(base, X)) \cup DisputedKeys(X),
                          !.candidates = base.candidates \cup DisputedCandidates(X)]
  BY DEF WithDocuments, AgreedRules, DisputedCandidates, AgreedKeys, DisputedKeys, FirstsOf,
         IsFirst, SayingOf, Where

LEMMA AgreedRulesAre ==
  ASSUME NEW base, NEW X, IsList(X)
  PROVE  /\ IsList(AgreedRules(base, X))
         /\ ToSet(AgreedRules(base, X))
              = {LastSaying(X, X[i].key, X[i].value)
                 : i \in {j \in 1..Len(X) : IsFirst(base, X, j)}}
<1> DEFINE ids == [i \in 1..Len(X) |-> i]
           I == {i \in 1..Len(ids) : IsFirst(base, X, ids[i])}
           F == Picked(ids, I)
           t == [n \in 1..Len(F) |-> LastSaying(X, X[F[n]].key, X[F[n]].value)]
<1>1. DOMAIN X = 1..Len(X) /\ Len(X) \in Nat
  BY ListFacts
<1>2. FirstsOf(base, X) = F
  BY <1>1 DEF FirstsOf, Where
<1>3. ids = [i \in 1..Len(X) |-> ids[i]] /\ \A i \in 1..Len(X) : ids[i] = i
  OBVIOUS
<1> HIDE DEF ids
<1>4. IsList(ids) /\ Len(ids) = Len(X)
  BY <1>1, <1>3, MappedList
<1>5. I = {i \in 1..Len(X) : IsFirst(base, X, i)} /\ I \in SUBSET (1..Len(ids))
  BY <1>3, <1>4
<1> HIDE DEF I
<1>6. IsList(F) /\ ToSet(F) = {ids[i] : i \in I}
  BY <1>4, <1>5, PickedElements
<1>7. ToSet(F) = I
  BY <1>3, <1>4, <1>5, <1>6
<1> HIDE DEF F
<1>8. DOMAIN F = 1..Len(F) /\ Len(F) \in Nat /\ ToSet(F) = {F[n] : n \in 1..Len(F)}
  BY <1>6, ListFacts
<1>9. AgreedRules(base, X) = t
  BY <1>2, <1>8 DEF AgreedRules
<1>10. t = [n \in 1..Len(F) |-> t[n]]
       /\ \A n \in 1..Len(F) : t[n] = LastSaying(X, X[F[n]].key, X[F[n]].value)
  OBVIOUS
<1> HIDE DEF t
<1>11. IsList(t) /\ ToSet(t) = {t[n] : n \in 1..Len(F)}
  BY <1>8, <1>10, MappedList
<1>12. ToSet(t) = {LastSaying(X, X[i].key, X[i].value) : i \in I}
  <2>1. ASSUME NEW n \in 1..Len(F) PROVE t[n] \in {LastSaying(X, X[i].key, X[i].value) : i \in I}
    <3>1. F[n] \in I
      BY <1>7, <1>8
    <3> QED  BY <1>10, <3>1
  <2>2. ASSUME NEW i \in I PROVE LastSaying(X, X[i].key, X[i].value) \in {t[n] : n \in 1..Len(F)}
    <3>1. PICK n \in 1..Len(F) : F[n] = i
      BY <1>7, <1>8
    <3> QED  BY <1>10, <3>1
  <2> QED  BY <1>11, <2>1, <2>2
<1> QED
  BY <1>5, <1>9, <1>11, <1>12

LEMMA DisputedAreFew ==
  ASSUME NEW X, IsList(X)
  PROVE  IsFiniteSet(DisputedCandidates(X))
<1> DEFINE C(key, v) == Candidate(key, v, LastSaying(X, key, v).ref, LastSaying(X, key, v).implies)
           f == [i \in 1..Len(X) |-> C(X[i].key, X[i].value)]
           T == {f[i] : i \in 1..Len(X)}
<1>1. DOMAIN X = 1..Len(X) /\ Len(X) \in Nat
  BY ListFacts
<1>2. IsFiniteSet(T)
  <2>1. IsFiniteSet(1..Len(X))
    BY <1>1, FS_Interval
  <2>2. DOMAIN f = 1..Len(X) /\ f = [i \in 1..Len(X) |-> f[i]]
    OBVIOUS
  <2> HIDE DEF f
  <2> QED  BY <2>1, <2>2, FiniteImage
<1>3. DisputedCandidates(X) \subseteq T
  <2>1. ASSUME NEW key \in DisputedKeys(X), NEW v \in SayingOf(X, key) PROVE C(key, v) \in T
    <3>1. PICK i \in 1..Len(X) : X[i].key = key /\ X[i].value = v
      BY <1>1, <2>1 DEF SayingOf
    <3>2. f[i] = C(X[i].key, X[i].value)
      OBVIOUS
    <3> HIDE DEF f, C
    <3> QED  BY <3>1, <3>2
  <2> HIDE DEF T
  <2> QED  BY <2>1 DEF DisputedCandidates
<1> HIDE DEF T
<1> QED
  BY <1>2, <1>3, FS_Subset

LEMMA CandidateFields ==
  ASSUME NEW k, NEW v, NEW f, NEW i
  PROVE  /\ Candidate(k, v, f, i).key = k /\ Candidate(k, v, f, i).value = v
         /\ Candidate(k, v, f, i).ref = f /\ Candidate(k, v, f, i).implies = i
  BY DEF Candidate

LEMMA DocumentsAreStated ==
  ASSUME NEW templates, NEW base, BaseOK(base), NEW X, NEW C,
         SaysTheClaims(templates, base.metric, X, C), \A p \in C : p.key \in AllowedKeys
  PROVE  LET d == WithDocuments(base, X)
         IN /\ DefOK(d) /\ d.metric = base.metric
            /\ StatesTheClaims(templates, base.metric, base, C, d)
<1> DEFINE d == WithDocuments(base, X)
           metric == base.metric
           added == AgreedRules(base, X)
           agreed == AgreedKeys(base, X)
           disputed == DisputedKeys(X)
           more == DisputedCandidates(X)
<1>1. IsList(X) /\ DOMAIN X = 1..Len(X) /\ Len(X) \in Nat
  BY ListFacts DEF SaysTheClaims
<1>2. /\ \A i \in 1..Len(X) : \E p \in C : p.key = X[i].key /\ p.value = X[i].value
      /\ \A p \in C : /\ \E i \in 1..Len(X) : X[i].key = p.key /\ X[i].value = p.value
                      /\ LastSaying(X, p.key, p.value) = DocRule(templates, metric, p)
  BY <1>1 DEF SaysTheClaims
<1>3. IsDef(base) /\ DefOK(base) /\ Keys(base) = {r.key : r \in RulesOf(base)}
  BY HasRuleMeans DEF BaseOK, DefOK
<1>4. \A p \in C : p.key \notin Keys(base)
  <2>1. OwnRules \cap AllowedKeys = {}
    BY DEF OwnRules, AllowedKeys
  <2> QED  BY <1>3, <2>1 DEF BaseOK
<1>5. IsList(added) /\ ToSet(added) = {LastSaying(X, X[i].key, X[i].value)
                                       : i \in {j \in 1..Len(X) : IsFirst(base, X, j)}}
  BY <1>1, AgreedRulesAre
<1>6. IsFiniteSet(more)
  BY <1>1, DisputedAreFew
<1>7. d = [base EXCEPT !.rules = base.rules \o added,
                       !.missing = (base.missing \ agreed) \cup disputed,
                       !.candidates = base.candidates \cup more]
  BY WithDocumentsIs
<1>8. base = [metric |-> base.metric, rules |-> base.rules, missing |-> base.missing,
              candidates |-> base.candidates] /\ IsList(base.rules)
  BY <1>3 DEF IsDef
<1>9. agreed = {key \in {X[i].key : i \in DOMAIN X} \ Keys(base) : Cardinality(SayingOf(X, key)) = 1}
  BY DEF AgreedKeys
<1>10. disputed = {key \in {X[i].key : i \in DOMAIN X} : Cardinality(SayingOf(X, key)) > 1}
  BY DEF DisputedKeys
<1> HIDE DEF d, added, agreed, disputed, more
<1>11. IsList(base.rules \o added) /\ ToSet(base.rules \o added) = RulesOf(base) \cup ToSet(added)
  BY <1>5, <1>8, Joined DEF RulesOf
<1>12. d = [metric |-> base.metric, rules |-> base.rules \o added,
            missing |-> (base.missing \ agreed) \cup disputed,
            candidates |-> base.candidates \cup more]
  BY <1>7, <1>8
<1>13. /\ IsDef(d) /\ d.metric = base.metric /\ RulesOf(d) = RulesOf(base) \cup ToSet(added)
       /\ d.missing = (base.missing \ agreed) \cup disputed
       /\ d.candidates = base.candidates \cup more
  BY <1>11, <1>12 DEF IsDef, RulesOf
<1>14. ASSUME NEW r \in ToSet(added)
       PROVE  \E p \in C : r = DocRule(templates, metric, p) /\ ~Disputed(C, p.key)
  <2>1. PICK i \in 1..Len(X) : IsFirst(base, X, i) /\ r = LastSaying(X, X[i].key, X[i].value)
    BY <1>5
  <2>2. PICK p \in C : p.key = X[i].key /\ p.value = X[i].value
    BY <1>2
  <2>3. r = DocRule(templates, metric, p)
    BY <1>2, <2>1, <2>2
  <2>4. Cardinality(SayingOf(X, p.key)) = 1
    BY <2>1, <2>2 DEF IsFirst, AgreedKeys
  <2>5. ~Disputed(C, p.key)
    BY <2>4, SayingFacts
  <2> QED  BY <2>3, <2>5
<1>15. ASSUME NEW p \in C, ~Disputed(C, p.key)
       PROVE  DocRule(templates, metric, p) \in ToSet(added)
  <2> DEFINE P == {i \in 1..Len(X) : X[i].key = p.key}
  <2>1. P # {} /\ P \in SUBSET (1..Len(X))
    BY <1>2
  <2>2. PICK i \in P : \A j \in P : i <= j
    <3> HIDE DEF P
    <3> QED  BY <1>1, <2>1, FirstPosition
  <2>3. i \in 1..Len(X) /\ X[i].key = p.key /\ \A j \in 1..(i - 1) : X[j].key # p.key
    <3>1. ASSUME NEW j \in 1..(i - 1) PROVE X[j].key # p.key
      <4>1. j \in 1..Len(X) /\ ~(i <= j)
        BY <1>1
      <4> QED  BY <2>2, <4>1
    <3> QED  BY <3>1
  <2> HIDE DEF P
  <2>4. Cardinality(SayingOf(X, p.key)) = 1
    BY <1>15, SayingFacts
  <2>5. p.key \in agreed
    BY <1>1, <1>4, <1>9, <2>3, <2>4
  <2>6. IsFirst(base, X, i)
    BY <2>3, <2>5 DEF IsFirst, agreed
  <2>7. X[i].value = p.value
    <3>1. PICK q \in C : q.key = X[i].key /\ q.value = X[i].value
      BY <1>2, <2>3
    <3> QED  BY <1>15, <2>3, <3>1 DEF Disputed
  <2>8. LastSaying(X, X[i].key, X[i].value) = DocRule(templates, metric, p)
    BY <1>2, <2>3, <2>7
  <2> QED  BY <1>5, <2>3, <2>6, <2>8
<1>16. ASSUME NEW p \in C, Disputed(C, p.key)
       PROVE  p.key \in d.missing /\ DocCandidate(templates, metric, p) \in d.candidates
  <2>1. Cardinality(SayingOf(X, p.key)) > 1 /\ p.value \in SayingOf(X, p.key)
    BY <1>16, SayingFacts
  <2>2. p.key \in disputed
    BY <1>1, <1>2, <1>10, <2>1
  <2>3. LastSaying(X, p.key, p.value) = DocRule(templates, metric, p)
    BY <1>2
  <2>4. /\ LastSaying(X, p.key, p.value).ref = <<Menu[p.citation].doc, p.quote>>
        /\ LastSaying(X, p.key, p.value).implies = Implied(templates, metric, p.key, p.quote)
    BY <2>3, RuleFields DEF DocRule
  <2>5. DocCandidate(templates, metric, p) \in more
    BY <2>1, <2>2, <2>4 DEF more, DisputedCandidates, disputed, DocCandidate
  <2> QED  BY <1>13, <2>2, <2>5
<1>17. StatesTheClaims(templates, metric, base, C, d)
  BY <1>13, <1>14, <1>15, <1>16 DEF StatesTheClaims
<1>18. IsFiniteSet(d.candidates)
  <2>1. IsFiniteSet(base.candidates)
    BY <1>3 DEF DefOK
  <2>2. IsFiniteSet(base.candidates \cup more)
    BY <1>6, <2>1, FS_Union
  <2> QED  BY <1>13, <2>2
<1>19. \A c \in d.candidates : c.key \in AllowedKeys \cup {"variant"}
  <2>1. ASSUME NEW c \in more PROVE c.key \in AllowedKeys
    <3>1. PICK key \in disputed : c.key = key
      BY CandidateFields DEF more, DisputedCandidates, disputed
    <3>2. PICK i \in 1..Len(X) : X[i].key = key
      BY <1>1, <1>10, <3>1
    <3> QED  BY <1>2, <3>1, <3>2
  <2> QED  BY <1>3, <1>13, <2>1 DEF DefOK
<1>20. \A r \in RulesOf(d) : r.key = "period" => r.value \in GoodPeriods
  <2>1. ASSUME NEW r \in ToSet(added) PROVE r.key # "period"
    <3>1. PICK p \in C : r = DocRule(templates, metric, p)
      BY <1>14
    <3>2. r.key = p.key
      BY <3>1, RuleFields DEF DocRule
    <3> QED  BY <3>2 DEF AllowedKeys
  <2> QED  BY <1>3, <1>13, <2>1 DEF DefOK
<1>21. DefOK(d)
  BY <1>13, <1>18, <1>19, <1>20 DEF DefOK
<1> QED
  BY <1>13, <1>17, <1>21 DEF d

\* What DocumentsOnlyExplain asks, of a definition at any time of its life: a
\* disputed rule is open or someone's, never the documents'.
Explains(d, C, templates) ==
  /\ \A p, q \in C : p.key = q.key /\ p.value # q.value =>
       /\ p.key \in d.missing \/ \E r \in RulesOf(d) : r.key = p.key
       /\ \A r \in RulesOf(d) : r.source = "doc" => r.key # p.key
  /\ \A r \in RulesOf(d) : r.source = "doc" /\ r.key # "variant" =>
       \E p \in C : /\ p.key = r.key /\ p.value = r.value
                    /\ r.ref = <<Menu[p.citation].doc, p.quote>>
                    /\ Values[p.value].numbers \subseteq Quotes[p.quote].numbers
  /\ \A r \in RulesOf(d) : r.source = "doc" /\ r.key = "variant" =>
       {v \in VariantsOf(d) : \A p \in C : \/ Implied(templates, d.metric, p.key, p.quote) = {}
                                           \/ v \in Implied(templates, d.metric, p.key, p.quote)}
         = {r.value}

\* Rules that are not the documents' leave that so.
LEMMA ExplainsKept ==
  ASSUME NEW d, IsDef(d), NEW added, IsList(added), NEW C, NEW templates,
         Explains(d, C, templates), \A r \in ToSet(added) : r.source # "doc"
  PROVE  Explains(WithRules(d, added), C, templates)
<1> DEFINE e == WithRules(d, added)
<1>1. /\ e.metric = d.metric /\ e.candidates = d.candidates
      /\ e.missing = d.missing \ KeysIn(added)
      /\ RulesOf(e) = {r \in RulesOf(d) : r.key \notin KeysIn(added)} \cup ToSet(added)
  BY WithRulesFacts
<1> HIDE DEF e
<1>2. VariantsOf(e) = VariantsOf(d)
  BY <1>1 DEF VariantsOf, CandidatesFor
<1>3. \A r \in RulesOf(e) : r.source = "doc" => r \in RulesOf(d)
  BY <1>1
<1>4. \A k : k \in KeysIn(added) => \E r \in RulesOf(e) : r.key = k
  BY <1>1 DEF KeysIn
<1>5. \A k : k \in d.missing => k \in e.missing \/ \E r \in RulesOf(e) : r.key = k
  BY <1>1, <1>4
<1>6. \A r \in RulesOf(d) : \E s \in RulesOf(e) : s.key = r.key
  BY <1>1, <1>4
<1>7. ASSUME NEW p \in C, NEW q \in C, p.key = q.key, p.value # q.value
      PROVE  /\ p.key \in e.missing \/ \E r \in RulesOf(e) : r.key = p.key
             /\ \A r \in RulesOf(e) : r.source = "doc" => r.key # p.key
  <2>1. /\ p.key \in d.missing \/ \E r \in RulesOf(d) : r.key = p.key
        /\ \A r \in RulesOf(d) : r.source = "doc" => r.key # p.key
    BY <1>7 DEF Explains
  <2> QED  BY <1>3, <1>5, <1>6, <2>1
<1>8. ASSUME NEW r \in RulesOf(e), r.source = "doc", r.key # "variant"
      PROVE  \E p \in C : /\ p.key = r.key /\ p.value = r.value
                          /\ r.ref = <<Menu[p.citation].doc, p.quote>>
                          /\ Values[p.value].numbers \subseteq Quotes[p.quote].numbers
  BY <1>3, <1>8 DEF Explains
<1>9. ASSUME NEW r \in RulesOf(e), r.source = "doc", r.key = "variant"
      PROVE  {v \in VariantsOf(e) :
                \A p \in C : \/ Implied(templates, e.metric, p.key, p.quote) = {}
                             \/ v \in Implied(templates, e.metric, p.key, p.quote)}
               = {r.value}
  BY <1>1, <1>2, <1>3, <1>9 DEF Explains
<1>10. Explains(e, C, templates)
  BY <1>7, <1>8, <1>9 DEF Explains
<1> QED
  BY <1>10 DEF e

\* A reading that is chosen is the only one the rules leave.
LEMMA OneReadingIsLeft ==
  ASSUME NEW rules, IsList(rules), NEW variants, IsFiniteSet(variants), NEW source
  PROVE  \/ ConsistentVariant(rules, variants, source) = <<>>
         \/ \E v, ref :
              /\ ConsistentVariant(rules, variants, source) = <<Rule("variant", v, source, ref, {})>>
              /\ {x \in variants : \A r \in ToSet(rules) :
                                     r.implies # {} /\ r.key # "variant" => x \in r.implies} = {v}
<1> DEFINE left == Consistent(rules, variants)
           v == CHOOSE x \in left : TRUE
           ref == Head(Anchors(rules, variants)).ref
<1>1. left = {x \in variants : \A r \in ToSet(rules) :
                                 r.implies # {} /\ r.key # "variant" => x \in r.implies}
  BY DEF Consistent, ToSet
<1>2. IsFiniteSet(left)
  <2>1. left \in SUBSET variants
    BY <1>1
  <2> HIDE DEF left
  <2> QED  BY <2>1, FS_Subset
<1>3. Cardinality(left) = 1 => left = {v}
  <2> HIDE DEF left
  <2>1. Cardinality(left) = 1 => \E x : left = {x}
    BY <1>2, FS_Singleton
  <2> QED  BY <2>1
<1>4. \/ ConsistentVariant(rules, variants, source) = <<>>
      \/ /\ Cardinality(left) = 1
         /\ ConsistentVariant(rules, variants, source) = <<Rule("variant", v, source, ref, {})>>
  BY DEF ConsistentVariant
<1> HIDE DEF left, v, ref
<1> QED
  BY <1>1, <1>3, <1>4

LEMMA VariantsAreFew ==
  ASSUME NEW d, IsFiniteSet(d.candidates)
  PROVE  IsFiniteSet(VariantsOf(d))
<1> DEFINE S == CandidatesFor(d, "variant")
           f == [c \in S |-> c.value]
<1>1. IsFiniteSet(S)
  <2>1. S \in SUBSET d.candidates
    BY DEF CandidatesFor
  <2> HIDE DEF S
  <2> QED  BY <2>1, FS_Subset
<1>2. DOMAIN f = S /\ f = [c \in S |-> f[c]] /\ VariantsOf(d) = {f[c] : c \in S}
  BY DEF VariantsOf
<1> HIDE DEF f, S
<1> QED
  BY <1>1, <1>2, FiniteImage

LEMMA StatedIsExplained ==
  ASSUME NEW templates, NEW base, BaseOK(base), NEW C,
         \A p \in C : Grounded(p), NEW d, IsDef(d), d.metric = base.metric,
         StatesTheClaims(templates, base.metric, base, C, d)
  PROVE  /\ Explains(d, C, templates)
         /\ \A r \in RulesOf(d) : r.source \in {"user", "doc"} /\ r.key # "variant"
<1>1. \A p \in C : p.key \in AllowedKeys /\ p.key # "variant"
                   /\ Values[p.value].numbers \subseteq Quotes[p.quote].numbers
  BY DEF Grounded, AllowedKeys
<1>2. \A r \in RulesOf(base) : r.source = "user" /\ r.key \in OwnRules
  BY DEF BaseOK
<1>3. \A p : /\ DocRule(templates, base.metric, p).key = p.key
             /\ DocRule(templates, base.metric, p).value = p.value
             /\ DocRule(templates, base.metric, p).source = "doc"
             /\ DocRule(templates, base.metric, p).ref = <<Menu[p.citation].doc, p.quote>>
  BY RuleFields DEF DocRule
<1>4. ASSUME NEW r \in RulesOf(d)
      PROVE  \/ r.source = "user" /\ r.key \in OwnRules
             \/ \E p \in C : /\ r.key = p.key /\ r.value = p.value /\ r.source = "doc"
                             /\ r.ref = <<Menu[p.citation].doc, p.quote>> /\ ~Disputed(C, p.key)
  BY <1>2, <1>3 DEF StatesTheClaims
<1>5. ASSUME NEW p \in C, NEW q \in C, p.key = q.key, p.value # q.value
      PROVE  /\ p.key \in d.missing
             /\ \A r \in RulesOf(d) : r.source = "doc" => r.key # p.key
  <2>1. Disputed(C, p.key)
    BY <1>5 DEF Disputed
  <2>2. p.key \in d.missing
    BY <2>1 DEF StatesTheClaims
  <2>3. ASSUME NEW r \in RulesOf(d), r.source = "doc" PROVE r.key # p.key
    BY <1>4, <2>1, <2>3
  <2> QED  BY <2>2, <2>3
<1>6. ASSUME NEW r \in RulesOf(d)
      PROVE  /\ r.source \in {"user", "doc"} /\ r.key # "variant"
             /\ r.source = "doc" =>
                  \E p \in C : /\ p.key = r.key /\ p.value = r.value
                               /\ r.ref = <<Menu[p.citation].doc, p.quote>>
                               /\ Values[p.value].numbers \subseteq Quotes[p.quote].numbers
  <2>1. "variant" \notin OwnRules
    BY DEF OwnRules
  <2> QED  BY <1>1, <1>4, <2>1
<1> QED
  BY <1>5, <1>6 DEF Explains

\* preselect_variant adds a reading only when it is the one no claim points
\* away from: the disputed claims point nowhere then.
LEMMA PreselectedIsExplained ==
  ASSUME NEW templates, NEW base, BaseOK(base), NEW C,
         \A p \in C : Grounded(p), NEW d, DefOK(d), d.metric = base.metric,
         StatesTheClaims(templates, base.metric, base, C, d)
  PROVE  /\ DefOK(Preselect(d)) /\ Preselect(d).metric = base.metric
         /\ Explains(Preselect(d), C, templates)
         /\ \A r \in RulesOf(Preselect(d)) : r.source \in {"user", "doc"}
<1> DEFINE I == {i \in 1..Len(d.rules) : d.rules[i].source = "doc"}
           documented == Picked(d.rules, I)
           one == ConsistentVariant(documented, VariantsOf(d), "doc")
           pending == \E c \in d.candidates :
                         c.implies # {} /\ c.key # "variant" /\ c.key \in d.missing
<1>1. /\ Preselect(d) = IF "variant" \notin d.missing \/ pending THEN d ELSE WithRules(d, one)
  BY DEF Preselect, Where
<1>2. IsDef(d) /\ IsFiniteSet(d.candidates)
  BY DEF DefOK
<1>3. /\ Explains(d, C, templates)
      /\ \A r \in RulesOf(d) : r.source \in {"user", "doc"} /\ r.key # "variant"
  BY <1>2, StatedIsExplained
<1>4. IsList(d.rules) /\ I \in SUBSET (1..Len(d.rules)) /\ RulesOf(d) = {d.rules[i] : i \in 1..Len(d.rules)}
  BY <1>2, ListFacts DEF IsDef, RulesOf
<1>5. IsList(documented) /\ ToSet(documented) = {d.rules[i] : i \in I}
  <2> HIDE DEF I
  <2> QED  BY <1>4, PickedElements
<1>6. ToSet(documented) = {r \in RulesOf(d) : r.source = "doc"}
  BY <1>4, <1>5
<1> HIDE DEF I, documented
<1>7. IsFiniteSet(VariantsOf(d))
  BY <1>2, VariantsAreFew
<1>8. \/ one = <<>>
      \/ \E v, ref :
           /\ one = <<Rule("variant", v, "doc", ref, {})>>
           /\ {x \in VariantsOf(d) : \A r \in ToSet(documented) :
                  r.implies # {} /\ r.key # "variant" => x \in r.implies} = {v}
  BY <1>5, <1>7, OneReadingIsLeft
<1>9. \A p : /\ DocRule(templates, base.metric, p).key = p.key
             /\ DocRule(templates, base.metric, p).source = "doc"
             /\ DocRule(templates, base.metric, p).implies
                  = Implied(templates, base.metric, p.key, p.quote)
             /\ DocCandidate(templates, base.metric, p).key = p.key
             /\ DocCandidate(templates, base.metric, p).implies
                  = Implied(templates, base.metric, p.key, p.quote)
  BY RuleFields, CandidateFields DEF DocRule, DocCandidate
<1>10. \A p \in C : p.key # "variant"
  BY DEF Grounded, AllowedKeys
<1> HIDE DEF one
<1>11. CASE "variant" \in d.missing /\ ~pending /\ one # <<>>
  <2> DEFINE e == WithRules(d, one)
  <2>1. PICK v, ref :
           /\ one = <<Rule("variant", v, "doc", ref, {})>>
           /\ {x \in VariantsOf(d) : \A r \in ToSet(documented) :
                  r.implies # {} /\ r.key # "variant" => x \in r.implies} = {v}
    BY <1>8, <1>11
  <2> DEFINE rule == Rule("variant", v, "doc", ref, {})
  <2>2. IsList(one) /\ ToSet(one) = {rule}
    BY <2>1, SingleList
  <2>3. rule.key = "variant" /\ rule.value = v /\ rule.source = "doc"
    BY RuleFields
  <2> HIDE DEF rule
  <2>4. KeysIn(one) = {"variant"}
    BY <2>2, <2>3 DEF KeysIn
  <2>5. /\ IsDef(e) /\ e.metric = d.metric /\ e.candidates = d.candidates
        /\ e.missing = d.missing \ {"variant"}
        /\ RulesOf(e) = {r \in RulesOf(d) : r.key # "variant"} \cup {rule}
    <3>1. /\ IsDef(e) /\ e.metric = d.metric /\ e.candidates = d.candidates
          /\ e.missing = d.missing \ KeysIn(one)
          /\ RulesOf(e) = {r \in RulesOf(d) : r.key \notin KeysIn(one)} \cup ToSet(one)
      BY <1>2, <2>2, WithRulesFacts
    <3> QED  BY <2>2, <2>4, <3>1
  <2> HIDE DEF e
  <2>6. DefOK(e)
    BY <2>3, <2>5 DEF DefOK
  <2>7. \A r \in RulesOf(e) : r = rule \/ (r \in RulesOf(d) /\ r.key # "variant")
    <3>1. RulesOf(e) = {r \in RulesOf(d) : r.key # "variant"} \cup {rule}
      BY <2>5
    <3> QED  BY <3>1
  <2>8. \A p \in C : \/ Implied(templates, base.metric, p.key, p.quote) = {}
                     \/ DocRule(templates, base.metric, p) \in ToSet(documented)
    <3>1. ASSUME NEW p \in C, Disputed(C, p.key)
          PROVE  Implied(templates, base.metric, p.key, p.quote) = {}
      <4>1. p.key \in d.missing /\ DocCandidate(templates, base.metric, p) \in d.candidates
        BY <3>1 DEF StatesTheClaims
      <4> QED  BY <1>9, <1>10, <1>11, <4>1
    <3>2. ASSUME NEW p \in C, ~Disputed(C, p.key)
          PROVE  DocRule(templates, base.metric, p) \in ToSet(documented)
      BY <1>6, <1>9, <3>2 DEF StatesTheClaims
    <3> QED  BY <3>1, <3>2
  <2>9. \A r \in ToSet(documented) : \E p \in C : r = DocRule(templates, base.metric, p)
    <3>1. \A r \in RulesOf(base) : r.source # "doc"
      BY DEF BaseOK
    <3> QED  BY <1>6, <3>1 DEF StatesTheClaims
  <2>10. ASSUME NEW x
         PROVE  (\A r \in ToSet(documented) : r.implies # {} /\ r.key # "variant" => x \in r.implies)
                 <=> (\A p \in C : \/ Implied(templates, base.metric, p.key, p.quote) = {}
                                   \/ x \in Implied(templates, base.metric, p.key, p.quote))
    <3>1. ASSUME \A r \in ToSet(documented) : r.implies # {} /\ r.key # "variant" => x \in r.implies,
                 NEW p \in C, Implied(templates, base.metric, p.key, p.quote) # {}
          PROVE  x \in Implied(templates, base.metric, p.key, p.quote)
      <4>1. DocRule(templates, base.metric, p) \in ToSet(documented)
        BY <2>8, <3>1
      <4> QED  BY <1>9, <1>10, <3>1, <4>1
    <3>2. ASSUME \A p \in C : \/ Implied(templates, base.metric, p.key, p.quote) = {}
                              \/ x \in Implied(templates, base.metric, p.key, p.quote),
                 NEW r \in ToSet(documented), r.implies # {}
          PROVE  x \in r.implies
      <4>1. PICK p \in C : r = DocRule(templates, base.metric, p)
        BY <2>9
      <4> QED  BY <1>9, <3>2, <4>1
    <3> QED  BY <3>1, <3>2
  <2>11. VariantsOf(e) = VariantsOf(d)
    BY <2>5 DEF VariantsOf, CandidatesFor
  <2>12. {x \in VariantsOf(e) :
            \A p \in C : \/ Implied(templates, e.metric, p.key, p.quote) = {}
                         \/ x \in Implied(templates, e.metric, p.key, p.quote)} = {rule.value}
    <3>1. e.metric = base.metric
      BY <2>5
    <3> QED  BY <2>1, <2>3, <2>10, <2>11, <3>1
  <2>13. Explains(e, C, templates)
    <3>1. ASSUME NEW p \in C, NEW q \in C, p.key = q.key, p.value # q.value
          PROVE  /\ p.key \in e.missing \/ \E r \in RulesOf(e) : r.key = p.key
                 /\ \A r \in RulesOf(e) : r.source = "doc" => r.key # p.key
      <4>1. /\ p.key \in d.missing \/ \E r \in RulesOf(d) : r.key = p.key
            /\ \A r \in RulesOf(d) : r.source = "doc" => r.key # p.key
        BY <1>3, <3>1 DEF Explains
      <4> QED  BY <1>10, <2>3, <2>5, <4>1
    <3>2. ASSUME NEW r \in RulesOf(e), r.source = "doc", r.key # "variant"
          PROVE  \E p \in C : /\ p.key = r.key /\ p.value = r.value
                              /\ r.ref = <<Menu[p.citation].doc, p.quote>>
                              /\ Values[p.value].numbers \subseteq Quotes[p.quote].numbers
      BY <1>3, <2>3, <2>7, <3>2 DEF Explains
    <3>3. ASSUME NEW r \in RulesOf(e), r.source = "doc", r.key = "variant" PROVE r = rule
      BY <2>7, <3>3
    <3> QED  BY <2>12, <3>1, <3>2, <3>3 DEF Explains
  <2>14. \A r \in RulesOf(e) : r.source \in {"user", "doc"}
    BY <1>3, <2>3, <2>7
  <2>15. Preselect(d) = e
    BY <1>1, <1>11 DEF e
  <2> QED  BY <2>5, <2>6, <2>13, <2>14, <2>15
<1>12. CASE "variant" \in d.missing /\ ~pending /\ one = <<>>
  <2> DEFINE e == WithRules(d, one)
  <2>1. IsList(one) /\ ToSet(one) = {}
    BY <1>12, SingleList
  <2>2. KeysIn(one) = {}
    BY <2>1 DEF KeysIn
  <2>3. /\ IsDef(e) /\ e.metric = d.metric /\ e.candidates = d.candidates
        /\ e.missing = d.missing \ KeysIn(one)
        /\ RulesOf(e) = {r \in RulesOf(d) : r.key \notin KeysIn(one)} \cup ToSet(one)
    BY <1>2, <2>1, WithRulesFacts
  <2>4. Explains(e, C, templates)
    BY <1>2, <1>3, <2>1, ExplainsKept
  <2> HIDE DEF e
  <2>5. RulesOf(e) = RulesOf(d)
    BY <2>1, <2>2, <2>3
  <2>6. DefOK(e)
    BY <2>3, <2>5 DEF DefOK
  <2>7. Preselect(d) = e
    BY <1>1, <1>12 DEF e
  <2> QED  BY <1>3, <2>3, <2>4, <2>5, <2>6, <2>7
<1>13. CASE "variant" \notin d.missing \/ pending
  <2>1. Preselect(d) = d
    BY <1>1, <1>13
  <2> QED  BY <1>3, <2>1
<1> QED
  BY <1>11, <1>12, <1>13

\* A draft's first form: built from the question and the documents.
LEMMA BuiltIsExplained ==
  ASSUME NEW templates, NEW text, TextOK(text), MetricNamed(text) # {}, NEW day \in WorkDays,
         NEW out, IsSequence(out), NEW gone
  PROVE  LET d == Build(templates, text, day, ShownOf(out, gone))
         IN /\ DefOK(d) /\ Explains(d, ClaimsOf(out, gone), templates)
            /\ \A r \in RulesOf(d) : r.source \in {"user", "doc"}
<1> DEFINE base == Base(text, day)
           X == Extracted(templates, base.metric, ShownOf(out, gone))
           C == ClaimsOf(out, gone)
           d == WithDocuments(base, X)
<1>1. Build(templates, text, day, ShownOf(out, gone)) = Preselect(d)
  BY DEF Build, Explained
<1>2. BaseOK(base)
  BY BaseIsRead
<1>3. \A p \in C : Grounded(p) /\ p.key \in AllowedKeys
  BY DEF ClaimsOf, CountsIn, Grounded
<1> HIDE DEF base
<1>4. SaysTheClaims(templates, base.metric, X, C)
  BY ExtractedSaysTheClaims
<1> HIDE DEF X, C
<1>5. /\ DefOK(d) /\ d.metric = base.metric
      /\ StatesTheClaims(templates, base.metric, base, C, d)
  BY <1>2, <1>3, <1>4, DocumentsAreStated
<1> HIDE DEF d
<1>6. /\ DefOK(Preselect(d)) /\ Explains(Preselect(d), C, templates)
      /\ \A r \in RulesOf(Preselect(d)) : r.source \in {"user", "doc"}
  BY <1>2, <1>3, <1>5, PreselectedIsExplained
<1> QED
  BY <1>1, <1>6 DEF C

-----------------------------------------------------------------------------
(* What the past offers. *)

HistoryOf(d) == {r \in RulesOf(d) : r.source = "history" /\ r.key # "previous_choice"}

\* What is offered is for a gap, was remembered, and no reading among it is one
\* that another points away from.
OnlyFillsGaps(d, remembered, e) ==
  /\ \A r \in RulesOf(e) : r \in RulesOf(d) \/ r.source = "history"
  /\ \A r \in HistoryOf(e) : /\ r.key \in d.missing
                             /\ \E w \in ToSet(remembered) : w.key = r.key /\ w.value = r.value
  /\ \A r, s \in HistoryOf(e) : r.key = "variant" /\ s.key # "variant" =>
                                  s.implies = {} \/ r.value \in s.implies

LEMMA OfferFillsGaps ==
  ASSUME NEW d, DefOK(d), \A r \in RulesOf(d) : r.source \in {"user", "doc"},
         NEW remembered, IsList(remembered),
         \A r \in ToSet(remembered) : r.key \notin NotRemembered
  PROVE  LET e == Offer(d, remembered)
         IN /\ DefOK(e) /\ e.metric = d.metric /\ OnlyFillsGaps(d, remembered, e)
            /\ \A C, templates : Explains(d, C, templates) => Explains(e, C, templates)
<1> DEFINE n == Len(remembered)
           I == {i \in 1..n : Offers(d, remembered[i])}
           fits == Picked(remembered, I)
           again == [i \in 1..Len(fits) |-> Again(d, fits[i])]
           J == {i \in 1..Len(again) : ~PointsAway(again, again[i])}
           offered == Picked(again, J)
           K == {i \in 1..n : Differs(d, remembered[i])}
           differing == Picked(remembered, K)
           shown == [i \in 1..Len(differing) |->
                       Rule("previous_choice", differing[i].value, "history", NoRef, {})]
           added == offered \o shown
<1>1. IsList(fits) /\ ToSet(fits) = {remembered[i] : i \in I} /\ ToSet(fits) \subseteq ToSet(remembered)
  <2>1. I \in SUBSET (1..Len(remembered))
    OBVIOUS
  <2> HIDE DEF I
  <2> QED  BY <2>1, PickedElements
<1>2. IsList(differing)
  <2>1. K \in SUBSET (1..Len(remembered))
    OBVIOUS
  <2> HIDE DEF K
  <2> QED  BY <2>1, PickedElements
<1>4. \A r \in ToSet(fits) : Offers(d, r)
  BY <1>1
<1>5. DOMAIN fits = 1..Len(fits) /\ Len(fits) \in Nat /\ ToSet(fits) = {fits[i] : i \in 1..Len(fits)}
  <2> HIDE DEF fits
  <2> QED  BY <1>1, ListFacts
<1>6. DOMAIN differing = 1..Len(differing) /\ Len(differing) \in Nat
  <2> HIDE DEF differing
  <2> QED  BY <1>2, ListFacts
<1>7. Offer(d, remembered) = IF added = <<>> THEN d ELSE WithRules(d, added)
  BY <1>5, <1>6 DEF Offer, Where
<1> HIDE DEF fits, differing
<1>8. /\ again = [i \in 1..Len(fits) |-> again[i]]
      /\ \A i \in 1..Len(fits) : again[i] = Again(d, fits[i])
  OBVIOUS
<1>9. /\ shown = [i \in 1..Len(differing) |-> shown[i]]
      /\ \A i \in 1..Len(differing) : shown[i].key = "previous_choice" /\ shown[i].source = "history"
  BY RuleFields
<1>10. J \in SUBSET (1..Len(again)) /\ \A i \in J : ~PointsAway(again, again[i])
  OBVIOUS
<1> HIDE DEF again, shown, J
<1>11. IsList(again) /\ Len(again) = Len(fits) /\ DOMAIN again = 1..Len(fits)
       /\ ToSet(again) = {again[i] : i \in 1..Len(fits)}
  BY <1>5, <1>8, MappedList
<1>12. /\ IsList(offered) /\ ToSet(offered) = {again[i] : i \in J}
       /\ ToSet(offered) \subseteq ToSet(again)
  BY <1>10, <1>11, PickedElements
<1>13. IsList(shown) /\ ToSet(shown) = {shown[i] : i \in 1..Len(differing)}
  BY <1>6, <1>9, MappedList
<1> HIDE DEF offered
<1>14. IsList(added) /\ ToSet(added) = ToSet(offered) \cup ToSet(shown)
  BY <1>12, <1>13, Joined
<1> HIDE DEF added
<1>15. \A r : Again(d, r).key = r.key /\ Again(d, r).value = r.value /\ Again(d, r).source = "history"
  BY RuleFields DEF Again
<1>16. ASSUME NEW r \in ToSet(offered)
       PROVE  /\ r.source = "history" /\ r.key \in d.missing /\ r.key \notin NotRemembered
              /\ \E w \in ToSet(remembered) : w.key = r.key /\ w.value = r.value
  <2>1. PICK i \in 1..Len(fits) : r = again[i]
    BY <1>11, <1>12
  <2>2. r = Again(d, fits[i]) /\ fits[i] \in ToSet(fits)
    BY <1>5, <1>8, <2>1
  <2>3. fits[i] \in ToSet(remembered) /\ Offers(d, fits[i])
    BY <1>1, <1>4, <2>2
  <2>4. fits[i].key \in d.missing
    BY <2>3 DEF Offers
  <2> QED  BY <1>15, <2>2, <2>3, <2>4
<1>17. \A r \in ToSet(shown) : r.source = "history" /\ r.key = "previous_choice"
  BY <1>9, <1>13
<1>18. ASSUME NEW r \in ToSet(offered), NEW s \in ToSet(offered), r.key = "variant", s.key # "variant"
       PROVE  s.implies = {} \/ r.value \in s.implies
  <2>1. PICK i \in J : r = again[i]
    BY <1>12
  <2>2. PICK j \in 1..Len(fits) : s = again[j]
    BY <1>11, <1>12
  <2>3. ~PointsAway(again, r)
    BY <1>10, <2>1
  <2> QED  BY <1>11, <1>18, <2>2, <2>3 DEF PointsAway
<1>19. CASE added = <<>>
  <2>1. Offer(d, remembered) = d
    BY <1>7, <1>19
  <2>2. HistoryOf(d) = {}
    BY DEF HistoryOf
  <2>3. OnlyFillsGaps(d, remembered, d)
    BY <2>2 DEF OnlyFillsGaps
  <2> QED  BY <2>1, <2>3
<1>20. CASE added # <<>>
  <2> DEFINE e == WithRules(d, added)
  <2>1. IsDef(d)
    BY DEF DefOK
  <2>2. /\ IsDef(e) /\ e.metric = d.metric /\ e.candidates = d.candidates
        /\ RulesOf(e) = {r \in RulesOf(d) : r.key \notin KeysIn(added)} \cup ToSet(added)
    BY <1>14, <2>1, WithRulesFacts
  <2>3. \A r \in ToSet(added) : r.source = "history" /\ r.key # "period"
    <3>1. "period" \in NotRemembered
      BY DEF NotRemembered
    <3> QED  BY <1>14, <1>16, <1>17, <3>1
  <2>4. \A C, templates : Explains(d, C, templates) => Explains(e, C, templates)
    BY <1>14, <2>1, <2>3, ExplainsKept
  <2> HIDE DEF e
  <2>5. DefOK(e)
    BY <2>2, <2>3 DEF DefOK
  <2>6. \A r \in HistoryOf(e) : r \in ToSet(offered)
    <3>1. \A r \in RulesOf(e) : r \in RulesOf(d) \/ r \in ToSet(offered) \/ r \in ToSet(shown)
      BY <1>14, <2>2
    <3> QED  BY <1>17, <3>1 DEF HistoryOf
  <2>7. \A r \in RulesOf(e) : r \in RulesOf(d) \/ r.source = "history"
    BY <2>2, <2>3
  <2>8. OnlyFillsGaps(d, remembered, e)
    BY <1>16, <1>18, <2>6, <2>7 DEF OnlyFillsGaps
  <2>9. Offer(d, remembered) = e
    BY <1>7, <1>20 DEF e
  <2> QED  BY <2>2, <2>4, <2>5, <2>8, <2>9
<1> QED
  BY <1>19, <1>20

-----------------------------------------------------------------------------
(* What an answer adds: rules of whoever answers, and a period that is one. *)

AreAnswers(rules, source) ==
  /\ IsList(rules)
  /\ \A r \in ToSet(rules) : r.source = source /\ (r.key = "period" => r.value \in GoodPeriods)

LEMMA AnswersJoined ==
  ASSUME NEW s, NEW t, NEW source, AreAnswers(s, source), AreAnswers(t, source)
  PROVE  AreAnswers(s \o t, source)
<1>1. IsList(s \o t) /\ ToSet(s \o t) = ToSet(s) \cup ToSet(t)
  BY Joined DEF AreAnswers
<1> QED
  BY <1>1 DEF AreAnswers

LEMMA NoneOrOneAnswer ==
  ASSUME NEW r, NEW source, r.source = source, r.key = "period" => r.value \in GoodPeriods
  PROVE  AreAnswers(<<r>>, source) /\ AreAnswers(<<>>, source)
<1>1. IsList(<<r>>) /\ ToSet(<<r>>) = {r} /\ IsList(<<>>) /\ ToSet(<<>>) = {}
  BY SingleList
<1> QED
  BY <1>1 DEF AreAnswers

LEMMA AnswersInARow ==
  ASSUME NEW n \in Nat, NEW t, t = [i \in 1..n |-> t[i]], NEW source,
         \A i \in 1..n : t[i].source = source /\ t[i].key # "period"
  PROVE  AreAnswers(t, source)
<1>1. IsList(t) /\ ToSet(t) = {t[i] : i \in 1..n}
  BY MappedList
<1> QED
  BY <1>1 DEF AreAnswers

LEMMA AdoptedAreAnswers ==
  ASSUME NEW d, DefOK(d), NEW a, NEW source
  PROVE  AreAnswers(Adopted(d, a, source), source)
<1> DEFINE S == {c \in d.candidates : <<c.key, c.value>> \in a.adopt}
           sides == SetToSeq(S)
           t == [i \in 1..Len(sides) |->
                   Rule(sides[i].key, sides[i].value, source, sides[i].ref, sides[i].implies)]
<1>1. IsFiniteSet(S) /\ S \subseteq d.candidates
  <2>1. IsFiniteSet(d.candidates) /\ S \in SUBSET d.candidates
    BY DEF DefOK
  <2> HIDE DEF S
  <2> QED  BY <2>1, FS_Subset
<1> HIDE DEF S
<1>2. IsList(sides) /\ ToSet(sides) \subseteq S
  BY <1>1, AsSequence
<1> HIDE DEF sides
<1>3. DOMAIN sides = 1..Len(sides) /\ Len(sides) \in Nat /\ \A i \in 1..Len(sides) : sides[i] \in S
  BY <1>2, ListFacts
<1>4. \A c \in S : c.key # "period"
  BY <1>1 DEF DefOK, AllowedKeys
<1>5. t = [i \in 1..Len(sides) |-> t[i]] /\ \A i \in 1..Len(sides) : t[i].source = source /\ t[i].key = sides[i].key
  BY RuleFields
<1>6. Adopted(d, a, source) = t
  BY <1>3 DEF Adopted, sides, S
<1> HIDE DEF t
<1>7. AreAnswers(t, source)
  BY <1>3, <1>4, <1>5, AnswersInARow
<1> QED
  BY <1>6, <1>7

LEMMA TypedAreAnswers ==
  ASSUME NEW d, NEW a \in Amendments, \A r \in a.rules : r[1] \in OpenGaps(d), NEW source
  PROVE  AreAnswers(Typed(a, source), source)
<1> DEFINE rules == SetToSeq(a.rules)
           t == [i \in 1..Len(rules) |-> Rule(rules[i][1], rules[i][2], source, NoRef, {})]
<1>1. IsFiniteSet(a.rules)
  BY DefinitionsAssumption
<1>2. IsList(rules) /\ ToSet(rules) \subseteq a.rules
  BY <1>1, AsSequence
<1> HIDE DEF rules
<1>3. DOMAIN rules = 1..Len(rules) /\ Len(rules) \in Nat /\ \A i \in 1..Len(rules) : rules[i] \in a.rules
  BY <1>2, ListFacts
<1>4. \A r \in a.rules : r[1] # "period"
  BY DEF OpenGaps, OwnFields
<1>5. t = [i \in 1..Len(rules) |-> t[i]] /\ \A i \in 1..Len(rules) : t[i].source = source /\ t[i].key = rules[i][1]
  BY RuleFields
<1>6. Typed(a, source) = t
  BY <1>3 DEF Typed, rules
<1> HIDE DEF t
<1>7. AreAnswers(t, source)
  BY <1>3, <1>4, <1>5, AnswersInARow
<1> QED
  BY <1>6, <1>7

LEMMA StatingIsAnAnswer ==
  ASSUME NEW key, NEW found, NEW source, key = "period" => found \subseteq GoodPeriods
  PROVE  AreAnswers(Stating(key, found, source), source)
<1> DEFINE v == CHOOSE x \in found : TRUE
           r == Rule(key, v, source, NoRef, {})
<1>1. Stating(key, found, source) = IF found = {} THEN <<>> ELSE <<r>>
  BY DEF Stating
<1>2. found # {} => v \in found
  OBVIOUS
<1> HIDE DEF v
<1>3. r.source = source /\ r.key = key /\ r.value = v
  BY RuleFields
<1> HIDE DEF r
<1>4. found # {} => AreAnswers(<<r>>, source)
  BY <1>2, <1>3, NoneOrOneAnswer
<1>5. AreAnswers(<<>>, source)
  BY SingleList DEF AreAnswers
<1> QED
  BY <1>1, <1>4, <1>5

LEMMA ReadingChosenIsAnAnswer ==
  ASSUME NEW d, NEW adopted, NEW a, NEW source
  PROVE  AreAnswers(ReadingChosen(d, adopted, a, source), source)
<1>1. AreAnswers(<<>>, source)
  BY SingleList DEF AreAnswers
<1>2. \A v, ref : AreAnswers(<<Rule("variant", v, source, ref, {})>>, source)
  <2>1. ASSUME NEW v, NEW ref PROVE AreAnswers(<<Rule("variant", v, source, ref, {})>>, source)
    <3> DEFINE r == Rule("variant", v, source, ref, {})
    <3>1. r.source = source /\ r.key = "variant"
      BY RuleFields
    <3> HIDE DEF r
    <3>2. AreAnswers(<<r>>, source)
      BY <3>1, NoneOrOneAnswer
    <3> QED  BY <3>2 DEF r
  <2> QED  BY <2>1
<1>3. \A rules, variants : \/ ConsistentVariant(rules, variants, source) = <<>>
                           \/ \E v, ref : ConsistentVariant(rules, variants, source)
                                            = <<Rule("variant", v, source, ref, {})>>
  BY DEF ConsistentVariant
<1>4. \A rules, variants : AreAnswers(ConsistentVariant(rules, variants, source), source)
  BY <1>1, <1>2, <1>3
<1>5. \/ ReadingChosen(d, adopted, a, source) = <<>>
      \/ \E v, ref : ReadingChosen(d, adopted, a, source) = <<Rule("variant", v, source, ref, {})>>
      \/ \E rules, variants : ReadingChosen(d, adopted, a, source) = ConsistentVariant(rules, variants, source)
  BY DEF ReadingChosen
<1> QED
  BY <1>1, <1>2, <1>4, <1>5

LEMMA AnswerRulesAreAnswers ==
  ASSUME NEW d, DefOK(d), NEW a \in Amendments, NEW day \in WorkDays, Answerable(d, a, day),
         NEW source
  PROVE  AreAnswers(AnswerRules(d, a, source, day), source)
<1> DEFINE adopted == Adopted(d, a, source)
           typed == Typed(a, source)
           period == Stating("period", Given(a.period, ParsePeriod(a.period, day)), source)
           group == Stating("group_by", Given(a.group_by, ParseGrouping(a.group_by)), source)
           filter == Stating("filter", Given(a.filter, ParseFilter(a.filter)), source)
           reading == ReadingChosen(d, adopted, a, source)
<1>1. AnswerRules(d, a, source, day) = adopted \o typed \o period \o group \o filter \o reading
  BY DEF AnswerRules
<1>2. AreAnswers(adopted, source)
  BY AdoptedAreAnswers
<1>3. AreAnswers(typed, source)
  BY TypedAreAnswers DEF Answerable
<1>4. AreAnswers(period, source)
  <2>1. TextOK(a.period)
    BY DefinitionsAssumption
  <2>2. Given(a.period, ParsePeriod(a.period, day)) \subseteq GoodPeriods
    BY <2>1, PeriodsAreGood DEF Given, Answerable
  <2> QED  BY <2>2, StatingIsAnAnswer
<1>5. AreAnswers(group, source) /\ AreAnswers(filter, source)
  BY StatingIsAnAnswer
<1>6. AreAnswers(reading, source)
  BY ReadingChosenIsAnAnswer
<1> HIDE DEF adopted, typed, period, group, filter, reading
<1>7. AreAnswers(adopted \o typed, source)
  BY <1>2, <1>3, AnswersJoined
<1>8. AreAnswers(adopted \o typed \o period, source)
  BY <1>4, <1>7, AnswersJoined
<1>9. AreAnswers(adopted \o typed \o period \o group, source)
  BY <1>5, <1>8, AnswersJoined
<1>10. AreAnswers(adopted \o typed \o period \o group \o filter, source)
  BY <1>5, <1>9, AnswersJoined
<1>11. AreAnswers(adopted \o typed \o period \o group \o filter \o reading, source)
  BY <1>6, <1>10, AnswersJoined
<1> QED
  BY <1>1, <1>11

-----------------------------------------------------------------------------
(* The state: what is loaded, the draft and the runs. *)

DraftFields == {"status", "n", "actor", "door", "asked", "day", "since", "gone", "inner",
                "definition", "cited", "amended", "query", "through", "entry"}
RunFields == {"n", "actor", "definition", "day", "entry", "stands", "loaded", "answer", "reach"}
DraftShape(x) == x = [f \in DraftFields |-> x[f]]
RunShape(r) == r = [f \in RunFields |-> r[f]]

LoadedOK(ld) ==
  /\ ld = [t \in DOMAIN Tables |-> ld[t]]
  /\ \A t \in DOMAIN Tables : ld[t] \in 0..Len(Tables[t])

\* An entry of a mapping file that was deployed at some time.
Declared(e) == \E i \in DOMAIN Mappings : \E at \in DOMAIN Mappings[i] : e = Mappings[i][at]
LEMMA DeclaredIsOK ==
  ASSUME NEW e, Declared(e)
  PROVE  EntryOK(e)
  BY DefinitionsAssumption DEF Declared

\* Days that date the data are days of rows that are loaded.
Dates(through, e, ld) ==
  \A day \in through : /\ ~e.whole /\ e.time # ""
                       /\ \E i \in 1..ld[e.source] : day = Tables[e.source][i][e.time]

\* What a run sends, and had dated, is the confirmed definition's.
Sending(x, ld) ==
  \E e : /\ x.entry = {e} /\ Declared(e) /\ CanApply(e, x.definition)
         /\ x.query = Compose(e, x.definition) /\ Dates(x.through, e, ld)

Complete4 == {"awaiting", "confirmed", "dated", "ran"}
Statuses == Complete4 \cup {"needs", "expired"}

DraftOK(x, qs, ld) ==
  /\ DraftShape(x)
  /\ x.status \in Statuses
  /\ x.n \in 1..Len(qs) /\ x.asked \in WorkDays /\ x.day \in WorkDays /\ x.since \in DOMAIN Mappings
  /\ DefOK(x.definition)
  /\ x.status \in Complete4 => x.definition.missing = {}
  /\ x.status = "dated" => Sending(x, ld)

\* What a finished run answered, and said of the data's reach.
Answered(r, e, through) ==
  /\ r.entry = {e} /\ Declared(e) /\ CanApply(e, r.definition)
  /\ r.answer = Execute(Compose(e, r.definition), r.loaded)
  /\ Dates(through, e, r.loaded)
  /\ r.reach = Coverage(PeriodOf(r.definition), through, ~e.whole /\ e.time # "")
RunOK(r) ==
  /\ RunShape(r) /\ r.n \in Nat /\ r.day \in WorkDays
  /\ DefOK(r.definition) /\ r.definition.missing = {} /\ LoadedOK(r.loaded)
  /\ \E e, through : Answered(r, e, through)

DraftsOK ==
  /\ draft.status = "none" => draft = NoDraft
  /\ draft.status # "none" => DraftOK(draft, questions, loaded)
RunsOK ==
  /\ IsList(runs)
  /\ \A i \in 1..Len(runs) : RunOK(runs[i]) /\ runs[i].n <= draft.n
  /\ draft.status = "ran" => Len(runs) > 0
WorldOK ==
  /\ questions \in Questions /\ today \in WorkDays /\ deployed \in DOMAIN Mappings
  /\ withdrawn \subseteq Docs /\ LoadedOK(loaded)
Sound == WorldOK /\ DraftsOK /\ RunsOK

\* The fields of a draft that only its preparation sets.
SameDraft(x, y) ==
  /\ y.n = x.n /\ y.actor = x.actor /\ y.door = x.door /\ y.asked = x.asked
  /\ y.since = x.since /\ y.gone = x.gone /\ y.inner = x.inner /\ y.cited = x.cited

LEMMA AmendedDraft ==
  ASSUME NEW x, DraftShape(x), NEW d, NEW s, NEW n
  PROVE  LET y == [x EXCEPT !.definition = d, !.status = s, !.amended = n]
         IN /\ DraftShape(y) /\ SameDraft(x, y) /\ y.definition = d /\ y.status = s /\ y.day = x.day
  BY DEF DraftShape, DraftFields, SameDraft

LEMMA ExpiredDraft ==
  ASSUME NEW x, DraftShape(x), NEW s
  PROVE  LET y == [x EXCEPT !.status = s]
         IN /\ DraftShape(y) /\ SameDraft(x, y) /\ y.definition = x.definition
            /\ y.status = s /\ y.day = x.day
  BY DEF DraftShape, DraftFields, SameDraft

LEMMA OverDraft ==
  ASSUME NEW x, DraftShape(x), NEW s
  PROVE  LET y == [x EXCEPT !.status = s, !.query = <<>>, !.through = {}, !.entry = {}]
         IN /\ DraftShape(y) /\ SameDraft(x, y) /\ y.definition = x.definition
            /\ y.status = s /\ y.day = x.day
  BY DEF DraftShape, DraftFields, SameDraft

LEMMA AmendedRun ==
  ASSUME NEW r, RunOK(r)
  PROVE  LET q == [r EXCEPT !.stands = FALSE]
         IN /\ RunOK(q) /\ q.n = r.n /\ q.actor = r.actor /\ q.definition = r.definition
            /\ q.day = r.day /\ q.entry = r.entry
<1> DEFINE q == [r EXCEPT !.stands = FALSE]
<1>1. /\ RunShape(q) /\ q.n = r.n /\ q.actor = r.actor /\ q.definition = r.definition
      /\ q.day = r.day /\ q.entry = r.entry /\ q.loaded = r.loaded /\ q.answer = r.answer
      /\ q.reach = r.reach
  BY DEF RunOK, RunShape, RunFields
<1> HIDE DEF q
<1>2. \A e, through : Answered(r, e, through) => Answered(q, e, through)
  BY <1>1 DEF Answered
<1>3. RunOK(q)
  BY <1>1, <1>2 DEF RunOK
<1> QED
  BY <1>1, <1>3 DEF q

LEMMA DraftFacts ==
  ASSUME NEW actor, NEW door, NEW inner, NEW d
  PROVE  LET y == NewDraft(actor, door, inner, d)
         IN /\ DraftShape(y) /\ y.status = StatusOf(d) /\ y.n = draft.n + 1 /\ y.actor = actor
            /\ y.door = door /\ y.asked = today /\ y.day = today /\ y.since = deployed
            /\ y.gone = withdrawn /\ y.inner = inner /\ y.definition = d
  BY DEF NewDraft, DraftShape, DraftFields

LEMMA StatusFacts ==
  ASSUME NEW d
  PROVE  /\ StatusOf(d) \in {"awaiting", "needs"}
         /\ StatusOf(d) \in Complete4 => d.missing = {}
  BY DEF StatusOf, Complete4

\* More rows that are loaded leave the days that date the data days of rows.
MoreLoaded(ld, more) == \A t \in DOMAIN Tables : ld[t] <= more[t]
LEMMA SendingKept ==
  ASSUME NEW x, NEW ld, NEW more, LoadedOK(ld), LoadedOK(more), MoreLoaded(ld, more),
         Sending(x, ld)
  PROVE  Sending(x, more)
<1>1. PICK e : /\ x.entry = {e} /\ Declared(e) /\ CanApply(e, x.definition)
               /\ x.query = Compose(e, x.definition) /\ Dates(x.through, e, ld)
  BY DEF Sending
<1>2. ld[e.source] \in Nat /\ more[e.source] \in Nat /\ ld[e.source] <= more[e.source]
  <2>1. e.source \in DOMAIN Tables
    BY <1>1, DeclaredIsOK DEF EntryOK
  <2>2. Len(Tables[e.source]) \in Nat
    BY <2>1, DefinitionsAssumption DEF IsSequence
  <2> QED  BY <2>1, <2>2 DEF LoadedOK, MoreLoaded
<1>3. \A i \in 1..ld[e.source] : i \in 1..more[e.source]
  BY <1>2
<1>4. Dates(x.through, e, more)
  BY <1>1, <1>3 DEF Dates
<1> QED
  BY <1>1, <1>4 DEF Sending

-----------------------------------------------------------------------------
(* Every state is sound. *)

LEMMA SoundInit == Init => Sound
<1> SUFFICES ASSUME Init PROVE Sound
  OBVIOUS
<1>1. WorldOK
  <2>1. loaded \in Starts /\ questions \in Questions /\ today \in WorkDays
    BY DEF Init
  <2>2. deployed \in DOMAIN Mappings
    <3>1. Len(Mappings) \in Nat /\ Len(Mappings) # 0 /\ DOMAIN Mappings = 1..Len(Mappings)
      <4>1. IsSequence(Mappings) /\ Mappings # <<>>
        BY DefinitionsAssumption
      <4>2. IsList(Mappings) /\ Len(Mappings) \in Nat /\ DOMAIN Mappings = 1..Len(Mappings)
        BY <4>1, SequenceIsList
      <4>3. Len(Mappings) = 0 => Mappings = <<>>
        BY <4>1, <4>2 DEF IsSequence
      <4> QED  BY <4>1, <4>2, <4>3
    <3> QED  BY <3>1 DEF Init
  <2>3. LoadedOK(loaded)
    BY <2>1, DefinitionsAssumption DEF LoadedOK
  <2>4. withdrawn \subseteq Docs
    BY DEF Init
  <2> QED  BY <2>1, <2>2, <2>3, <2>4 DEF WorldOK
<1>2. DraftsOK
  BY DEF Init, DraftsOK, NoDraft
<1>3. RunsOK
  <2>1. IsList(<<>>) /\ Len(<<>>) = 0
    BY SingleList
  <2> QED  BY <2>1 DEF Init, RunsOK, NoDraft
<1> QED
  BY <1>1, <1>2, <1>3 DEF Sound

\* The environment touches no draft; a load only adds rows.
LEMMA SoundOutside ==
  ASSUME Sound, \/ NextDay \/ Deploy \/ (\E t \in DOMAIN Tables : Load(t))
                \/ (\E doc \in Docs : Withdraw(doc)) \/ UNCHANGED vars
  PROVE  Sound'
<1>1. /\ draft' = draft /\ runs' = runs /\ questions' = questions
  BY DEF NextDay, Deploy, Load, Withdraw, vars
<1>2. LoadedOK(loaded) /\ LoadedOK(loaded') /\ MoreLoaded(loaded, loaded')
  <2>1. LoadedOK(loaded)
    BY DEF Sound, WorldOK
  <2>2. \A t \in DOMAIN Tables : Len(Tables[t]) \in Nat
    BY DefinitionsAssumption DEF IsSequence
  <2>3. CASE loaded' = loaded
    BY <2>1, <2>2, <2>3 DEF LoadedOK, MoreLoaded
  <2>4. CASE \E t \in DOMAIN Tables : Load(t)
    <3>1. PICK t \in DOMAIN Tables : Load(t)
      BY <2>4
    <3>2. loaded' = [loaded EXCEPT ![t] = loaded[t] + 1] /\ loaded[t] < Len(Tables[t])
      BY <3>1 DEF Load
    <3> QED  BY <2>1, <2>2, <3>2 DEF LoadedOK, MoreLoaded
  <2> QED  BY <2>1, <2>3, <2>4 DEF NextDay, Deploy, Withdraw, vars
<1>3. WorldOK'
  <2>1. questions' \in Questions /\ today' \in WorkDays
    BY <1>1 DEF Sound, WorldOK, NextDay, Deploy, Load, Withdraw, vars
  <2>2. withdrawn' \subseteq Docs
    BY DEF Sound, WorldOK, NextDay, Deploy, Load, Withdraw, vars
  <2>3. deployed' \in DOMAIN Mappings
    <3>1. Len(Mappings) \in Nat /\ DOMAIN Mappings = 1..Len(Mappings)
      BY DefinitionsAssumption, SequenceIsList
    <3>2. deployed \in 1..Len(Mappings)
      BY <3>1 DEF Sound, WorldOK
    <3> QED  BY <3>1, <3>2 DEF NextDay, Deploy, Load, Withdraw, vars
  <2> QED  BY <1>2, <2>1, <2>2, <2>3 DEF WorldOK
<1>4. DraftsOK'
  <2>1. draft.status = "none" => draft' = NoDraft
    BY <1>1 DEF Sound, DraftsOK
  <2>2. draft.status = "dated" => (draft.status # "none" /\ Sending(draft, loaded))
    BY DEF Sound, DraftsOK, DraftOK
  <2>3. draft.status = "dated" => Sending(draft, loaded')
    BY <1>2, <2>2, SendingKept
  <2>4. ASSUME draft.status # "none" PROVE DraftOK(draft, questions, loaded')
    BY <2>3, <2>4 DEF Sound, DraftsOK, DraftOK
  <2> QED  BY <1>1, <2>1, <2>4 DEF DraftsOK
<1>5. RunsOK'
  BY <1>1 DEF Sound, RunsOK
<1> QED
  BY <1>3, <1>4, <1>5 DEF Sound

\* Everything of a draft that an action changes after its preparation.
LEMMA DraftStays ==
  ASSUME Sound, draft.status # "none", NEW y, DraftShape(y), SameDraft(draft, y),
         y.status \in Statuses, y.day \in WorkDays, DefOK(y.definition),
         y.status \in Complete4 => y.definition.missing = {},
         NEW ld, y.status = "dated" => Sending(y, ld)
  PROVE  /\ DraftOK(y, questions, ld) /\ y.status # "none"
         /\ \A i \in 1..Len(runs) : RunOK(runs[i]) /\ runs[i].n <= y.n
<1>1. DraftOK(draft, questions, loaded)
  BY DEF Sound, DraftsOK
<1>2. DraftOK(y, questions, ld)
  BY <1>1 DEF DraftOK, SameDraft
<1>3. y.n = draft.n /\ y.status # "none"
  BY DEF SameDraft, Statuses, Complete4
<1> QED
  BY <1>2, <1>3 DEF Sound, RunsOK

LEMMA SoundConfirm ==
  ASSUME Sound, Confirm
  PROVE  Sound'
<1>1. /\ draft.status = "awaiting" /\ draft' = [draft EXCEPT !.status = "confirmed", !.day = today]
      /\ questions' = questions /\ today' = today /\ deployed' = deployed
      /\ withdrawn' = withdrawn /\ loaded' = loaded /\ runs' = runs
  BY DEF Confirm
<1>2. DraftOK(draft, questions, loaded) /\ today \in WorkDays
  BY <1>1 DEF Sound, DraftsOK, WorldOK
<1>3. /\ DraftShape(draft') /\ SameDraft(draft, draft') /\ draft'.definition = draft.definition
      /\ draft'.status = "confirmed" /\ draft'.day = today
  <2>1. DraftShape(draft)
    BY <1>2 DEF DraftOK
  <2> QED  BY <1>1, <2>1 DEF DraftShape, DraftFields, SameDraft
<1>4. draft'.status \in Statuses /\ draft.status \in Complete4 /\ draft'.status # "dated"
  BY <1>1, <1>3 DEF Statuses, Complete4
<1>5. /\ DraftOK(draft', questions, loaded) /\ draft'.status # "none"
      /\ \A i \in 1..Len(runs) : RunOK(runs[i]) /\ runs[i].n <= draft'.n
  BY <1>1, <1>2, <1>3, <1>4, DraftStays DEF DraftOK
<1> QED
  BY <1>1, <1>3, <1>5 DEF Sound, WorldOK, DraftsOK, RunsOK

LEMMA SoundExpire ==
  ASSUME Sound, Expire
  PROVE  Sound'
<1>1. /\ draft.status \in {"needs", "awaiting", "confirmed"}
      /\ draft' = [draft EXCEPT !.status = "expired"]
      /\ questions' = questions /\ today' = today /\ deployed' = deployed
      /\ withdrawn' = withdrawn /\ loaded' = loaded /\ runs' = runs
  BY DEF Expire
<1>2. draft.status # "none" /\ DraftOK(draft, questions, loaded)
  BY <1>1 DEF Sound, DraftsOK
<1>3. /\ DraftShape(draft') /\ SameDraft(draft, draft') /\ draft'.definition = draft.definition
      /\ draft'.status = "expired" /\ draft'.day = draft.day
  BY <1>1, <1>2, ExpiredDraft DEF DraftOK
<1>4. draft'.status \in Statuses /\ draft'.status \notin Complete4
  BY <1>3 DEF Statuses, Complete4
<1>5. /\ DraftOK(draft', questions, loaded) /\ draft'.status # "none"
      /\ \A i \in 1..Len(runs) : RunOK(runs[i]) /\ runs[i].n <= draft'.n
  BY <1>2, <1>3, <1>4, DraftStays DEF DraftOK
<1> QED
  BY <1>1, <1>3, <1>5 DEF Sound, WorldOK, DraftsOK, RunsOK

LEMMA SoundFail ==
  ASSUME Sound, Fail
  PROVE  Sound'
<1>1. /\ draft.status = "dated"
      /\ draft' = [draft EXCEPT !.status = "confirmed", !.query = <<>>, !.through = {}, !.entry = {}]
      /\ questions' = questions /\ today' = today /\ deployed' = deployed
      /\ withdrawn' = withdrawn /\ loaded' = loaded /\ runs' = runs
  BY DEF Fail, RunOver
<1>2. draft.status # "none" /\ DraftOK(draft, questions, loaded)
  BY <1>1 DEF Sound, DraftsOK
<1>3. /\ DraftShape(draft') /\ SameDraft(draft, draft') /\ draft'.definition = draft.definition
      /\ draft'.status = "confirmed" /\ draft'.day = draft.day
  <2>1. DraftShape(draft)
    BY <1>2 DEF DraftOK
  <2> DEFINE y == [draft EXCEPT !.status = "confirmed", !.query = <<>>, !.through = {}, !.entry = {}]
  <2>2. /\ DraftShape(y) /\ SameDraft(draft, y) /\ y.definition = draft.definition
        /\ y.status = "confirmed" /\ y.day = draft.day
    BY <2>1, OverDraft
  <2>3. draft' = y
    BY <1>1
  <2> HIDE DEF y
  <2> QED  BY <2>2, <2>3
<1>4. draft'.status \in Statuses /\ draft.status \in Complete4 /\ draft'.status # "dated"
  BY <1>1, <1>3 DEF Statuses, Complete4
<1>5. /\ DraftOK(draft', questions, loaded) /\ draft'.status # "none"
      /\ \A i \in 1..Len(runs) : RunOK(runs[i]) /\ runs[i].n <= draft'.n
  BY <1>2, <1>3, <1>4, DraftStays DEF DraftOK
<1> QED
  BY <1>1, <1>3, <1>5 DEF Sound, WorldOK, DraftsOK, RunsOK

LEMMA LookupDeclared ==
  ASSUME NEW i \in DOMAIN Mappings, NEW d, NEW e \in Lookup(Mappings[i], d)
  PROVE  Lookup(Mappings[i], d) = {e} /\ Declared(e)
  BY DEF Lookup, Declared

LEMMA LargestOfARow ==
  ASSUME NEW n \in Nat, n > 0, NEW t, \A i \in 1..n : t[i] \in Nat
  PROVE  \E k \in 1..n : /\ Max({t[i] : i \in 1..n}) = t[k]
                         /\ \A j \in 1..n : t[j] <= t[k]
<1> DEFINE L == {m \in Nat : 1 <= m /\ m <= n => \E k \in 1..m : \A j \in 1..m : t[j] <= t[k]}
<1>1. 0 \in L
  OBVIOUS
<1>2. ASSUME NEW m \in L PROVE m + 1 \in L
  <2>1. m \in Nat /\ (m >= 1 /\ m <= n => \E k \in 1..m : \A j \in 1..m : t[j] <= t[k])
    BY <1>2
  <2>2. CASE m = 0
    BY <2>2
  <2>3. CASE m >= 1 /\ m + 1 <= n
    <3>1. PICK k \in 1..m : \A j \in 1..m : t[j] <= t[k]
      BY <2>1, <2>3
    <3>2. t[k] \in Nat /\ t[m + 1] \in Nat /\ \A j \in 1..m : t[j] \in Nat
      BY <2>1, <2>3
    <3>3. CASE t[m + 1] <= t[k]
      BY <2>1, <3>1, <3>3
    <3>4. CASE t[k] <= t[m + 1]
      BY <2>1, <3>1, <3>2, <3>4
    <3> QED  BY <3>2, <3>3, <3>4
  <2> QED  BY <2>1, <2>2, <2>3
<1> HIDE DEF L
<1>3. L = Nat
  BY <1>1, <1>2, NatSetInduction DEF L
<1>4. PICK k \in 1..n : \A j \in 1..n : t[j] <= t[k]
  BY <1>3 DEF L
<1> DEFINE S == {t[i] : i \in 1..n}
<1>5. t[k] \in S /\ \A y \in S : y \in Nat /\ t[k] >= y
  BY <1>4
<1>6. Max(S) \in S /\ \A y \in S : Max(S) >= y
  BY <1>5 DEF Max
<1>7. Max(S) = t[k]
  <2> DEFINE greatest == Max(S)
  <2>1. greatest \in Nat /\ greatest >= t[k] /\ t[k] >= greatest /\ t[k] \in Nat
    BY <1>5, <1>6
  <2> HIDE DEF greatest
  <2>2. greatest = t[k]
    BY <2>1
  <2> QED  BY <2>2 DEF greatest
<1> QED
  BY <1>4, <1>7

\* What dates the data of a definition whose entry the mapping has.
LEMMA DatedByItsEntry ==
  ASSUME NEW templates, NEW d, NEW e, Lookup(templates, d) = {e}, Declared(e),
         NEW ld, LoadedOK(ld), NEW works \in BOOLEAN
  PROVE  Dates(UNION {IF works THEN Newest(t, ld) ELSE {} : t \in FreshnessTargets(templates, d)},
               e, ld)
<1>1. FreshnessTargets(templates, d) = IF ~e.whole /\ e.time # "" THEN {<<e.source, e.time>>} ELSE {}
  BY DEF FreshnessTargets
<1> DEFINE n == ld[e.source]
           time == [i \in 1..n |-> Tables[e.source][i][e.time]]
<1>2. e.source \in DOMAIN Tables /\ Len(Tables[e.source]) \in Nat
      /\ DOMAIN Tables[e.source] = 1..Len(Tables[e.source])
  <2>1. e.source \in DOMAIN Tables
    BY DeclaredIsOK DEF EntryOK
  <2> QED  BY <2>1, DefinitionsAssumption DEF IsSequence
<1>3. n \in Nat /\ n <= Len(Tables[e.source])
  BY <1>2 DEF LoadedOK
<1> HIDE DEF n
<1>4. ASSUME ~e.whole, e.time # "", NEW day \in Newest(<<e.source, e.time>>, ld)
      PROVE  \E i \in 1..ld[e.source] : day = Tables[e.source][i][e.time]
  <2> DEFINE days == {time[i] : i \in 1..n}
  <2>1. Newest(<<e.source, e.time>>, ld) = IF days = {} THEN {} ELSE {Max(days)}
    BY DEF Newest, n
  <2>2. \A i \in 1..n : Tables[e.source][i][e.time] \in Nat
    <3>1. \A i \in DOMAIN Tables[e.source] : Tables[e.source][i][e.time] \in Nat
      BY <1>4, DeclaredIsOK DEF EntryOK
    <3>2. \A i \in 1..n : i \in 1..Len(Tables[e.source])
      BY <1>2, <1>3
    <3> QED  BY <1>2, <3>1, <3>2
  <2>3. \A i \in 1..n : time[i] \in Nat
    BY <2>2
  <2>4. n > 0 /\ day = Max(days)
    <3>1. day = Max(days) /\ days # {}
      BY <1>4, <2>1
    <3>2. \E i \in 1..n : TRUE
      BY <3>1
    <3> QED  BY <1>3, <3>1, <3>2
  <2> HIDE DEF time
  <2>5. \E k \in 1..n : day = time[k]
    BY <1>3, <2>3, <2>4, LargestOfARow
  <2> QED  BY <2>5 DEF time, n
<1> DEFINE through == UNION {IF works THEN Newest(t, ld) ELSE {} : t \in FreshnessTargets(templates, d)}
<1>5. through = IF works /\ ~e.whole /\ e.time # "" THEN Newest(<<e.source, e.time>>, ld) ELSE {}
  BY <1>1
<1> HIDE DEF through
<1>6. Dates(through, e, ld)
  BY <1>4, <1>5 DEF Dates
<1> QED
  BY <1>6 DEF through

LEMMA SoundDate ==
  ASSUME Sound, DateTheData
  PROVE  Sound'
<1>1. PICK query \in Compile(Templates, draft.definition), works \in BOOLEAN :
        draft' = [draft EXCEPT
                    !.status = "dated", !.query = query,
                    !.entry = Lookup(Templates, draft.definition),
                    !.through = UNION {IF works THEN Newest(t, loaded) ELSE {} :
                                  t \in FreshnessTargets(Templates, draft.definition)}]
  BY DEF DateTheData
<1>2. /\ draft.status = "confirmed"
      /\ questions' = questions /\ today' = today /\ deployed' = deployed
      /\ withdrawn' = withdrawn /\ loaded' = loaded /\ runs' = runs
  BY DEF DateTheData
<1>3. draft.status # "none" /\ DraftOK(draft, questions, loaded) /\ LoadedOK(loaded)
  BY <1>2 DEF Sound, DraftsOK, WorldOK
<1> DEFINE d == draft.definition
           entry == Lookup(Templates, d)
           through == UNION {IF works THEN Newest(t, loaded) ELSE {} : t \in FreshnessTargets(Templates, d)}
<1>4. PICK e \in entry : CanApply(e, d) /\ query = Compose(e, d)
  BY <1>1 DEF Compile
<1>5. entry = {e} /\ Declared(e)
  BY LookupDeclared DEF Templates, Sound, WorldOK
<1>6. Dates(through, e, loaded)
  BY <1>3, <1>5, DatedByItsEntry
<1> HIDE DEF entry, through
<1>7. /\ DraftShape(draft') /\ SameDraft(draft, draft') /\ draft'.definition = d
      /\ draft'.status = "dated" /\ draft'.day = draft.day /\ draft'.query = query
      /\ draft'.entry = entry /\ draft'.through = through
  <2>1. draft' = [draft EXCEPT !.status = "dated", !.query = query, !.entry = entry, !.through = through]
    BY <1>1 DEF entry, through
  <2>2. DraftShape(draft)
    BY <1>3 DEF DraftOK
  <2> QED  BY <2>1, <2>2 DEF DraftShape, DraftFields, SameDraft
<1>8. Sending(draft', loaded)
  BY <1>4, <1>5, <1>6, <1>7 DEF Sending
<1>9. draft'.status \in Statuses /\ draft.status \in Complete4
  BY <1>2, <1>7 DEF Statuses, Complete4
<1>10. /\ DraftOK(draft', questions, loaded) /\ draft'.status # "none"
       /\ \A i \in 1..Len(runs) : RunOK(runs[i]) /\ runs[i].n <= draft'.n
  BY <1>3, <1>7, <1>8, <1>9, DraftStays DEF DraftOK
<1> QED
  BY <1>2, <1>7, <1>10 DEF Sound, WorldOK, DraftsOK, RunsOK

\* The run that is over.
NewRun ==
  [n |-> draft.n, actor |-> draft.actor, definition |-> draft.definition, day |-> draft.day,
   entry |-> draft.entry, stands |-> TRUE, loaded |-> loaded,
   answer |-> Execute(draft.query, loaded),
   reach |-> Coverage(PeriodOf(draft.definition), draft.through,
                      \A e \in draft.entry : ~e.whole /\ e.time # "")]

LEMMA NewRunIsSound ==
  ASSUME Sound, draft.status = "dated"
  PROVE  RunOK(NewRun) /\ NewRun.n = draft.n
<1>1. DraftOK(draft, questions, loaded) /\ LoadedOK(loaded)
  BY DEF Sound, DraftsOK, WorldOK
<1>2. PICK e : /\ draft.entry = {e} /\ Declared(e) /\ CanApply(e, draft.definition)
               /\ draft.query = Compose(e, draft.definition) /\ Dates(draft.through, e, loaded)
  BY <1>1 DEF DraftOK, Sending
<1>3. /\ RunShape(NewRun) /\ NewRun.n = draft.n /\ NewRun.definition = draft.definition
      /\ NewRun.day = draft.day /\ NewRun.entry = draft.entry /\ NewRun.loaded = loaded
      /\ NewRun.answer = Execute(draft.query, loaded)
      /\ NewRun.reach = Coverage(PeriodOf(draft.definition), draft.through,
                                 \A x \in draft.entry : ~x.whole /\ x.time # "")
  BY DEF NewRun, RunShape, RunFields
<1>4. (\A x \in draft.entry : ~x.whole /\ x.time # "") <=> (~e.whole /\ e.time # "")
  BY <1>2
<1>5. NewRun.reach = Coverage(PeriodOf(draft.definition), draft.through, ~e.whole /\ e.time # "")
  <2>1. (\A x \in draft.entry : ~x.whole /\ x.time # "") = (~e.whole /\ e.time # "")
    BY <1>4
  <2> QED  BY <1>3, <2>1
<1>6. Answered(NewRun, e, draft.through)
  BY <1>2, <1>3, <1>5 DEF Answered
<1>7. draft.definition.missing = {}
  BY <1>1 DEF DraftOK, Complete4
<1>8. draft.n \in Nat
  BY <1>1 DEF DraftOK
<1> QED
  BY <1>1, <1>3, <1>6, <1>7, <1>8 DEF RunOK, DraftOK

LEMMA AppendedList ==
  ASSUME NEW s, IsList(s), NEW x
  PROVE  /\ IsList(Append(s, x)) /\ Len(Append(s, x)) = Len(s) + 1 /\ Len(s) \in Nat
         /\ \A i \in 1..Len(s) : Append(s, x)[i] = s[i]
         /\ Append(s, x)[Len(s) + 1] = x
<1>1. Len(s) \in Nat /\ \A i \in 1..Len(s) : s[i] \in ToSet(s)
  BY ListFacts
<1> DEFINE T == ToSet(s) \cup {x}
<1>2. s \in Seq(T)
  BY <1>1 DEF IsList
<1> HIDE DEF T
<1>3. /\ Append(s, x) \in Seq(T \cup {x}) /\ Len(Append(s, x)) = Len(s) + 1
      /\ \A i \in 1..Len(s) : Append(s, x)[i] = s[i]
      /\ Append(s, x)[Len(s) + 1] = x
  BY <1>1, <1>2
<1>4. IsList(Append(s, x))
  BY <1>3, OfAType
<1> QED
  BY <1>1, <1>3, <1>4

LEMMA SoundFinish ==
  ASSUME Sound, Finish
  PROVE  Sound'
<1>1. /\ draft.status = "dated"
      /\ draft' = [draft EXCEPT !.status = "ran", !.query = <<>>, !.through = {}, !.entry = {}]
      /\ runs' = Append(runs, NewRun)
      /\ questions' = questions /\ today' = today /\ deployed' = deployed
      /\ withdrawn' = withdrawn /\ loaded' = loaded
  BY DEF Finish, RunOver, NewRun
<1>2. draft.status # "none" /\ DraftOK(draft, questions, loaded)
  BY <1>1 DEF Sound, DraftsOK
<1>3. /\ DraftShape(draft') /\ SameDraft(draft, draft') /\ draft'.definition = draft.definition
      /\ draft'.status = "ran" /\ draft'.day = draft.day
  BY <1>1, <1>2, OverDraft DEF DraftOK
<1>4. draft'.status \in Statuses /\ draft.status \in Complete4 /\ draft'.status # "dated"
  BY <1>1, <1>3 DEF Statuses, Complete4
<1>5. /\ DraftOK(draft', questions, loaded) /\ draft'.status # "none"
      /\ \A i \in 1..Len(runs) : RunOK(runs[i]) /\ runs[i].n <= draft'.n
  BY <1>2, <1>3, <1>4, DraftStays DEF DraftOK
<1>6. RunOK(NewRun) /\ NewRun.n <= draft'.n
  <2>1. RunOK(NewRun) /\ NewRun.n = draft.n
    BY <1>1, NewRunIsSound
  <2>2. draft'.n = draft.n /\ draft.n \in Nat
    BY <1>2, <1>3 DEF SameDraft, DraftOK
  <2> QED  BY <2>1, <2>2
<1>7. RunsOK'
  <2>1. IsList(runs)
    BY DEF Sound, RunsOK
  <2>2. /\ IsList(runs') /\ Len(runs') = Len(runs) + 1 /\ Len(runs) \in Nat
        /\ \A i \in 1..Len(runs) : runs'[i] = runs[i]
        /\ runs'[Len(runs) + 1] = NewRun
    BY <1>1, <2>1, AppendedList
  <2>3. \A i \in 1..Len(runs') : i \in 1..Len(runs) \/ i = Len(runs) + 1
    BY <2>2
  <2>4. ASSUME NEW i \in 1..Len(runs') PROVE RunOK(runs'[i]) /\ runs'[i].n <= draft'.n
    BY <1>5, <1>6, <2>2, <2>3
  <2>5. Len(runs') > 0
    BY <2>2
  <2> QED  BY <2>2, <2>4, <2>5 DEF RunsOK
<1> QED
  BY <1>1, <1>3, <1>5, <1>7 DEF Sound, WorldOK, DraftsOK

LEMMA AnswerKeeps ==
  ASSUME Sound, NEW door, NEW a \in Amendments, draft.status # "none",
         Answerable(draft.definition, a, today)
  PROVE  LET rules == AnswerRules(draft.definition, a, Authoring(door), today)
             d == WithRules(draft.definition, rules)
         IN /\ IsList(rules) /\ \A r \in ToSet(rules) : r.source \in {"user", "agent"}
            /\ DefOK(d) /\ d.metric = draft.definition.metric
            /\ HistoryOf(d) \subseteq HistoryOf(draft.definition)
<1> DEFINE was == draft.definition
           rules == AnswerRules(was, a, Authoring(door), today)
           d == WithRules(was, rules)
<1>1. DefOK(was) /\ today \in WorkDays
  BY DEF Sound, DraftsOK, DraftOK, WorldOK
<1>2. AreAnswers(rules, Authoring(door))
  BY <1>1, AnswerRulesAreAnswers
<1>3. Authoring(door) \in {"user", "agent"}
  BY DEF Authoring
<1> HIDE DEF was, rules
<1>4. IsList(rules) /\ \A r \in ToSet(rules) : /\ r.source \in {"user", "agent"}
                                               /\ r.key = "period" => r.value \in GoodPeriods
  BY <1>2, <1>3 DEF AreAnswers
<1>5. IsDef(was)
  BY <1>1 DEF DefOK
<1>6. /\ IsDef(d) /\ d.metric = was.metric /\ d.candidates = was.candidates
      /\ RulesOf(d) = {r \in RulesOf(was) : r.key \notin KeysIn(rules)} \cup ToSet(rules)
  BY <1>4, <1>5, WithRulesFacts
<1> HIDE DEF d
<1>7. DefOK(d)
  BY <1>1, <1>4, <1>6 DEF DefOK
<1>8. HistoryOf(d) \subseteq HistoryOf(was)
  BY <1>4, <1>6 DEF HistoryOf
<1> QED
  BY <1>4, <1>6, <1>7, <1>8 DEF was, rules, d

\* What an answer changes of the draft and the runs.
AmendedTo(x, rs, d) ==
  /\ DraftShape(x) /\ SameDraft(draft, x) /\ x.definition = d
  /\ x.status = StatusOf(d) /\ x.day = draft.day
  /\ rs = IF draft.status = "ran" THEN [runs EXCEPT ![Len(runs)].stands = FALSE] ELSE runs

LEMMA AmendIs ==
  ASSUME Sound, NEW door, NEW a \in Amendments, Amend(door, a)
  PROVE  \E rules, d :
           /\ d = WithRules(draft.definition, rules) /\ IsList(rules)
           /\ \A r \in ToSet(rules) : r.source \in {"user", "agent"}
           /\ DefOK(d) /\ d.metric = draft.definition.metric
           /\ HistoryOf(d) \subseteq HistoryOf(draft.definition)
           /\ AmendedTo(draft', runs', d)
<1>1. draft.status # "none" /\ Answerable(draft.definition, a, today)
  BY DEF Amend
<1> DEFINE rules == AnswerRules(draft.definition, a, Authoring(door), today)
           d == WithRules(draft.definition, rules)
<1>2. draft' = [draft EXCEPT !.definition = d, !.status = StatusOf(d), !.amended = draft.amended + 1]
  BY DEF Amend
<1>3. /\ IsList(rules) /\ \A r \in ToSet(rules) : r.source \in {"user", "agent"}
      /\ DefOK(d) /\ d.metric = draft.definition.metric
      /\ HistoryOf(d) \subseteq HistoryOf(draft.definition)
  BY <1>1, AnswerKeeps
<1>4. DraftShape(draft)
  BY <1>1 DEF Sound, DraftsOK, DraftOK
<1>5. d = WithRules(draft.definition, rules)
  OBVIOUS
<1> HIDE DEF d, rules
<1>6. /\ DraftShape(draft') /\ SameDraft(draft, draft') /\ draft'.definition = d
      /\ draft'.status = StatusOf(d) /\ draft'.day = draft.day
  BY <1>2, <1>4 DEF DraftShape, DraftFields, SameDraft
<1>7. runs' = IF draft.status = "ran" THEN [runs EXCEPT ![Len(runs)].stands = FALSE] ELSE runs
  BY DEF Amend
<1>8. AmendedTo(draft', runs', d)
  BY <1>6, <1>7 DEF AmendedTo
<1> QED
  BY <1>3, <1>5, <1>8

\* An amended run keeps what it was asked and what it answered.
SameRun(r, q) ==
  /\ q.n = r.n /\ q.actor = r.actor /\ q.definition = r.definition
  /\ q.day = r.day /\ q.entry = r.entry

LEMMA AmendedRuns ==
  ASSUME Sound, NEW rs,
         rs = IF draft.status = "ran" THEN [runs EXCEPT ![Len(runs)].stands = FALSE] ELSE runs
  PROVE  /\ IsList(rs) /\ Len(rs) = Len(runs) /\ Len(runs) \in Nat
         /\ \A i \in 1..Len(runs) : RunOK(rs[i]) /\ SameRun(runs[i], rs[i])
<1>1. IsList(runs) /\ \A i \in 1..Len(runs) : RunOK(runs[i])
  BY DEF Sound, RunsOK
<1>2. Len(runs) \in Nat /\ DOMAIN runs = 1..Len(runs)
  BY <1>1, ListFacts
<1>3. CASE draft.status # "ran"
  BY <1>1, <1>2, <1>3 DEF SameRun
<1>4. CASE draft.status = "ran"
  <2> DEFINE n == Len(runs)
             last == [runs[n] EXCEPT !.stands = FALSE]
  <2>1. n \in 1..n
    BY <1>2, <1>4 DEF Sound, RunsOK
  <2>2. RunOK(runs[n])
    BY <1>1, <2>1
  <2>3. RunOK(last) /\ SameRun(runs[n], last)
    BY <2>2, AmendedRun DEF SameRun
  <2> HIDE DEF last
  <2>4. rs = [i \in 1..n |-> IF i = n THEN last ELSE runs[i]]
    <3>1. rs = [runs EXCEPT ![n] = last]
      BY <1>4 DEF last
    <3>2. runs \in [1..n -> ToSet(runs)]
      BY <1>1, <1>2 DEF IsList
    <3> QED  BY <1>2, <3>1, <3>2
  <2>5. \A i \in 1..n : RunOK(rs[i]) /\ SameRun(runs[i], rs[i])
    BY <1>1, <2>3, <2>4 DEF SameRun
  <2>6. IsList(rs) /\ Len(rs) = n
    <3>1. n \in Nat
      BY <1>2
    <3> HIDE DEF n
    <3>2. rs = [i \in 1..n |-> rs[i]]
      BY <2>4
    <3> QED  BY <3>1, <3>2, MappedList
  <2> QED  BY <1>2, <2>5, <2>6
<1> QED
  BY <1>3, <1>4

LEMMA SoundAmend ==
  ASSUME Sound, NEW door, NEW a \in Amendments, Amend(door, a)
  PROVE  Sound'
<1>1. PICK d : DefOK(d) /\ AmendedTo(draft', runs', d)
  BY AmendIs
<1>2. /\ draft.status # "none" /\ questions' = questions /\ today' = today /\ deployed' = deployed
      /\ withdrawn' = withdrawn /\ loaded' = loaded
  BY DEF Amend
<1>3. StatusOf(d) \in {"awaiting", "needs"} /\ (StatusOf(d) \in Complete4 => d.missing = {})
  BY StatusFacts
<1>4. /\ DraftShape(draft') /\ SameDraft(draft, draft') /\ draft'.definition = d
      /\ draft'.status \in {"awaiting", "needs"} /\ draft'.day = draft.day
      /\ draft'.status \in Complete4 => d.missing = {}
  BY <1>1, <1>3 DEF AmendedTo
<1>5. draft'.status \in Statuses /\ draft'.status # "dated" /\ draft.day \in WorkDays
  BY <1>2, <1>4 DEF Statuses, Complete4, Sound, DraftsOK, DraftOK
<1>6. /\ DraftOK(draft', questions, loaded) /\ draft'.status # "none"
      /\ \A i \in 1..Len(runs) : RunOK(runs[i]) /\ runs[i].n <= draft'.n
  BY <1>1, <1>2, <1>4, <1>5, DraftStays
<1>7. /\ IsList(runs') /\ Len(runs') = Len(runs) /\ Len(runs) \in Nat
      /\ \A i \in 1..Len(runs) : RunOK(runs'[i]) /\ SameRun(runs[i], runs'[i])
  BY <1>1, AmendedRuns DEF AmendedTo
<1>8. RunsOK'
  <2>1. draft'.status # "ran"
    BY <1>4
  <2> QED  BY <1>6, <1>7, <2>1 DEF RunsOK, SameRun
<1> QED
  BY <1>2, <1>6, <1>8 DEF Sound, WorldOK, DraftsOK

\* What a finished run may teach a later draft of its person.
Teaches(run, x, r) ==
  /\ run.actor = x.actor /\ run.n < x.n /\ run.definition.metric = x.definition.metric
  /\ run.day + MaxAge >= x.asked
  /\ run.entry = Lookup(Mappings[x.since], run.definition)
  /\ \E was \in RulesOf(run.definition) :
       /\ was.key = r.key /\ was.source # "doc" /\ was.value = r.value
       /\ was.ref # NoRef => was.ref[1] \notin x.gone

FillsGaps(x, rs) ==
  /\ HistoryOf(x.definition) # {} => x.door = "person"
  /\ \A r \in HistoryOf(x.definition) : /\ r.key \in x.inner.missing \ NotRemembered
                                        /\ \E i \in 1..Len(rs) : Teaches(rs[i], x, r)
  /\ \A r, s \in HistoryOf(x.definition) : r.key = "variant" /\ s.key # "variant" =>
                                             s.implies = {} \/ r.value \in s.implies

\* What is remembered of a person's runs.
FromRun(run, actor, metric, w) ==
  /\ run.actor = actor /\ run.definition.metric = metric /\ run.day + MaxAge >= today
  /\ run.entry = Lookup(Templates, run.definition)
  /\ w \in RulesOf(run.definition) /\ w.source \in {"user", "history"}
  /\ w.key \notin NotRemembered /\ (w.ref # NoRef => w.ref[1] \notin withdrawn)

LEMMA RememberedFacts ==
  ASSUME Sound, NEW actor, NEW metric
  PROVE  /\ IsList(Remembered(actor, metric))
         /\ \A w \in ToSet(Remembered(actor, metric)) :
              /\ w.key \notin NotRemembered
              /\ \E i \in 1..Len(runs) : FromRun(runs[i], actor, metric, w)
<1> DEFINE mine == {i \in 1..Len(runs) : /\ runs[i].actor = actor
                                         /\ runs[i].definition.metric = metric
                                         /\ runs[i].stands}
           last == runs[Max(mine)]
           found == {r \in LastConfirmed(actor, metric) : r.entry = Lookup(Templates, r.definition)}
<1>1. IsList(runs) /\ \A i \in 1..Len(runs) : RunOK(runs[i])
  BY DEF Sound, RunsOK
<1>2. Len(runs) \in Nat /\ DOMAIN runs = 1..Len(runs)
  BY <1>1, ListFacts
<1>3. LastConfirmed(actor, metric)
        = IF mine = {} \/ last.day < today - MaxAge THEN {} ELSE {last}
  BY <1>2 DEF LastConfirmed
<1>4. mine # {} => Max(mine) \in mine
  <2>1. mine \in SUBSET (1..Len(runs))
    OBVIOUS
  <2> HIDE DEF mine
  <2> QED  BY <1>2, <2>1, LargestPosition
<1>5. CASE found = {}
  <2>1. Remembered(actor, metric) = <<>>
    BY <1>5 DEF Remembered, Fingerprint
  <2> QED  BY <2>1, SingleList
<1>6. CASE found # {}
  <2> HIDE DEF mine, last
  <2>1. /\ found = {last} /\ mine # {} /\ ~(last.day < today - MaxAge)
        /\ last.entry = Lookup(Templates, last.definition)
    BY <1>3, <1>6
  <2>2. (CHOOSE r \in found : TRUE) = last
    BY <2>1
  <2> HIDE DEF found
  <2> DEFINE rules == last.definition.rules
             I == {i \in 1..Len(rules) : /\ rules[i].source \in {"user", "history"}
                                         /\ rules[i].key \notin NotRemembered
                                         /\ rules[i].ref = NoRef \/ rules[i].ref[1] \notin withdrawn}
  <2>3. Remembered(actor, metric) = Picked(rules, I)
    BY <1>6, <2>2 DEF Remembered, Where, found, Fingerprint
  <2>4. PICK k \in 1..Len(runs) : /\ last = runs[k] /\ runs[k].actor = actor
                                  /\ runs[k].definition.metric = metric
    BY <1>4, <2>1 DEF mine, last
  <2>5. RunOK(last)
    BY <1>1, <2>4
  <2>6. IsList(rules) /\ last.day \in WorkDays
    BY <2>5 DEF RunOK, DefOK, IsDef
  <2>7. last.day + MaxAge >= today
    <3>1. last.day \in Nat /\ today \in Nat /\ MaxAge \in Nat
      BY <2>6, DefinitionsAssumption DEF Sound, WorldOK
    <3> QED  BY <2>1, <3>1
  <2>8. I \in SUBSET (1..Len(rules))
    OBVIOUS
  <2> HIDE DEF I
  <2>9. IsList(Picked(rules, I)) /\ ToSet(Picked(rules, I)) = {rules[i] : i \in I}
    BY <2>6, <2>8, PickedElements
  <2>10. ASSUME NEW i \in I
         PROVE  rules[i].key \notin NotRemembered /\ FromRun(runs[k], actor, metric, rules[i])
    <3>1. rules[i] \in RulesOf(last.definition)
      BY <2>6, <2>8, ListFacts DEF RulesOf
    <3> QED  BY <2>1, <2>4, <2>7, <3>1 DEF FromRun, I
  <2> QED  BY <2>3, <2>9, <2>10
<1> QED
  BY <1>5, <1>6

\* What a draft begins as.
LEMMA PrepareIs ==
  ASSUME Sound, NEW actor, NEW door \in Doors, Prepare(actor, door)
  PROVE  \E inner, d :
           /\ draft' = NewDraft(actor, door, inner, d)
           /\ DefOK(d) /\ d.metric = inner.metric
           /\ Explains(d, ClaimsOf(questions[draft.n + 1].output, withdrawn), Templates)
           /\ HistoryOf(d) # {} => door = "person"
           /\ \A r \in HistoryOf(d) :
                /\ r.key \in inner.missing \ NotRemembered
                /\ \E i \in 1..Len(runs) : \E w : /\ FromRun(runs[i], actor, inner.metric, w)
                                                  /\ w.key = r.key /\ w.value = r.value
           /\ \A r, s \in HistoryOf(d) : r.key = "variant" /\ s.key # "variant" =>
                                           s.implies = {} \/ r.value \in s.implies
<1> DEFINE asked == questions[draft.n + 1]
           text == FlattenSeq(asked.text)
           claims == ClaimsOf(asked.output, withdrawn)
           inner == Build(Templates, text, today, ShownOf(asked.output, withdrawn))
           d == Offered(actor, door, inner)
<1>1. MetricNamed(text) # {} /\ draft' = NewDraft(actor, door, inner, d) /\ draft.n < Len(questions)
  BY DEF Prepare, Shown, ShownOf
<1>2. TextOK(text) /\ IsSequence(asked.output) /\ today \in WorkDays
  <2>1. questions \in Questions /\ today \in WorkDays
    BY DEF Sound, WorldOK
  <2>2. IsSequence(questions)
    BY <2>1, DefinitionsAssumption
  <2>3. Len(questions) \in Nat /\ DOMAIN questions = 1..Len(questions)
    BY <2>2, SequenceIsList
  <2>4. draft.n \in Nat
    BY DEF Sound, DraftsOK, DraftOK, NoDraft
  <2>5. draft.n + 1 \in DOMAIN questions
    BY <1>1, <2>3, <2>4
  <2> QED  BY <2>1, <2>5, DefinitionsAssumption
<1> HIDE DEF asked
<1>3. /\ DefOK(inner) /\ Explains(inner, claims, Templates)
      /\ \A r \in RulesOf(inner) : r.source \in {"user", "doc"}
  <2> HIDE DEF text
  <2> QED  BY <1>1, <1>2, BuiltIsExplained
<1> HIDE DEF inner, text, claims
<1>4. CASE door = "agent"
  <2>1. d = inner
    BY <1>4 DEF Offered
  <2>2. HistoryOf(d) = {}
    BY <1>3, <2>1 DEF HistoryOf
  <2> QED  BY <1>1, <1>3, <2>1, <2>2 DEF asked, claims
<1>5. CASE door # "agent"
  <2> DEFINE past == Remembered(actor, inner.metric)
  <2>1. /\ IsList(past)
        /\ \A w \in ToSet(past) : /\ w.key \notin NotRemembered
                                  /\ \E i \in 1..Len(runs) : FromRun(runs[i], actor, inner.metric, w)
    BY RememberedFacts
  <2>2. d = Offer(inner, past)
    BY <1>5 DEF Offered
  <2> HIDE DEF past, d
  <2>3. DefOK(d) /\ d.metric = inner.metric /\ OnlyFillsGaps(inner, past, d) /\ Explains(d, claims, Templates)
    <3>1. LET e == Offer(inner, past)
          IN /\ DefOK(e) /\ e.metric = inner.metric /\ OnlyFillsGaps(inner, past, e)
             /\ \A C, templates : Explains(inner, C, templates) => Explains(e, C, templates)
      BY <1>3, <2>1, OfferFillsGaps
    <3> QED  BY <1>3, <2>2, <3>1
  <2>4. door = "person" \/ HistoryOf(d) = {}
    BY <1>5 DEF Doors
  <2>5. ASSUME NEW r \in HistoryOf(d)
        PROVE  /\ r.key \in inner.missing \ NotRemembered
               /\ \E i \in 1..Len(runs) : \E w : /\ FromRun(runs[i], actor, inner.metric, w)
                                                 /\ w.key = r.key /\ w.value = r.value
    <3>1. PICK w \in ToSet(past) : w.key = r.key /\ w.value = r.value
      BY <2>3 DEF OnlyFillsGaps
    <3>2. r.key \in inner.missing
      BY <2>3 DEF OnlyFillsGaps
    <3> QED  BY <2>1, <3>1, <3>2
  <2>6. \A r, s \in HistoryOf(d) : r.key = "variant" /\ s.key # "variant" =>
                                     s.implies = {} \/ r.value \in s.implies
    BY <2>3 DEF OnlyFillsGaps
  <2> QED  BY <1>1, <2>3, <2>4, <2>5, <2>6 DEF asked, claims, d
<1> QED
  BY <1>4, <1>5

LEMMA SoundPrepare ==
  ASSUME Sound, NEW actor, NEW door \in Doors, Prepare(actor, door)
  PROVE  Sound'
<1>1. PICK inner, d : draft' = NewDraft(actor, door, inner, d) /\ DefOK(d)
  BY PrepareIs
<1>2. /\ draft.n < Len(questions) /\ questions' = questions /\ today' = today
      /\ deployed' = deployed /\ withdrawn' = withdrawn /\ loaded' = loaded /\ runs' = runs
  BY DEF Prepare
<1>3. /\ DraftShape(draft') /\ draft'.status = StatusOf(d) /\ draft'.n = draft.n + 1
      /\ draft'.asked = today /\ draft'.day = today /\ draft'.since = deployed
      /\ draft'.definition = d
  BY <1>1, DraftFacts
<1>4. StatusOf(d) \in {"awaiting", "needs"} /\ (StatusOf(d) \in Complete4 => d.missing = {})
  BY StatusFacts
<1>5. draft.n \in Nat /\ today \in WorkDays /\ deployed \in DOMAIN Mappings
  BY DEF Sound, WorldOK, DraftsOK, DraftOK, NoDraft
<1>6. Len(questions) \in Nat
  BY DefinitionsAssumption DEF Sound, WorldOK, IsSequence
<1>7. draft'.n \in 1..Len(questions) /\ draft.n <= draft'.n
  BY <1>2, <1>3, <1>5, <1>6
<1>8. draft'.status \in Statuses /\ draft'.status \notin {"none", "dated", "ran"}
  BY <1>3, <1>4 DEF Statuses, Complete4
<1>9. DraftOK(draft', questions, loaded)
  BY <1>1, <1>3, <1>4, <1>5, <1>7, <1>8 DEF DraftOK
<1>10. \A i \in 1..Len(runs) : RunOK(runs[i]) /\ runs[i].n <= draft'.n
  <2>1. ASSUME NEW i \in 1..Len(runs) PROVE RunOK(runs[i]) /\ runs[i].n <= draft'.n
    <3>1. RunOK(runs[i]) /\ runs[i].n <= draft.n /\ runs[i].n \in Nat
      BY DEF Sound, RunsOK, RunOK
    <3> QED  BY <1>3, <1>5, <3>1
  <2> QED  BY <2>1
<1>11. RunsOK'
  BY <1>2, <1>8, <1>10 DEF Sound, RunsOK
<1> QED
  BY <1>2, <1>8, <1>9, <1>11 DEF Sound, WorldOK, DraftsOK

LEMMA SoundNext ==
  ASSUME Sound, [Next]_vars
  PROVE  Sound'
<1>1. CASE UNCHANGED vars
  BY <1>1, SoundOutside
<1>2. CASE NextDay \/ Deploy \/ (\E t \in DOMAIN Tables : Load(t)) \/ (\E doc \in Docs : Withdraw(doc))
  BY <1>2, SoundOutside
<1>3. CASE \E actor \in Subjects, door \in Doors : Prepare(actor, door)
  BY <1>3, SoundPrepare
<1>4. CASE \E door \in Doors, a \in Amendments : Amend(door, a)
  BY <1>4, SoundAmend
<1>5. CASE Confirm
  BY <1>5, SoundConfirm
<1>6. CASE Expire
  BY <1>6, SoundExpire
<1>7. CASE DateTheData
  BY <1>7, SoundDate
<1>8. CASE Finish
  BY <1>8, SoundFinish
<1>9. CASE Fail
  BY <1>9, SoundFail
<1> QED
  BY <1>1, <1>2, <1>3, <1>4, <1>5, <1>6, <1>7, <1>8, <1>9 DEF Next

\* Every state that is reached is sound: what is loaded lies within the tables,
\* a draft's definition is well formed and its period a range of days, one that
\* was confirmed has no gap, and a run sent, and answers, what the confirmed
\* definition compiles to.
THEOREM AlwaysSound == Spec => []Sound
<1>1. Init => Sound
  BY SoundInit
<1>2. Sound /\ [Next]_vars => Sound'
  BY SoundNext
<1> QED
  BY <1>1, <1>2, PTL DEF Spec

-----------------------------------------------------------------------------
(* Where the rules of a draft come from. *)

Told(x, qs) == Explains(x.definition, ClaimsOf(qs[x.n].output, x.gone), Mappings[x.since])
Sourced == draft.status # "none" => Told(draft, questions) /\ FillsGaps(draft, runs)

\* Answers only take remembered choices away, and runs are only added.
LEMMA FillsGapsKept ==
  ASSUME NEW x, NEW y, SameDraft(x, y), y.definition.metric = x.definition.metric,
         HistoryOf(y.definition) \subseteq HistoryOf(x.definition),
         NEW rs, NEW later, FillsGaps(x, rs),
         \A i \in 1..Len(rs) : i \in 1..Len(later) /\ SameRun(rs[i], later[i])
  PROVE  FillsGaps(y, later)
<1>1. ASSUME NEW r \in HistoryOf(y.definition)
      PROVE  /\ y.door = "person" /\ r.key \in y.inner.missing \ NotRemembered
             /\ \E i \in 1..Len(later) : Teaches(later[i], y, r)
  <2>1. r \in HistoryOf(x.definition)
    BY <1>1
  <2>2. x.door = "person" /\ r.key \in x.inner.missing \ NotRemembered
    BY <2>1 DEF FillsGaps
  <2>3. PICK i \in 1..Len(rs) : Teaches(rs[i], x, r)
    BY <2>1 DEF FillsGaps
  <2>4. i \in 1..Len(later) /\ SameRun(rs[i], later[i])
    BY <2>3
  <2>5. Teaches(later[i], y, r)
    BY <2>3, <2>4 DEF Teaches, SameRun, SameDraft
  <2> QED  BY <2>2, <2>4, <2>5 DEF SameDraft
<1>2. \A r, s \in HistoryOf(y.definition) : r.key = "variant" /\ s.key # "variant" =>
                                              s.implies = {} \/ r.value \in s.implies
  BY DEF FillsGaps
<1> QED
  BY <1>1, <1>2 DEF FillsGaps

LEMMA SourcedKept ==
  ASSUME Sourced, draft.status # "none", NEW y, SameDraft(draft, y),
         y.definition = draft.definition, NEW later,
         \A i \in 1..Len(runs) : i \in 1..Len(later) /\ SameRun(runs[i], later[i])
  PROVE  Told(y, questions) /\ FillsGaps(y, later)
<1>1. Told(draft, questions) /\ FillsGaps(draft, runs)
  BY DEF Sourced
<1>2. Told(y, questions)
  BY <1>1 DEF Told, SameDraft
<1>3. FillsGaps(y, later)
  BY <1>1, FillsGapsKept
<1> QED
  BY <1>2, <1>3

LEMMA SourcedPrepare ==
  ASSUME Sound, NEW actor, NEW door \in Doors, Prepare(actor, door)
  PROVE  Sourced'
<1>1. PICK inner, d :
           /\ draft' = NewDraft(actor, door, inner, d)
           /\ DefOK(d) /\ d.metric = inner.metric
           /\ Explains(d, ClaimsOf(questions[draft.n + 1].output, withdrawn), Templates)
           /\ HistoryOf(d) # {} => door = "person"
           /\ \A r \in HistoryOf(d) :
                /\ r.key \in inner.missing \ NotRemembered
                /\ \E i \in 1..Len(runs) : \E w : /\ FromRun(runs[i], actor, inner.metric, w)
                                                  /\ w.key = r.key /\ w.value = r.value
           /\ \A r, s \in HistoryOf(d) : r.key = "variant" /\ s.key # "variant" =>
                                           s.implies = {} \/ r.value \in s.implies
  BY PrepareIs
<1>2. questions' = questions /\ runs' = runs
  BY DEF Prepare
<1>3. /\ draft'.n = draft.n + 1 /\ draft'.asked = today /\ draft'.since = deployed
      /\ draft'.definition = d /\ draft'.gone = withdrawn /\ draft'.inner = inner
      /\ draft'.door = door /\ draft'.actor = actor
  BY <1>1, DraftFacts
<1>4. Told(draft', questions)
  BY <1>1, <1>3 DEF Told, Templates
<1>5. ASSUME NEW r \in HistoryOf(d)
      PROVE  \E i \in 1..Len(runs) : Teaches(runs[i], draft', r)
  <2>1. PICK i \in 1..Len(runs) : \E w : /\ FromRun(runs[i], actor, inner.metric, w)
                                          /\ w.key = r.key /\ w.value = r.value
    BY <1>1
  <2>2. runs[i].n < draft'.n
    <3>1. runs[i].n \in Nat /\ runs[i].n <= draft.n /\ draft.n \in Nat
      BY DEF Sound, RunsOK, RunOK, DraftsOK, DraftOK, NoDraft
    <3> QED  BY <1>3, <3>1
  <2>3. Teaches(runs[i], draft', r)
    BY <1>1, <1>3, <2>1, <2>2 DEF Teaches, FromRun, Templates
  <2> QED  BY <2>3
<1>6. FillsGaps(draft', runs)
  BY <1>1, <1>3, <1>5 DEF FillsGaps
<1> QED
  BY <1>2, <1>4, <1>6 DEF Sourced

LEMMA SourcedAmend ==
  ASSUME Sound, Sourced, NEW door, NEW a \in Amendments, Amend(door, a)
  PROVE  Sourced'
<1>1. PICK rules, d :
        /\ d = WithRules(draft.definition, rules) /\ IsList(rules)
        /\ \A r \in ToSet(rules) : r.source \in {"user", "agent"}
        /\ DefOK(d) /\ d.metric = draft.definition.metric
        /\ HistoryOf(d) \subseteq HistoryOf(draft.definition)
        /\ AmendedTo(draft', runs', d)
  BY AmendIs
<1>2. draft.status # "none" /\ questions' = questions
  BY DEF Amend
<1>3. SameDraft(draft, draft') /\ draft'.definition = d
  BY <1>1 DEF AmendedTo
<1>4. Told(draft, questions) /\ FillsGaps(draft, runs) /\ IsDef(draft.definition)
  BY <1>2 DEF Sourced, Sound, DraftsOK, DraftOK, DefOK
<1>5. Told(draft', questions)
  <2> DEFINE C == ClaimsOf(questions[draft.n].output, draft.gone)
  <2>1. Explains(draft.definition, C, Mappings[draft.since])
    BY <1>4 DEF Told
  <2> HIDE DEF C
  <2>2. \A r \in ToSet(rules) : r.source # "doc"
    BY <1>1
  <2>3. Explains(d, C, Mappings[draft.since])
    BY <1>1, <1>4, <2>1, <2>2, ExplainsKept
  <2> QED  BY <1>3, <2>3 DEF Told, SameDraft, C
<1>6. \A i \in 1..Len(runs) : i \in 1..Len(runs') /\ SameRun(runs[i], runs'[i])
  BY <1>1, AmendedRuns DEF AmendedTo
<1>7. FillsGaps(draft', runs')
  BY <1>1, <1>3, <1>4, <1>6, FillsGapsKept
<1> QED
  BY <1>2, <1>5, <1>7 DEF Sourced

LEMMA SourcedNext ==
  ASSUME Sound, Sourced, [Next]_vars
  PROVE  Sourced'
<1>1. \A i \in 1..Len(runs) : i \in 1..Len(runs) /\ SameRun(runs[i], runs[i])
  BY DEF SameRun
<1>2. CASE \/ UNCHANGED vars \/ NextDay \/ Deploy
           \/ (\E t \in DOMAIN Tables : Load(t)) \/ (\E doc \in Docs : Withdraw(doc))
  <2>1. draft' = draft /\ runs' = runs /\ questions' = questions
    BY <1>2 DEF NextDay, Deploy, Load, Withdraw, vars
  <2> QED  BY <2>1 DEF Sourced
<1>3. CASE \E actor \in Subjects, door \in Doors : Prepare(actor, door)
  BY <1>3, SourcedPrepare
<1>4. CASE \E door \in Doors, a \in Amendments : Amend(door, a)
  BY <1>4, SourcedAmend
<1>5. ASSUME draft.status # "none", questions' = questions, SameDraft(draft, draft'),
             draft'.definition = draft.definition,
             \A i \in 1..Len(runs) : i \in 1..Len(runs') /\ SameRun(runs[i], runs'[i])
      PROVE  Sourced'
  BY <1>5, SourcedKept DEF Sourced
<1>6. draft.status # "none" => DraftShape(draft)
  BY DEF Sound, DraftsOK, DraftOK
<1>7. CASE Confirm
  <2>1. /\ draft.status # "none" /\ runs' = runs /\ questions' = questions
        /\ draft' = [draft EXCEPT !.status = "confirmed", !.day = today]
    BY <1>7 DEF Confirm
  <2>2. SameDraft(draft, draft') /\ draft'.definition = draft.definition
    BY <1>6, <2>1 DEF DraftShape, DraftFields, SameDraft
  <2> QED  BY <1>1, <1>5, <2>1, <2>2
<1>8. CASE Expire
  <2>1. /\ draft.status # "none" /\ runs' = runs /\ questions' = questions
        /\ draft' = [draft EXCEPT !.status = "expired"]
    BY <1>8 DEF Expire
  <2>2. SameDraft(draft, draft') /\ draft'.definition = draft.definition
    BY <1>6, <2>1 DEF DraftShape, DraftFields, SameDraft
  <2> QED  BY <1>1, <1>5, <2>1, <2>2
<1>9. CASE DateTheData
  <2>1. PICK query, entry, through :
          draft' = [draft EXCEPT !.status = "dated", !.query = query, !.entry = entry, !.through = through]
    BY <1>9 DEF DateTheData
  <2>2. draft.status # "none" /\ runs' = runs /\ questions' = questions
    BY <1>9 DEF DateTheData
  <2>3. SameDraft(draft, draft') /\ draft'.definition = draft.definition
    BY <1>6, <2>1, <2>2 DEF DraftShape, DraftFields, SameDraft
  <2> QED  BY <1>1, <1>5, <2>2, <2>3
<1>10. CASE Finish
  <2>1. /\ draft.status # "none" /\ runs' = Append(runs, NewRun) /\ questions' = questions
        /\ draft' = [draft EXCEPT !.status = "ran", !.query = <<>>, !.through = {}, !.entry = {}]
    BY <1>10 DEF Finish, RunOver, NewRun
  <2>2. SameDraft(draft, draft') /\ draft'.definition = draft.definition
    BY <1>6, <2>1 DEF DraftShape, DraftFields, SameDraft
  <2>3. IsList(runs)
    BY DEF Sound, RunsOK
  <2>4. /\ Len(runs') = Len(runs) + 1 /\ Len(runs) \in Nat
        /\ \A i \in 1..Len(runs) : runs'[i] = runs[i]
    BY <2>1, <2>3, AppendedList
  <2>5. \A i \in 1..Len(runs) : i \in 1..Len(runs') /\ SameRun(runs[i], runs'[i])
    BY <2>4 DEF SameRun
  <2> QED  BY <1>5, <2>1, <2>2, <2>5
<1>11. CASE Fail
  <2>1. /\ draft.status # "none" /\ runs' = runs /\ questions' = questions
        /\ draft' = [draft EXCEPT !.status = "confirmed", !.query = <<>>, !.through = {}, !.entry = {}]
    BY <1>11 DEF Fail, RunOver
  <2>2. SameDraft(draft, draft') /\ draft'.definition = draft.definition
    BY <1>6, <2>1 DEF DraftShape, DraftFields, SameDraft
  <2> QED  BY <1>1, <1>5, <2>1, <2>2
<1> QED
  BY <1>2, <1>3, <1>4, <1>7, <1>8, <1>9, <1>10, <1>11 DEF Next

LEMMA SourcedInit == Init => Sourced
  BY DEF Init, Sourced, NoDraft

LEMMA ClaimsAre ==
  Claims = ClaimsOf(questions[draft.n].output, draft.gone)
  BY DEF Claims, ClaimsOf, CountsIn, Asked

LEMMA DocumentsExplain ==
  ASSUME Sound, Sourced
  PROVE  DocumentsOnlyExplain
<1> SUFFICES ASSUME draft.status \in {"confirmed", "dated", "ran"}
             PROVE  DocumentsOnlyExplain
  BY DEF DocumentsOnlyExplain
<1> DEFINE d == draft.definition
           C == Claims
           documented == {d.rules[i] : i \in {j \in DOMAIN d.rules : d.rules[j].source = "doc"}}
<1>1. /\ DefOK(d) /\ d.missing = {} /\ Told(draft, questions)
  BY DEF Sound, DraftsOK, DraftOK, Complete4, Sourced
<1>2. Explains(d, C, Mappings[draft.since])
  BY <1>1, ClaimsAre DEF Told
<1>3. IsDef(d) /\ IsList(d.rules)
  BY <1>1 DEF DefOK, IsDef
<1>4. documented = {r \in RulesOf(d) : r.source = "doc"}
  <2>1. DOMAIN d.rules = 1..Len(d.rules) /\ RulesOf(d) = {d.rules[i] : i \in 1..Len(d.rules)}
    BY <1>3, ListFacts DEF RulesOf
  <2> QED  BY <2>1
<1>5. \A key : (\E r \in RulesOf(d) : r.key = key) => HasRule(d, key)
  BY <1>3, HasRuleMeans
<1>6. \A p : Points(p) = Implied(Mappings[draft.since], d.metric, p.key, p.quote)
  BY DEF Points
<1> HIDE DEF d, C, documented
<1>7. \A p, q \in C : p.key = q.key /\ p.value # q.value =>
                        HasRule(d, p.key) /\ \A r \in documented : r.key # p.key
  BY <1>1, <1>2, <1>4, <1>5 DEF Explains
<1>8. \A r \in documented : r.key # "variant" =>
        \E p \in C : /\ p.key = r.key /\ p.value = r.value
                     /\ r.ref = <<Menu[p.citation].doc, p.quote>>
                     /\ Values[p.value].numbers \subseteq Quotes[p.quote].numbers
  BY <1>2, <1>4 DEF Explains
<1>9. \A r \in documented : r.key = "variant" =>
        {v \in VariantsOf(d) : \A p \in C : Points(p) = {} \/ v \in Points(p)} = {r.value}
  BY <1>2, <1>4, <1>6 DEF Explains
<1> QED
  BY <1>7, <1>8, <1>9 DEF DocumentsOnlyExplain, d, C, documented

LEMMA RememberedFill ==
  ASSUME Sound, Sourced
  PROVE  RememberedChoicesOnlyFillGaps
<1> SUFFICES ASSUME draft.n > 1 PROVE RememberedChoicesOnlyFillGaps
  BY DEF RememberedChoicesOnlyFillGaps
<1> DEFINE d == draft.definition
<1>1. draft.status # "none"
  BY DEF Sound, DraftsOK, NoDraft
<1>2. DefOK(d) /\ FillsGaps(draft, runs)
  BY <1>1 DEF Sound, DraftsOK, DraftOK, Sourced
<1>3. IsList(d.rules)
  BY <1>2 DEF DefOK, IsDef
<1>4. Recalled = HistoryOf(d)
  <2>1. DOMAIN d.rules = 1..Len(d.rules) /\ RulesOf(d) = {d.rules[i] : i \in 1..Len(d.rules)}
    BY <1>3, ListFacts DEF RulesOf
  <2> QED  BY <2>1 DEF Recalled, HistoryOf
<1>5. ASSUME NEW r \in HistoryOf(d)
      PROVE  \E run \in Earlier : \E i \in DOMAIN run.definition.rules :
              LET was == run.definition.rules[i]
              IN /\ run.definition.metric = draft.definition.metric
                 /\ run.day + MaxAge >= draft.asked
                 /\ run.entry = Lookup(Mappings[draft.since], run.definition)
                 /\ was.key = r.key /\ was.source # "doc" /\ was.value = r.value
                 /\ was.ref # NoRef => was.ref[1] \notin draft.gone
  <2>1. PICK j \in 1..Len(runs) : Teaches(runs[j], draft, r)
    BY <1>2, <1>5 DEF FillsGaps
  <2>2. IsList(runs) /\ RunOK(runs[j])
    BY DEF Sound, RunsOK
  <2>3. DOMAIN runs = 1..Len(runs)
    BY <2>2, ListFacts
  <2>4. runs[j] \in Earlier
    BY <2>1, <2>3 DEF Earlier, Teaches
  <2>5. PICK was \in RulesOf(runs[j].definition) :
          /\ was.key = r.key /\ was.source # "doc" /\ was.value = r.value
          /\ was.ref # NoRef => was.ref[1] \notin draft.gone
    BY <2>1 DEF Teaches
  <2>6. PICK i \in DOMAIN runs[j].definition.rules : was = runs[j].definition.rules[i]
    <3>1. IsList(runs[j].definition.rules)
      BY <2>2 DEF RunOK, DefOK, IsDef
    <3>2. /\ DOMAIN runs[j].definition.rules = 1..Len(runs[j].definition.rules)
          /\ ToSet(runs[j].definition.rules)
               = {runs[j].definition.rules[i] : i \in 1..Len(runs[j].definition.rules)}
      BY <3>1, ListFacts
    <3> QED  BY <2>5, <3>2 DEF RulesOf
  <2>7. /\ runs[j].definition.metric = draft.definition.metric
        /\ runs[j].day + MaxAge >= draft.asked
        /\ runs[j].entry = Lookup(Mappings[draft.since], runs[j].definition)
    BY <2>1 DEF Teaches
  <2> QED  BY <2>4, <2>5, <2>6, <2>7
<1>6. \A r \in HistoryOf(d) : r.key \in draft.inner.missing \ NotRemembered
  BY <1>2 DEF FillsGaps
<1>7. HistoryOf(d) # {} => draft.door = "person"
  BY <1>2 DEF FillsGaps
<1>8. \A r, s \in HistoryOf(d) : r.key = "variant" /\ s.key # "variant" =>
                                   s.implies = {} \/ r.value \in s.implies
  BY <1>2 DEF FillsGaps
<1> HIDE DEF d
<1> QED
  BY <1>4, <1>5, <1>6, <1>7, <1>8 DEF RememberedChoicesOnlyFillGaps

\* A disputed rule of a confirmed definition was settled by someone, a rule of
\* the documents quotes an excerpt that stood, and a reading attributed to them
\* is the only one none of their wordings points away from, whatever was asked,
\* extracted, remembered, answered and amended (evidence_builder.py,
\* enforcement.py:104).
THEOREM DocumentsOnlyExplainAlways == Spec => []DocumentsOnlyExplain
<1>1. Init => Sound /\ Sourced
  BY SoundInit, SourcedInit
<1>2. Sound /\ Sourced /\ [Next]_vars => Sound' /\ Sourced'
  BY SoundNext, SourcedNext
<1>3. Sound /\ Sourced => DocumentsOnlyExplain
  BY DocumentsExplain
<1> QED
  BY <1>1, <1>2, <1>3, PTL DEF Spec

\* What is remembered fills gaps and overrides nothing: it is shown to a person
\* only, is this person's own choice in a recent run of the same metric over
\* the same mapping, and points away from no reading recalled beside it
\* (history.py:8).
THEOREM RememberedChoicesOnlyFillGapsAlways == Spec => []RememberedChoicesOnlyFillGaps
<1>1. Init => Sound /\ Sourced
  BY SoundInit, SourcedInit
<1>2. Sound /\ Sourced /\ [Next]_vars => Sound' /\ Sourced'
  BY SoundNext, SourcedNext
<1>3. Sound /\ Sourced => RememberedChoicesOnlyFillGaps
  BY RememberedFill
<1> QED
  BY <1>1, <1>2, <1>3, PTL DEF Spec

-----------------------------------------------------------------------------
(* What a result says of the data's reach. *)

LEMMA RunJustEnded ==
  ASSUME Sound, NEW run \in JustEnded
  PROVE  RunOK(run)
<1>1. draft.status = "ran" /\ run = Last(runs)
  BY DEF JustEnded
<1>2. IsList(runs) /\ Len(runs) > 0 /\ \A i \in 1..Len(runs) : RunOK(runs[i])
  BY <1>1 DEF Sound, RunsOK
<1>3. Len(runs) \in Nat
  BY <1>2, ListFacts
<1>4. Len(runs) \in 1..Len(runs)
  BY <1>2, <1>3
<1> QED
  BY <1>1, <1>2, <1>4 DEF Last

\* A confirmed period is a range of days.
LEMMA PeriodOfADefinition ==
  ASSUME NEW d, DefOK(d), HasRule(d, "period")
  PROVE  Value(d, "period") \in GoodPeriods /\ PeriodOf(d) = {Value(d, "period")}
<1>1. IsDef(d) /\ \A r \in RulesOf(d) : r.key = "period" => r.value \in GoodPeriods
  BY DEF DefOK
<1> QED
  BY <1>1, ValueIsOfARule DEF PeriodOf

\* "Covered" is only said of a newest record after the period's last day.
LEMMA CoveredMeans ==
  ASSUME NEW p \in GoodPeriods, NEW period, period = {} \/ period = {p},
         NEW through, \A day \in through : day \in Nat, NEW probed \in BOOLEAN,
         Coverage(period, through, probed) = "covered"
  PROVE  period = {p} /\ \E day \in through : day > p[2]
<1>1. probed /\ through # {} /\ period = {p}
  BY DEF Coverage
<1> DEFINE day == CHOOSE x \in through : TRUE
<1>2. day \in through /\ day \in Nat
  BY <1>1
<1>3. (CHOOSE x \in {p} : TRUE) = p
  OBVIOUS
<1>4. p[1] \in Int /\ p[2] \in Int /\ p[1] <= p[2]
  BY DEF GoodPeriods
<1> HIDE DEF day
<1>5. ~(day < p[1]) /\ ~(p[1] <= day /\ day < p[2]) /\ day # p[2]
  <2> DEFINE said == Coverage({p}, through, TRUE)
             from == p[1]
             to == p[2]
  <2>1. said = CASE day < from -> "no data"
                 [] from <= day /\ day < to -> "partial"
                 [] day = to -> "to the last day"
                 [] OTHER -> "covered"
    BY <1>1, <1>3 DEF Coverage, day
  <2>2. said = "covered" /\ from \in Int /\ to \in Int /\ from <= to
    BY <1>1, <1>4
  <2> HIDE DEF said, from, to
  <2>3. ~(day < from) /\ ~(from <= day /\ day < to) /\ day # to
    BY <1>2, <2>1, <2>2
  <2> QED  BY <2>3 DEF from, to
<1>6. day > p[2]
  BY <1>2, <1>4, <1>5
<1> QED
  BY <1>1, <1>2, <1>6

LEMMA DatesAreDays ==
  ASSUME NEW e, Declared(e), NEW ld, LoadedOK(ld)
  PROVE  /\ e.source \in DOMAIN Tables /\ Len(Tables[e.source]) \in Nat
         /\ DOMAIN Tables[e.source] = 1..Len(Tables[e.source])
         /\ ld[e.source] \in Nat /\ ld[e.source] <= Len(Tables[e.source])
         /\ ~e.whole /\ e.time # "" =>
              \A i \in 1..Len(Tables[e.source]) : Tables[e.source][i][e.time] \in Nat \ {0}
<1>1. EntryOK(e)
  BY DeclaredIsOK
<1>2. e.source \in DOMAIN Tables
  BY <1>1 DEF EntryOK
<1>3. Len(Tables[e.source]) \in Nat /\ DOMAIN Tables[e.source] = 1..Len(Tables[e.source])
  <2>1. IsSequence(Tables[e.source])
    BY <1>2, DefinitionsAssumption
  <2> QED  BY <2>1, SequenceIsList
<1>4. ld[e.source] \in Nat /\ ld[e.source] <= Len(Tables[e.source])
  BY <1>2, <1>3 DEF LoadedOK
<1> QED
  BY <1>1, <1>2, <1>3, <1>4 DEF EntryOK

LEMMA CoverageOfARun ==
  ASSUME NEW run, RunOK(run), NEW e \in run.entry, RowsInOrder, run.reach = "covered"
  PROVE  RowsMeant(run, e)
           = RowsMeant([run EXCEPT !.loaded = [t \in DOMAIN Tables |-> Len(Tables[t])]], e)
<1> DEFINE d == run.definition
           all == [run EXCEPT !.loaded = [t \in DOMAIN Tables |-> Len(Tables[t])]]
           rows == Tables[e.source]
           Meant(i) == /\ e.where \subseteq rows[i].meets
                       /\ HasRule(d, "period") => rows[i][e.time] \in DaysIn(Value(d, "period"))
                       /\ FilterOf(d) # {} =>
                            LET f == Value(d, "filter")
                            IN rows[i][Dims[f[2]].columns[e.source]] = f[3]
<1>1. PICK x, through : Answered(run, x, through)
  BY DEF RunOK
<1>2. run.entry = {e} /\ Answered(run, e, through) /\ Declared(e) /\ e.whole \in BOOLEAN
  <2>1. x = e
    BY <1>1 DEF Answered
  <2>2. Answered(run, e, through) /\ Declared(e)
    BY <1>1, <2>1 DEF Answered
  <2> QED  BY <2>2, DeclaredIsOK DEF EntryOK, Answered
<1>3. /\ RunShape(run) /\ DefOK(d) /\ LoadedOK(run.loaded)
  BY DEF RunOK
<1>4. /\ e.source \in DOMAIN Tables /\ Len(rows) \in Nat /\ DOMAIN rows = 1..Len(rows)
      /\ run.loaded[e.source] \in Nat /\ run.loaded[e.source] <= Len(rows)
      /\ ~e.whole /\ e.time # "" => \A i \in 1..Len(rows) : rows[i][e.time] \in Nat \ {0}
  BY <1>2, <1>3, DatesAreDays
<1>5. /\ \A i \in 1..run.loaded[e.source] : i \in 1..Len(rows)
      /\ \A i \in 1..Len(rows) : i \in 1..run.loaded[e.source] \/ i > run.loaded[e.source]
      /\ \A i \in 1..Len(rows), k \in 1..run.loaded[e.source] :
           i > run.loaded[e.source] => k <= i
  <2> DEFINE n == run.loaded[e.source]
             m == Len(rows)
  <2>1. n \in Nat /\ m \in Nat /\ n <= m
    BY <1>4
  <2> HIDE DEF n, m
  <2>2. /\ \A i \in 1..n : i \in 1..m
        /\ \A i \in 1..m : i \in 1..n \/ i > n
        /\ \A i \in 1..m, k \in 1..n : i > n => k <= i
    BY <2>1
  <2> QED  BY <2>2 DEF n, m
<1>6. all.definition = d /\ all.loaded = [t \in DOMAIN Tables |-> Len(Tables[t])]
  BY <1>3 DEF RunShape, RunFields
<1>7. RowsMeant(run, e) = {i \in 1..run.loaded[e.source] : Meant(i)}
  BY DEF RowsMeant
<1>8. RowsMeant(all, e) = {i \in 1..Len(rows) : Meant(i)}
  <2>1. all.loaded[e.source] = Len(rows)
    BY <1>4, <1>6
  <2> HIDE DEF all
  <2> QED  BY <1>6, <2>1 DEF RowsMeant
<1>9. /\ run.reach = Coverage(PeriodOf(d), through, ~e.whole /\ e.time # "")
      /\ Dates(through, e, run.loaded)
  BY <1>2 DEF Answered
<1>10. \A day \in through : day \in Nat
  <2>1. ASSUME NEW day \in through PROVE day \in Nat
    <3>1. ~e.whole /\ e.time # "" /\ \E i \in 1..run.loaded[e.source] : day = rows[i][e.time]
      BY <1>9 DEF Dates
    <3> QED  BY <1>5, <1>4, <3>1
  <2> QED  BY <2>1
<1> DEFINE p == Value(d, "period")
<1>11. HasRule(d, "period") /\ p \in GoodPeriods /\ \E day \in through : day > p[2]
  <2>1. HasRule(d, "period") => p \in GoodPeriods /\ PeriodOf(d) = {p}
    BY <1>3, PeriodOfADefinition
  <2>2. ~HasRule(d, "period") => PeriodOf(d) = {}
    BY DEF PeriodOf
  <2>3. <<1, 1>> \in GoodPeriods
    BY DEF GoodPeriods
  <2>4. Coverage(PeriodOf(d), through, ~e.whole /\ e.time # "") = "covered"
    BY <1>9
  <2> HIDE DEF p, d
  <2>5. CASE HasRule(d, "period")
    <3>1. p \in GoodPeriods /\ PeriodOf(d) = {p}
      BY <2>1, <2>5
    <3> QED  BY <1>10, <2>4, <2>5, <3>1, CoveredMeans
  <2>6. CASE ~HasRule(d, "period")
    <3>1. PeriodOf(d) = {}
      BY <2>2, <2>6
    <3>2. PeriodOf(d) = {<<1, 1>>}
      BY <1>10, <2>3, <2>4, <3>1, CoveredMeans
    <3> QED  BY <3>1, <3>2
  <2> QED  BY <2>5, <2>6
<1>12. PICK day \in through : day > p[2]
  BY <1>11
<1>13. ~e.whole /\ e.time # "" /\ \E i \in 1..run.loaded[e.source] : day = rows[i][e.time]
  BY <1>9, <1>12 DEF Dates
<1>14. PICK k \in 1..run.loaded[e.source] : day = rows[k][e.time]
  BY <1>13
<1>15. ASSUME NEW i \in 1..Len(rows), i > run.loaded[e.source]
       PROVE  ~Meant(i)
  <2>1. k \in 1..Len(rows) /\ k <= i
    BY <1>5, <1>15
  <2>2. rows[k][e.time] <= rows[i][e.time]
    BY <1>2, <1>4, <1>13, <2>1 DEF RowsInOrder, Declared
  <2>3. rows[i][e.time] \in Nat /\ rows[k][e.time] \in Nat
    BY <1>4, <1>13, <2>1
  <2>4. p[2] \in Int
    BY <1>11 DEF GoodPeriods
  <2> DEFINE late == rows[i][e.time]
  <2>5. late > p[2]
    BY <1>12, <1>14, <2>2, <2>3, <2>4
  <2>6. late \notin DaysIn(p)
    BY <2>3, <2>4, <2>5, <1>11 DEF DaysIn, GoodPeriods
  <2> QED  BY <1>11, <2>6
<1> HIDE DEF Meant, all
<1>16. \A i \in 1..Len(rows) : Meant(i) => i \in 1..run.loaded[e.source]
  BY <1>5, <1>15
<1>17. RowsMeant(run, e) = RowsMeant(all, e)
  BY <1>5, <1>7, <1>8, <1>16
<1> QED
  BY <1>17 DEF all

\* A result that says its period is covered counts every row the period will
\* ever have, if rows arrive in the order of their time, although the data is
\* dated before the rows are counted and rows arrive in between (coverage.py:52).
THEOREM CoverageIsNeverOverstated == Spec => []CoverageIsNotOverstated
<1>1. Init => Sound
  BY SoundInit
<1>2. Sound /\ [Next]_vars => Sound'
  BY SoundNext
<1>3. Sound => CoverageIsNotOverstated
  BY RunJustEnded, CoverageOfARun DEF CoverageIsNotOverstated
<1> QED
  BY <1>1, <1>2, <1>3, PTL DEF Spec

-----------------------------------------------------------------------------
(* Groups of days: weeks from their Monday, months from their first, days. *)

LEMMA Grains ==
  ASSUME NEW g \in TimeGrains, NEW d
  PROVE  \/ g = <<"week">> /\ BucketStart(d, g) = Monday(d)
         \/ g = <<"month">> /\ BucketStart(d, g) = FirstOf(MonthOf(d))
         \/ g = <<"day">> /\ BucketStart(d, g) = d /\ g # <<"week">> /\ g # <<"month">>
<1>1. /\ <<"week">>[1] = "week" /\ <<"month">>[1] = "month" /\ <<"day">>[1] = "day"
  OBVIOUS
<1>2. /\ <<"week">> # <<"month">> /\ <<"week">> # <<"day">> /\ <<"month">> # <<"day">>
  BY <1>1
<1>3. g = <<"week">> \/ g = <<"month">> \/ g = <<"day">>
  BY DEF TimeGrains
<1> QED
  BY <1>2, <1>3 DEF BucketStart

LEMMA MondayFacts ==
  ASSUME NEW d \in Nat \ {0}
  PROVE  /\ Monday(d) \in Nat \ {0} /\ Monday(d) <= d /\ d <= Monday(d) + 6
         /\ (Monday(d) - 1) % 7 = 0
         /\ \A m \in Int : m <= d /\ d <= m + 6 /\ (m - 1) % 7 = 0 => m = Monday(d)
<1> DEFINE r == (d - 1) % 7
<1>1. r \in 0..6 /\ d - 1 = 7 * ((d - 1) \div 7) + r
  OBVIOUS
<1> DEFINE w == (d - 1) \div 7
<1>2. w \in Nat
  OBVIOUS
<1> HIDE DEF r, w
<1>3. Monday(d) = d - r
  BY DEF Monday, r
<1>4. Monday(d) = 7 * w + 1
  BY <1>1, <1>2, <1>3 DEF w
<1>5. ASSUME NEW m \in Int, m <= d, d <= m + 6, (m - 1) % 7 = 0
      PROVE  m = Monday(d)
  <2>1. m - 1 = 7 * ((m - 1) \div 7) /\ (m - 1) \div 7 \in Int
    BY <1>5
  <2> DEFINE v == (m - 1) \div 7
  <2> HIDE DEF v
  <2>2. m - 1 = 7 * v /\ v \in Int
    BY <2>1 DEF v
  <2>3. d - 1 = 7 * w + r
    BY <1>1 DEF w
  <2>4. 7 * v <= 7 * w + r /\ 7 * w + r <= 7 * v + 6
    BY <1>5, <2>2, <2>3, <1>1, <1>2
  <2>5. v = w
    BY <1>1, <1>2, <2>2, <2>4
  <2> QED  BY <1>4, <2>2, <2>5
<1>6. (Monday(d) - 1) % 7 = 0
  BY <1>2, <1>4
<1> QED
  BY <1>1, <1>2, <1>3, <1>4, <1>5, <1>6

\* The month of a day, and of the first day of a month.
LEMMA MonthsGrow ==
  ASSUME NEW c \in Nat \ {0}, NEW d \in Nat \ {0}, c <= d
  PROVE  MonthOf(c) <= MonthOf(d)
<1> DEFINE k == MonthOf(c)
           l == MonthOf(d)
<1>1. k \in Nat /\ l \in Nat /\ InMonth(c, k) /\ InMonth(d, l)
  BY MonthFacts
<1> HIDE DEF k, l
<1>2. SUFFICES ASSUME l < k PROVE FALSE
  BY <1>1 DEF k, l
<1>3. FirstOf(l + 1) <= FirstOf(k) /\ FirstOf(k) \in Int /\ FirstOf(l + 1) \in Int
  BY <1>1, <1>2, MonthsInOrder, MonthLength
<1> QED
  BY <1>1, <1>3 DEF InMonth

LEMMA MonthOfItsFirst ==
  ASSUME NEW k \in Nat, k >= 12
  PROVE  FirstOf(k) \in Nat \ {0} /\ MonthOf(FirstOf(k)) = k
<1>1. FirstOf(k) \in Nat \ {0}
  BY MonthInCalendar
<1> DEFINE d == FirstOf(k)
<1>2. InMonth(d, k)
  <2>1. FirstOf(k + 1) \in Int /\ FirstOf(k + 1) - FirstOf(k) >= 28
    BY MonthLength
  <2> QED  BY <1>1, <2>1 DEF InMonth
<1> HIDE DEF d
<1>3. d \in Nat \ {0}
  BY <1>1 DEF d
<1>4. MonthOf(d) \in Nat /\ InMonth(d, MonthOf(d))
  BY <1>3, MonthFacts
<1>5. MonthOf(d) = k
  BY <1>2, <1>3, <1>4, OneMonth
<1> QED
  BY <1>1, <1>5 DEF d

\* A group begins on a day of its own, not after its days and at most 30 days
\* before them, and groups follow one another.
LEMMA BucketFacts ==
  ASSUME NEW g \in TimeGrains, NEW d \in Nat \ {0}
  PROVE  /\ BucketStart(d, g) \in Nat \ {0} /\ BucketStart(d, g) <= d
         /\ d <= BucketStart(d, g) + 30
         /\ BucketStart(BucketStart(d, g), g) = BucketStart(d, g)
<1>1. CASE g = <<"week">>
  <2>1. \A x : BucketStart(x, g) = Monday(x)
    BY <1>1 DEF BucketStart
  <2> DEFINE s == Monday(d)
  <2>2. s \in Nat \ {0} /\ s <= d /\ d <= s + 6 /\ (s - 1) % 7 = 0
    BY MondayFacts
  <2> HIDE DEF s
  <2>3. Monday(s) = s
    <3>1. \A m \in Int : m <= s /\ s <= m + 6 /\ (m - 1) % 7 = 0 => m = Monday(s)
      BY <2>2, MondayFacts
    <3> QED  BY <2>2, <3>1
  <2> QED  BY <2>1, <2>2, <2>3 DEF s
<1>2. CASE g = <<"month">>
  <2>1. \A x : BucketStart(x, g) = FirstOf(MonthOf(x))
    <3>1. <<"month">> # <<"week">>
      <4>1. <<"week">>[1] = "week" /\ <<"month">>[1] = "month"
        OBVIOUS
      <4> QED  BY <4>1
    <3> QED  BY <1>2, <3>1 DEF BucketStart
  <2> DEFINE k == MonthOf(d)
  <2>2. k \in Nat /\ k >= 12 /\ InMonth(d, k)
    BY MonthFacts
  <2> HIDE DEF k
  <2>3. FirstOf(k) \in Nat \ {0} /\ MonthOf(FirstOf(k)) = k
    BY <2>2, MonthOfItsFirst
  <2>4. FirstOf(k + 1) \in Int /\ FirstOf(k + 1) - FirstOf(k) <= 31
    BY <2>2, MonthLength
  <2>5. FirstOf(k) <= d /\ d <= FirstOf(k) + 30
    BY <2>2, <2>3, <2>4 DEF InMonth
  <2> QED  BY <2>1, <2>3, <2>5 DEF k
<1>3. CASE g = <<"day">>
  <2>1. \A x : BucketStart(x, g) = x
    BY <1>3, Grains DEF BucketStart
  <2> QED  BY <2>1
<1> QED
  BY <1>1, <1>2, <1>3 DEF TimeGrains

LEMMA BucketsInOrder ==
  ASSUME NEW g \in TimeGrains, NEW c \in Nat \ {0}, NEW d \in Nat \ {0}, c <= d
  PROVE  BucketStart(c, g) <= BucketStart(d, g)
<1>1. CASE g = <<"week">>
  <2>1. \A x : BucketStart(x, g) = Monday(x)
    BY <1>1 DEF BucketStart
  <2> DEFINE s == Monday(c)
             t == Monday(d)
  <2>2. /\ s \in Nat \ {0} /\ s <= c /\ c <= s + 6 /\ (s - 1) % 7 = 0
        /\ t \in Nat \ {0} /\ t <= d /\ d <= t + 6 /\ (t - 1) % 7 = 0
    BY MondayFacts
  <2> HIDE DEF s, t
  <2> DEFINE v == (s - 1) \div 7
             w == (t - 1) \div 7
  <2>3. s = 7 * v + 1 /\ t = 7 * w + 1 /\ v \in Int /\ w \in Int
    BY <2>2
  <2> HIDE DEF v, w
  <2>4. s <= t
    BY <2>2, <2>3
  <2> QED  BY <2>1, <2>4 DEF s, t
<1>2. CASE g = <<"month">>
  <2>1. \A x : BucketStart(x, g) = FirstOf(MonthOf(x))
    <3>1. <<"month">> # <<"week">>
      <4>1. <<"week">>[1] = "week" /\ <<"month">>[1] = "month"
        OBVIOUS
      <4> QED  BY <4>1
    <3> QED  BY <1>2, <3>1 DEF BucketStart
  <2> DEFINE k == MonthOf(c)
             l == MonthOf(d)
  <2>2. k \in Nat /\ l \in Nat /\ k <= l
    BY MonthFacts, MonthsGrow
  <2> HIDE DEF k, l
  <2>3. CASE k = l
    <3>1. FirstOf(k) \in Int
      BY <2>2, MonthLength
    <3> QED  BY <2>1, <2>3, <3>1 DEF k, l
  <2>4. CASE k < l
    <3>1. FirstOf(k + 1) <= FirstOf(l)
      BY <2>2, <2>4, MonthsInOrder
    <3>2. FirstOf(k) \in Int /\ FirstOf(k + 1) \in Int /\ FirstOf(k + 1) - FirstOf(k) >= 28
      BY <2>2, MonthLength
    <3>3. FirstOf(l) \in Int
      BY <2>2, MonthLength
    <3>4. FirstOf(k) <= FirstOf(l)
      BY <3>1, <3>2, <3>3
    <3> QED  BY <2>1, <3>4 DEF k, l
  <2> QED  BY <2>2, <2>3, <2>4
<1>3. CASE g = <<"day">>
  <2>1. \A x : BucketStart(x, g) = x
    BY <1>3, Grains DEF BucketStart
  <2> QED  BY <2>1
<1> QED
  BY <1>1, <1>2, <1>3 DEF TimeGrains

\* What a dialect computes is the group's first day.
LEMMA GrainSqlIsTheBucket ==
  ASSUME NEW g \in TimeGrains, NEW d \in Nat \ {0}
  PROVE  GrainSql(d, g) = BucketStart(d, g)
<1>1. /\ <<"week">> # <<"month">> /\ <<"week">> # <<"day">> /\ <<"month">> # <<"day">>
  <2>1. /\ <<"week">>[1] = "week" /\ <<"month">>[1] = "month" /\ <<"day">>[1] = "day"
    OBVIOUS
  <2> QED  BY <2>1
<1>2. CASE g = <<"week">>
  <2> DEFINE s == Monday(d)
             m == CHOOSE x \in (d - 6)..d : (x - 1) % 7 = 0
  <2>1. /\ s \in Nat \ {0} /\ s <= d /\ d <= s + 6 /\ (s - 1) % 7 = 0
        /\ \A x \in Int : x <= d /\ d <= x + 6 /\ (x - 1) % 7 = 0 => x = s
    BY MondayFacts
  <2>2. s = d - ((d - 1) % 7)
    BY DEF Monday
  <2>3. GrainSql(d, g) = IF Dialect = "sqlite" THEN m ELSE d - ((d - 1) % 7)
    BY <1>1, <1>2 DEF GrainSql
  <2>4. BucketStart(d, g) = s
    BY <1>2 DEF BucketStart
  <2> HIDE DEF s
  <2>5. s \in (d - 6)..d
    BY <2>1
  <2>6. m \in (d - 6)..d /\ (m - 1) % 7 = 0
    BY <2>1, <2>5
  <2> HIDE DEF m
  <2>7. m = s
    BY <2>1, <2>6
  <2> QED  BY <2>2, <2>3, <2>4, <2>7
<1>3. CASE g = <<"month">>
  <2> DEFINE f == FirstOf(MonthOf(d))
  <2>1. GrainSql(d, g) = d - (d - f) /\ BucketStart(d, g) = f
    BY <1>1, <1>3 DEF GrainSql, BucketStart
  <2>2. f \in Int
    BY MonthFacts
  <2> HIDE DEF f
  <2> QED  BY <2>1, <2>2
<1>4. CASE g = <<"day">>
  BY <1>1, <1>4 DEF GrainSql, BucketStart
<1> QED
  BY <1>2, <1>3, <1>4 DEF TimeGrains

\* The groups of a period are those its days fall in.
LEMMA BucketsOfAPeriod ==
  ASSUME NEW g \in TimeGrains, NEW p \in GoodPeriods
  PROVE  BucketStarts(p, g) = {BucketStart(d, g) : d \in DaysIn(p)}
<1> DEFINE from == p[1]
           to == p[2]
<1>1. from \in Nat \ {0} /\ to \in Nat \ {0} /\ from <= to
  BY DEF GoodPeriods
<1>2. DaysIn(p) = from..to
  BY DEF DaysIn
<1>3. /\ <<"week">> # <<"month">> /\ <<"week">> # <<"day">> /\ <<"month">> # <<"day">>
  <2>1. /\ <<"week">>[1] = "week" /\ <<"month">>[1] = "month" /\ <<"day">>[1] = "day"
    OBVIOUS
  <2> QED  BY <2>1
<1>4. CASE g = <<"week">>
  <2> DEFINE first == Monday(from)
  <2>1. \A d : BucketStart(d, g) = Monday(d)
    BY <1>4 DEF BucketStart
  <2>2. BucketStarts(p, g) = {first + 7 * n : n \in 0..((to - first) \div 7)}
    BY <1>4, <2>1 DEF BucketStarts
  <2> HIDE DEF from, to
  <2>3. first \in Nat \ {0} /\ first <= from /\ from <= first + 6 /\ (first - 1) % 7 = 0
    BY <1>1, MondayFacts
  <2> HIDE DEF first
  <2> DEFINE last == (to - first) \div 7
  <2>4. last \in Nat /\ 7 * last <= to - first /\ to - first < 7 * last + 7
    BY <1>1, <2>3
  <2> HIDE DEF last
  <2>5. ASSUME NEW n \in 0..last
        PROVE  \E d \in from..to : first + 7 * n = Monday(d)
    <3> DEFINE s == first + 7 * n
    <3>1. s \in Nat \ {0} /\ s <= to /\ (s - 1) % 7 = 0
      BY <1>1, <2>3, <2>4
    <3>2. CASE n = 0
      <4>1. s = first
        BY <2>3, <3>2
      <4>2. s = Monday(from)
        BY <4>1 DEF first
      <4> QED  BY <1>1, <4>2
    <3>3. CASE n > 0
      <4>1. s \in from..to
        BY <1>1, <2>3, <3>1, <3>3
      <4>2. s = Monday(s)
        <5> HIDE DEF s
        <5>1. \A m \in Int : m <= s /\ s <= m + 6 /\ (m - 1) % 7 = 0 => m = Monday(s)
          BY <3>1, MondayFacts
        <5> QED  BY <3>1, <5>1
      <4> QED  BY <4>1, <4>2
    <3> QED  BY <3>2, <3>3
  <2>6. ASSUME NEW d \in from..to
        PROVE  \E n \in 0..last : Monday(d) = first + 7 * n
    <3> DEFINE s == Monday(d)
    <3>1. s \in Nat \ {0} /\ s <= d /\ d <= s + 6 /\ (s - 1) % 7 = 0
      BY <1>1, MondayFacts
    <3> HIDE DEF s
    <3> DEFINE v == (first - 1) \div 7
               w == (s - 1) \div 7
    <3>2. first = 7 * v + 1 /\ s = 7 * w + 1 /\ v \in Int /\ w \in Int
      BY <2>3, <3>1
    <3> HIDE DEF v, w
    <3>3. w - v \in 0..last /\ s = first + 7 * (w - v)
      BY <1>1, <2>3, <2>4, <3>1, <3>2
    <3> QED  BY <3>3 DEF s
  <2> QED  BY <1>2, <2>1, <2>2, <2>5, <2>6 DEF last
<1>5. CASE g = <<"month">>
  <2> DEFINE first == FirstOf(MonthOf(from))
  <2>1. \A d : BucketStart(d, g) = FirstOf(MonthOf(d))
    BY <1>3, <1>5 DEF BucketStart
  <2>2. BucketStarts(p, g) = {FirstOf(k) : k \in MonthOf(first)..MonthOf(to)}
    BY <1>3, <1>5, <2>1 DEF BucketStarts
  <2> HIDE DEF from, to
  <2> DEFINE a == MonthOf(from)
             b == MonthOf(to)
  <2>3. a \in Nat /\ a >= 12 /\ InMonth(from, a) /\ b \in Nat /\ b >= 12 /\ InMonth(to, b)
    BY <1>1, MonthFacts
  <2>4. MonthOf(first) = a
    <3>1. MonthOf(FirstOf(a)) = a
      <4> HIDE DEF a
      <4> QED  BY <2>3, MonthOfItsFirst
    <3> QED  BY <3>1
  <2> HIDE DEF a, b, first
  <2>5. ASSUME NEW k \in a..b
        PROVE  \E d \in from..to : FirstOf(k) = FirstOf(MonthOf(d))
    <3>1. k \in Nat /\ k >= 12 /\ FirstOf(k) \in Nat \ {0} /\ MonthOf(FirstOf(k)) = k
      BY <2>3, MonthOfItsFirst
    <3>2. CASE k = a
      BY <1>1, <3>2 DEF a
    <3>3. CASE k > a
      <4>1. FirstOf(a + 1) <= FirstOf(k) /\ FirstOf(a + 1) \in Int
        BY <2>3, <3>1, <3>3, MonthsInOrder, MonthLength
      <4>2. from <= FirstOf(k)
        BY <1>1, <2>3, <3>1, <4>1 DEF InMonth
      <4>3. FirstOf(k) <= to
        <5>1. FirstOf(b) \in Int /\ FirstOf(b) <= to
          BY <2>3, MonthLength DEF InMonth
        <5>2. CASE k = b
          BY <5>1, <5>2
        <5>3. CASE k < b
          <6>1. FirstOf(k + 1) <= FirstOf(b) /\ FirstOf(k + 1) \in Int
                /\ FirstOf(k + 1) - FirstOf(k) >= 28
            BY <2>3, <3>1, <5>3, MonthsInOrder, MonthLength
          <6> QED  BY <1>1, <3>1, <5>1, <6>1
        <5> QED  BY <2>3, <5>2, <5>3
      <4>4. FirstOf(k) \in from..to
        BY <1>1, <3>1, <4>2, <4>3
      <4> QED  BY <3>1, <4>4
    <3> QED  BY <2>3, <3>2, <3>3
  <2>6. ASSUME NEW d \in from..to
        PROVE  MonthOf(d) \in a..b
    <3>1. d \in Nat \ {0}
      BY <1>1
    <3>2. MonthOf(from) <= MonthOf(d) /\ MonthOf(d) <= MonthOf(to) /\ MonthOf(d) \in Nat
      BY <1>1, <3>1, MonthsGrow, MonthFacts
    <3> QED  BY <2>3, <3>2 DEF a, b
  <2>7. BucketStarts(p, g) = {FirstOf(k) : k \in a..b}
    BY <2>2, <2>4 DEF b
  <2> QED  BY <1>2, <2>1, <2>5, <2>6, <2>7
<1>6. CASE g = <<"day">>
  <2>1. \A d : BucketStart(d, g) = d
    BY <1>3, <1>6 DEF BucketStart
  <2>2. BucketStarts(p, g) = DaysIn(p)
    BY <1>3, <1>6 DEF BucketStarts
  <2> QED  BY <2>1, <2>2
<1> QED
  BY <1>4, <1>5, <1>6 DEF TimeGrains

\* An edge reaches outside the period exactly when a group of it has a day
\* that the period has not.
LEMMA EdgesOfAPeriod ==
  ASSUME NEW g \in TimeGrains, NEW p \in GoodPeriods
  PROVE  EdgesArePartial(p, g) <=>
           \E s \in BucketStarts(p, g) : \E d \in s..(s + 30) :
             BucketStart(d, g) = s /\ d \notin DaysIn(p)
<1> DEFINE from == p[1]
           to == p[2]
           B(d) == BucketStart(d, g)
           next == to + 1
<1>1. from \in Nat \ {0} /\ to \in Nat \ {0} /\ from <= to
  BY DEF GoodPeriods
<1>2. DaysIn(p) = from..to
  BY DEF DaysIn
<1>3. /\ \A d \in Nat \ {0} : B(d) \in Nat \ {0} /\ B(d) <= d /\ d <= B(d) + 30 /\ B(B(d)) = B(d)
      /\ \A c, d \in Nat \ {0} : c <= d => B(c) <= B(d)
  BY BucketFacts, BucketsInOrder
<1>4. BucketStarts(p, g) = {B(d) : d \in from..to}
  BY <1>2, BucketsOfAPeriod
<1>5. EdgesArePartial(p, g) <=> B(from) # from \/ B(next) # next
  <2>1. g = <<"day">> => g \notin {<<"week">>, <<"month">>} /\ \A d : B(d) = d
    BY Grains
  <2>2. g = <<"day">> \/ g \in {<<"week">>, <<"month">>}
    BY DEF TimeGrains
  <2> QED  BY <2>1, <2>2 DEF EdgesArePartial
<1> HIDE DEF from, to, B
<1>6. next \in Nat \ {0} /\ next > to
  BY <1>1
<1>7. ASSUME B(from) # from
      PROVE  \E s \in {B(d) : d \in from..to} : \E d \in s..(s + 30) : B(d) = s /\ d \notin from..to
  <2> DEFINE s == B(from)
  <2>1. s \in Nat \ {0} /\ s < from /\ B(s) = s
    BY <1>1, <1>3, <1>7
  <2>2. from \in from..to
    BY <1>1
  <2>3. s \in {B(d) : d \in from..to}
    BY <2>2
  <2> HIDE DEF s
  <2>4. s \in s..(s + 30) /\ s \notin from..to
    BY <1>1, <2>1
  <2> QED  BY <2>1, <2>3, <2>4
<1>8. ASSUME B(next) # next
      PROVE  \E s \in {B(d) : d \in from..to} : \E d \in s..(s + 30) : B(d) = s /\ d \notin from..to
  <2> DEFINE s == B(next)
  <2>1. s \in Nat \ {0} /\ s <= to /\ B(s) = s /\ next <= s + 30
    <3>1. s \in Nat \ {0} /\ s <= next /\ s # next /\ B(s) = s /\ next <= s + 30
      BY <1>3, <1>6, <1>8
    <3> HIDE DEF s
    <3> QED  BY <1>1, <3>1
  <2>2. \E d \in from..to : B(d) = s
    <3>1. CASE s >= from
      <4>1. s \in from..to
        <5> HIDE DEF s
        <5> QED  BY <1>1, <2>1, <3>1
      <4> QED  BY <2>1, <4>1
    <3>2. CASE s < from
      <4>1. B(s) <= B(from) /\ B(from) <= B(next) /\ B(from) \in Nat
        <5>1. s <= from /\ from <= next
          <6> HIDE DEF s
          <6> QED  BY <1>1, <1>6, <2>1, <3>2
        <5> QED  BY <1>1, <1>3, <1>6, <2>1, <5>1
      <4>2. B(from) = s
        BY <2>1, <4>1
      <4>3. from \in from..to
        BY <1>1
      <4> QED  BY <4>2, <4>3
    <3> QED  BY <1>1, <2>1, <3>1, <3>2
  <2>3. next \in s..(s + 30) /\ next \notin from..to /\ B(next) = s
    <3>1. B(next) = s
      OBVIOUS
    <3> HIDE DEF s
    <3> QED  BY <1>1, <1>6, <2>1, <3>1
  <2> HIDE DEF s
  <2> QED  BY <2>2, <2>3
<1>9. ASSUME NEW x \in from..to, NEW d \in B(x)..(B(x) + 30), B(d) = B(x), d \notin from..to
      PROVE  B(from) # from \/ B(next) # next
  <2> DEFINE s == B(x)
  <2>1. x \in Nat \ {0} /\ from <= x /\ x <= to
    BY <1>1
  <2>2. s \in Nat \ {0} /\ s <= x
    BY <1>3, <2>1
  <2>3. d \in Nat \ {0} /\ s <= d
    <3>1. d \in s..(s + 30)
      OBVIOUS
    <3> HIDE DEF s
    <3> QED  BY <2>2, <3>1
  <2>4. CASE d < from
    <3>1. B(d) <= B(from) /\ B(from) <= B(x) /\ B(from) \in Nat
      <4>1. d <= from
        BY <1>1, <2>3, <2>4
      <4> QED  BY <1>1, <1>3, <2>1, <2>3, <4>1
    <3>2. B(from) = s
      BY <1>9, <2>2, <3>1
    <3> HIDE DEF s
    <3> QED  BY <1>1, <2>2, <2>3, <2>4, <3>2
  <2>5. CASE d > to
    <3>1. next <= d /\ x <= next
      BY <1>1, <1>6, <2>1, <2>3, <2>5
    <3>2. B(x) <= B(next) /\ B(next) <= B(d) /\ B(next) \in Nat
      BY <1>3, <1>6, <2>1, <2>3, <3>1
    <3>3. B(next) = s
      BY <1>9, <2>2, <3>2
    <3> HIDE DEF s
    <3>4. s < next
      BY <1>1, <1>6, <2>1, <2>2
    <3> QED  BY <1>6, <2>2, <3>3, <3>4
  <2>6. d < from \/ d > to
    BY <1>1, <1>9, <2>3
  <2> QED  BY <2>4, <2>5, <2>6
<1> DEFINE starts == {B(d) : d \in from..to}
<1>10. (\E s \in starts : \E d \in s..(s + 30) : B(d) = s /\ d \notin from..to)
          <=> B(from) # from \/ B(next) # next
  BY <1>7, <1>8, <1>9
<1> HIDE DEF starts, next
<1>11. (\E s \in BucketStarts(p, g) : \E d \in s..(s + 30) : B(d) = s /\ d \notin DaysIn(p))
         <=> EdgesArePartial(p, g)
  BY <1>2, <1>4, <1>5, <1>10 DEF starts
<1> QED
  BY <1>11 DEF B

-----------------------------------------------------------------------------
(* The query a definition compiles to selects the rows it means. *)

LEMMA HoldsMeans ==
  ASSUME NEW row, NEW c, NEW v
  PROVE  /\ Holds(row, <<c, ">=">>, v) <=> row[c] >= v
         /\ Holds(row, <<c, "<">>, v) <=> row[c] < v
         /\ Holds(row, <<c, "=">>, v) <=> row[c] = v
<1>1. /\ <<c, ">=">>[1] = c /\ <<c, ">=">>[2] = ">="
      /\ <<c, "<">>[1] = c /\ <<c, "<">>[2] = "<"
      /\ <<c, "=">>[1] = c /\ <<c, "=">>[2] = "="
  OBVIOUS
<1>2. ">=" # "<" /\ ">=" # "=" /\ "<" # "="
  OBVIOUS
<1> QED
  BY <1>1, <1>2 DEF Holds

LEMMA FewJoined ==
  ASSUME NEW x, NEW y, NEW z
  PROVE  /\ <<>> \o <<>> = <<>> /\ <<x, y>> \o <<>> = <<x, y>> /\ <<>> \o <<z>> = <<z>>
         /\ <<x, y>> \o <<z>> = <<x, y, z>>
<1>1. /\ <<>> \o <<>> = <<>> /\ <<x, y>> \o <<>> = <<x, y>> /\ <<>> \o <<z>> = <<z>>
  OBVIOUS
<1> DEFINE S == {x, y, z}
           s == <<x, y>>
           t == <<z>>
           u == <<x, y, z>>
<1>2. /\ s \in Seq(S) /\ t \in Seq(S) /\ u \in Seq(S) /\ Len(s) = 2 /\ Len(t) = 1 /\ Len(u) = 3
      /\ s[1] = x /\ s[2] = y /\ t[1] = z /\ u[1] = x /\ u[2] = y /\ u[3] = z
  OBVIOUS
<1> HIDE DEF S, s, t, u
<1>3. s \o t \in Seq(S) /\ Len(s \o t) = 3 /\ (s \o t)[1] = x /\ (s \o t)[2] = y /\ (s \o t)[3] = z
  <2>1. /\ s \o t \in Seq(S) /\ Len(s \o t) = Len(s) + Len(t)
        /\ \A i \in 1..(Len(s) + Len(t)) :
             (s \o t)[i] = IF i <= Len(s) THEN s[i] ELSE t[i - Len(s)]
    BY <1>2, ConcatProperties
  <2> QED  BY <1>2, <2>1
<1>4. s \o t = u
  BY <1>2, <1>3
<1> QED
  BY <1>1, <1>4 DEF s, t, u

LEMMA FewOfThem ==
  ASSUME NEW x, NEW y, NEW z
  PROVE  /\ DOMAIN <<>> = {} /\ DOMAIN <<x, y>> = {1, 2} /\ DOMAIN <<z>> = {1}
         /\ DOMAIN <<x, y, z>> = {1, 2, 3}
         /\ <<x, y>>[1] = x /\ <<x, y>>[2] = y /\ <<z>>[1] = z
         /\ <<x, y, z>>[1] = x /\ <<x, y, z>>[2] = y /\ <<x, y, z>>[3] = z
  OBVIOUS

\* Both ends of the period and the value, or what there is of them.
ConditionsOf(ps, fs, t, c) ==
  (IF ps = {} THEN <<>> ELSE <<<<t, ">=">>, <<t, "<">>>>) \o (IF fs = {} THEN <<>> ELSE <<<<c, "=">>>>)
ParamsOf(ps, fs, a, b, v) ==
  (IF ps = {} THEN <<>> ELSE <<a, b>>) \o (IF fs = {} THEN <<>> ELSE <<v>>)

AllHold(row, conditions, params) ==
  \A i \in DOMAIN conditions : Holds(row, conditions[i], params[i])

LEMMA ConditionsMean ==
  ASSUME NEW row, NEW t, NEW a, NEW b, NEW c, NEW v, NEW ps, NEW fs
  PROVE  AllHold(row, ConditionsOf(ps, fs, t, c), ParamsOf(ps, fs, a, b, v))
           <=> /\ ps # {} => row[t] >= a /\ row[t] < b
               /\ fs # {} => row[c] = v
<1> DEFINE ge == <<t, ">=">>
           lt == <<t, "<">>
           eq == <<c, "=">>
<1>1. \A w : /\ Holds(row, ge, w) <=> row[t] >= w
             /\ Holds(row, lt, w) <=> row[t] < w
             /\ Holds(row, eq, w) <=> row[c] = w
  BY HoldsMeans
<1> HIDE DEF ge, lt, eq
<1>2. CASE ps # {} /\ fs # {}
  <2>1. /\ <<ge, lt>> \o <<eq>> = <<ge, lt, eq>> /\ <<a, b>> \o <<v>> = <<a, b, v>>
    BY FewJoined
  <2>2. (\A i \in DOMAIN <<ge, lt, eq>> : Holds(row, <<ge, lt, eq>>[i], <<a, b, v>>[i]))
          <=> Holds(row, ge, a) /\ Holds(row, lt, b) /\ Holds(row, eq, v)
    BY FewOfThem
  <2> QED  BY <1>1, <1>2, <2>1, <2>2 DEF ge, lt, eq, ConditionsOf, ParamsOf, AllHold
<1>3. CASE ps # {} /\ fs = {}
  <2>1. /\ <<ge, lt>> \o <<>> = <<ge, lt>> /\ <<a, b>> \o <<>> = <<a, b>>
    BY FewJoined
  <2>2. (\A i \in DOMAIN <<ge, lt>> : Holds(row, <<ge, lt>>[i], <<a, b>>[i]))
          <=> Holds(row, ge, a) /\ Holds(row, lt, b)
    BY FewOfThem
  <2> QED  BY <1>1, <1>3, <2>1, <2>2 DEF ge, lt, eq, ConditionsOf, ParamsOf, AllHold
<1>4. CASE ps = {} /\ fs # {}
  <2>1. /\ <<>> \o <<eq>> = <<eq>> /\ <<>> \o <<v>> = <<v>>
    BY FewJoined
  <2>2. (\A i \in DOMAIN <<eq>> : Holds(row, <<eq>>[i], <<v>>[i])) <=> Holds(row, eq, v)
    BY FewOfThem
  <2> QED  BY <1>1, <1>4, <2>1, <2>2 DEF ge, lt, eq, ConditionsOf, ParamsOf, AllHold
<1>5. CASE ps = {} /\ fs = {}
  <2>1. <<>> \o <<>> = <<>> /\ DOMAIN <<>> = {}
    BY FewJoined, FewOfThem
  <2> QED  BY <1>5, <2>1 DEF ConditionsOf, ParamsOf, AllHold
<1> QED
  BY <1>2, <1>3, <1>4, <1>5

\* A setting that is asked for is its rule's value.
LEMMA SettingIs ==
  ASSUME NEW d, NEW key
  PROVE  \/ SettingOf(d, key) = {}
         \/ HasRule(d, key) /\ SettingOf(d, key) = {Value(d, key)}
  BY DEF SettingOf

LEMMA SelectedAreMeant ==
  ASSUME NEW run, RunOK(run), NEW e, NEW through, Answered(run, e, through)
  PROVE  Selected(Compose(e, run.definition), run.loaded) = RowsMeant(run, e)
<1> DEFINE d == run.definition
           q == Compose(e, d)
           p == Value(d, "period")
           f == Value(d, "filter")
           rows == Tables[e.source]
           n == run.loaded[e.source]
           column == ColumnOf(f[2], e.source)
           ps == PeriodOf(d)
           fs == FilterOf(d)
<1>1. DefOK(d) /\ LoadedOK(run.loaded) /\ Declared(e) /\ CanApply(e, d) /\ e.whole \in BOOLEAN
  BY DeclaredIsOK DEF RunOK, Answered, EntryOK
<1>2. /\ ps # {} => HasRule(d, "period") /\ p \in GoodPeriods
  BY <1>1, PeriodOfADefinition DEF PeriodOf
<1>3. fs # {} => FilterOf(d) = {f}
  BY SettingIs DEF FilterOf
<1>4. /\ q.source = e.source /\ q.where = e.where
      /\ q.conditions = ConditionsOf(ps, fs, e.time, column)
      /\ q.params = ParamsOf(ps, fs, p[1], p[2] + 1, f[3])
  <2>1. /\ q.source = e.source /\ q.where = e.where
        /\ q.conditions = PeriodConditions(e, d) \o FilterConditions(e, d)
        /\ q.params = PeriodParams(d) \o FilterParams(d)
    BY DEF Compose
  <2>2. PeriodConditions(e, d) = IF ps # {} THEN <<<<e.time, ">=">>, <<e.time, "<">>>> ELSE <<>>
    BY <1>2 DEF PeriodConditions
  <2>3. PeriodParams(d) = IF ps # {} THEN <<p[1], p[2] + 1>> ELSE <<>>
    BY <1>2 DEF PeriodParams
  <2>4. FilterConditions(e, d) = IF fs # {} THEN <<<<column, "=">>>> ELSE <<>>
    BY DEF FilterConditions
  <2>5. FilterParams(d) = IF fs # {} THEN <<f[3]>> ELSE <<>>
    BY DEF FilterParams
  <2> QED  BY <2>1, <2>2, <2>3, <2>4, <2>5 DEF ConditionsOf, ParamsOf
<1>5. fs # {} => ~e.whole /\ column = Dims[f[2]].columns[e.source]
  <2>1. SUFFICES ASSUME fs # {} PROVE ~e.whole /\ column = Dims[f[2]].columns[e.source]
    OBVIOUS
  <2>2. FilterOf(d) = {f}
    BY <1>3, <2>1
  <2>3. ~e.whole /\ ColumnsOf(f[2], e.source) # {}
    BY <1>1, <2>1, <2>2 DEF CanApply
  <2>4. ColumnsOf(f[2], e.source) = {Dims[f[2]].columns[e.source]}
    BY <2>3 DEF ColumnsOf
  <2> QED  BY <2>3, <2>4 DEF ColumnOf
<1>6. ps # {} => ~e.whole /\ e.time # ""
  BY <1>1, <1>2 DEF CanApply
<1>7. /\ n \in Nat /\ n <= Len(rows) /\ Len(rows) \in Nat
      /\ ~e.whole /\ e.time # "" => \A i \in 1..Len(rows) : rows[i][e.time] \in Nat \ {0}
  BY <1>1, DatesAreDays
<1> HIDE DEF q, ps, fs, column
<1>8. Selected(q, run.loaded) = {i \in 1..n : /\ e.where \subseteq rows[i].meets
                                              /\ \A c \in DOMAIN q.conditions :
                                                   Holds(rows[i], q.conditions[c], q.params[c])}
  BY <1>4 DEF Selected
<1>9. RowsMeant(run, e) = {i \in 1..n : /\ e.where \subseteq rows[i].meets
                                        /\ ps # {} => rows[i][e.time] \in DaysIn(p)
                                        /\ fs # {} => rows[i][Dims[f[2]].columns[e.source]] = f[3]}
  BY DEF RowsMeant, ps, fs, PeriodOf
<1>10. ASSUME NEW i \in 1..n
       PROVE  (\A c \in DOMAIN q.conditions : Holds(rows[i], q.conditions[c], q.params[c]))
                <=> /\ ps # {} => rows[i][e.time] \in DaysIn(p)
                    /\ fs # {} => rows[i][Dims[f[2]].columns[e.source]] = f[3]
  <2>2. (\A c \in DOMAIN q.conditions : Holds(rows[i], q.conditions[c], q.params[c]))
          <=> /\ ps # {} => rows[i][e.time] >= p[1] /\ rows[i][e.time] < p[2] + 1
              /\ fs # {} => rows[i][column] = f[3]
    <3> DEFINE row == rows[i]
               t == e.time
               a == p[1]
               b == p[2] + 1
               v == f[3]
    <3> HIDE DEF row, t, a, b, v
    <3>1. AllHold(row, ConditionsOf(ps, fs, t, column), ParamsOf(ps, fs, a, b, v))
            <=> /\ ps # {} => row[t] >= a /\ row[t] < b
                /\ fs # {} => row[column] = v
      BY ConditionsMean
    <3> QED  BY <1>4, <3>1 DEF row, t, a, b, v, AllHold
  <2>3. ps # {} => (rows[i][e.time] >= p[1] /\ rows[i][e.time] < p[2] + 1
                     <=> rows[i][e.time] \in DaysIn(p))
    <3>1. SUFFICES ASSUME ps # {}
                   PROVE  (rows[i][e.time] >= p[1] /\ rows[i][e.time] < p[2] + 1
                             <=> rows[i][e.time] \in DaysIn(p))
      OBVIOUS
    <3> DEFINE day == rows[i][e.time]
               from == p[1]
               to == p[2]
    <3>2. day \in Nat
      <4>1. i \in 1..Len(rows)
        <5> DEFINE m == Len(rows)
        <5>1. n \in Nat /\ n <= m /\ m \in Nat
          BY <1>7
        <5> HIDE DEF n, m
        <5>2. i \in 1..m
          BY <5>1
        <5> QED  BY <5>2 DEF m
      <4> QED  BY <1>6, <1>7, <3>1, <4>1
    <3>3. from \in Int /\ to \in Int
      BY <1>2, <3>1 DEF GoodPeriods
    <3> HIDE DEF day, from, to
    <3>4. day >= from /\ day < to + 1 <=> day \in from..to
      BY <3>2, <3>3
    <3> QED  BY <3>4 DEF day, from, to, DaysIn
  <2> QED  BY <1>5, <2>2, <2>3
<1> QED
  BY <1>8, <1>9, <1>10 DEF q

-----------------------------------------------------------------------------
(* The rows of the result: one count, or the count of each group.  *)

\* What a row is grouped by: a column's value, or its group of days.
LEMMA KeyIsTheGroup ==
  ASSUME NEW run, RunOK(run), NEW e, NEW through, Answered(run, e, through),
         NEW g \in GroupingOf(run.definition), NEW i \in RowsMeant(run, e)
  PROVE  LET q == Compose(e, run.definition)
         IN /\ q.key # <<>>
            /\ (IF Len(q.key) = 2 THEN GrainSql(Tables[q.source][i][q.key[1]], q.key[2])
                ELSE Tables[q.source][i][q.key[1]]) = GroupMeant(e, g, i)
<1> DEFINE d == run.definition
           q == Compose(e, d)
           n == run.loaded[e.source]
           m == Len(Tables[e.source])
           day == Tables[e.source][i][e.time]
           column == ColumnOf(g[2], e.source)
<1>1. LoadedOK(run.loaded) /\ Declared(e) /\ CanApply(e, d)
  BY DEF RunOK, Answered
<1>2. GroupingOf(d) = {g} /\ g = Value(d, "group_by")
  BY SettingIs DEF GroupingOf
<1>3. ~e.whole
  BY <1>1, <1>2 DEF CanApply
<1>4. i \in 1..m
  <2>1. i \in 1..n
    BY DEF RowsMeant
  <2>2. n \in Nat /\ n <= m /\ m \in Nat
    BY <1>1, DatesAreDays
  <2> HIDE DEF n, m
  <2> QED  BY <2>1, <2>2
<1>5. q.source = e.source /\ q.key = IF g \in TimeGrains THEN <<e.time, g>> ELSE <<column>>
  BY <1>2 DEF Compose
<1>6. CASE g \in TimeGrains
  <2>1. q.key # <<>> /\ Len(q.key) = 2 /\ q.key[1] = e.time /\ q.key[2] = g
    <3>1. q.key = <<e.time, g>>
      BY <1>5, <1>6
    <3> HIDE DEF q
    <3> QED  BY <3>1
  <2>2. GroupingOf(d) \cap TimeGrains # {}
    BY <1>2, <1>6
  <2>3. e.time # ""
    BY <1>1, <1>3, <2>2 DEF CanApply
  <2>4. day \in Nat \ {0}
    BY <1>1, <1>3, <1>4, <2>3, DatesAreDays
  <2>5. GrainSql(day, g) = BucketStart(day, g)
    BY <1>6, <2>4, GrainSqlIsTheBucket
  <2>6. GroupMeant(e, g, i) = BucketStart(day, g)
    BY <1>6 DEF GroupMeant
  <2> HIDE DEF q
  <2> QED  BY <1>5, <2>1, <2>5, <2>6 DEF q
<1>7. CASE g \notin TimeGrains
  <2>1. q.key # <<>> /\ Len(q.key) = 1 /\ q.key[1] = column
    <3>1. q.key = <<column>>
      BY <1>5, <1>7
    <3> HIDE DEF q, column
    <3> QED  BY <3>1
  <2>2. ColumnsOf(g[2], e.source) # {}
    <3>1. g \in GroupingOf(d) \ TimeGrains
      BY <1>7
    <3> QED  BY <1>1, <1>3, <3>1 DEF CanApply
  <2>3. column = Dims[g[2]].columns[e.source]
    <3>1. ColumnsOf(g[2], e.source) = {Dims[g[2]].columns[e.source]}
      BY <2>2 DEF ColumnsOf
    <3> QED  BY <3>1 DEF ColumnOf
  <2>4. GroupMeant(e, g, i) = Tables[e.source][i][column]
    BY <1>7, <2>3 DEF GroupMeant
  <2> HIDE DEF q
  <2> QED  BY <1>5, <2>1, <2>4 DEF q
<1> QED
  BY <1>6, <1>7

\* What the rows meant amount to, group by group.
GroupsMeant(e, g, rows) ==
  {<<GroupMeant(e, g, i), Cardinality({j \in rows : GroupMeant(e, g, j) = GroupMeant(e, g, i)})>>
     : i \in rows}

LEMMA AnswerOfARun ==
  ASSUME NEW run, RunOK(run), NEW e, NEW through, Answered(run, e, through)
  PROVE  /\ GroupingOf(run.definition) = {} => run.answer = {<<Cardinality(RowsMeant(run, e))>>}
         /\ \A g \in GroupingOf(run.definition) : run.answer = GroupsMeant(e, g, RowsMeant(run, e))
<1> DEFINE d == run.definition
           q == Compose(e, d)
           rows == RowsMeant(run, e)
           split == GroupingOf(d)
           KeyOf(i) == IF Len(q.key) = 2 THEN GrainSql(Tables[q.source][i][q.key[1]], q.key[2])
                       ELSE Tables[q.source][i][q.key[1]]
<1>1. run.answer = Execute(q, run.loaded) /\ Selected(q, run.loaded) = rows
  BY SelectedAreMeant DEF Answered
<1>2. run.answer = IF q.key = <<>> THEN {<<Cardinality(rows)>>}
                   ELSE {<<KeyOf(i), Cardinality({j \in rows : KeyOf(j) = KeyOf(i)})>> : i \in rows}
  <2> DEFINE selected == Selected(q, run.loaded)
             Answer(ids) == IF q.key = <<>> THEN {<<Cardinality(ids)>>}
                            ELSE {<<KeyOf(i), Cardinality({j \in ids : KeyOf(j) = KeyOf(i)})>> : i \in ids}
  <2>1. Execute(q, run.loaded) = Answer(selected)
    BY DEF Execute
  <2> HIDE DEF Answer, selected, rows, q
  <2>2. Answer(selected) = Answer(rows)
    BY <1>1 DEF selected
  <2> QED  BY <1>1, <2>1, <2>2 DEF Answer
<1>3. split = {} => q.key = <<>>
  BY DEF Compose
<1>4. \A g \in split : \A i \in rows : q.key # <<>> /\ KeyOf(i) = GroupMeant(e, g, i)
  BY KeyIsTheGroup
<1>5. ASSUME NEW g \in split
      PROVE  run.answer = GroupsMeant(e, g, rows)
  <2> DEFINE Group(i) == GroupMeant(e, g, i)
  <2>1. q.key # <<>>
    BY DEF Compose
  <2>2. \A i \in rows : KeyOf(i) = Group(i)
    BY <1>4
  <2> HIDE DEF KeyOf, Group, rows, q
  <2>3. \A i \in rows : {j \in rows : KeyOf(j) = KeyOf(i)} = {j \in rows : Group(j) = Group(i)}
    BY <2>2
  <2>4. run.answer = {<<KeyOf(i), Cardinality({j \in rows : KeyOf(j) = KeyOf(i)})>> : i \in rows}
    BY <1>2, <2>1
  <2>5. run.answer = {<<Group(i), Cardinality({j \in rows : Group(j) = Group(i)})>> : i \in rows}
    BY <2>2, <2>3, <2>4
  <2> QED  BY <2>5 DEF Group, GroupsMeant
<1> QED
  BY <1>2, <1>3, <1>5

\* The groups of days of a result are those of its period, every one whole
\* except where the sheet says that the edges are not.
LEMMA GroupsOfARun ==
  ASSUME NEW run, RunOK(run), NEW e, NEW through, Answered(run, e, through),
         NEW g \in GroupingOf(run.definition) \cap TimeGrains, NEW p \in PeriodOf(run.definition)
  PROVE  /\ {a[1] : a \in run.answer} \subseteq BucketStarts(p, g)
         /\ EdgesArePartial(p, g) <=>
              \E s \in BucketStarts(p, g) : \E d \in s..(s + 30) :
                BucketStart(d, g) = s /\ d \notin DaysIn(p)
<1> DEFINE rows == RowsMeant(run, e)
           def == run.definition
           Day(i) == Tables[e.source][i][e.time]
<1>1. DefOK(def) /\ HasRule(def, "period") /\ p = Value(def, "period")
  BY DEF RunOK, PeriodOf
<1>2. p \in GoodPeriods
  BY <1>1, PeriodOfADefinition
<1>3. ASSUME NEW a \in run.answer
      PROVE  a[1] \in BucketStarts(p, g)
  <2>1. PICK i \in rows :
          a = <<GroupMeant(e, g, i),
                Cardinality({j \in rows : GroupMeant(e, g, j) = GroupMeant(e, g, i)})>>
    <3>1. run.answer = GroupsMeant(e, g, rows)
      BY AnswerOfARun
    <3> QED  BY <3>1 DEF GroupsMeant
  <2>2. a[1] = BucketStart(Day(i), g)
    BY <2>1 DEF GroupMeant
  <2>3. Day(i) \in DaysIn(p)
    BY <1>1 DEF RowsMeant
  <2> QED  BY <1>2, <2>2, <2>3, BucketsOfAPeriod
<1> QED
  BY <1>2, <1>3, EdgesOfAPeriod

\* What runs is what was confirmed (compiler.py:1): the rows of every result
\* are the confirmed reading's, over both ends of the confirmed period,
\* restricted to the confirmed value and split into the confirmed groups.
THEOREM AnswersCountTheConfirmedRowsAlways == Spec => []AnswersCountTheConfirmedRows
<1>1. Init => Sound
  BY SoundInit
<1>2. Sound /\ [Next]_vars => Sound'
  BY SoundNext
<1>3. Sound => AnswersCountTheConfirmedRows
  <2>1. SUFFICES ASSUME Sound, NEW run \in JustEnded, NEW e \in run.entry
                 PROVE  LET rows == RowsMeant(run, e)
                            split == GroupingOf(run.definition)
                        IN /\ split = {} => run.answer = {<<Cardinality(rows)>>}
                           /\ \A g \in split : run.answer = GroupsMeant(e, g, rows)
                           /\ \A g \in split \cap TimeGrains, p \in PeriodOf(run.definition) :
                                /\ {a[1] : a \in run.answer} \subseteq BucketStarts(p, g)
                                /\ EdgesArePartial(p, g) <=>
                                     \E s \in BucketStarts(p, g) : \E d \in s..(s + 30) :
                                       BucketStart(d, g) = s /\ d \notin DaysIn(p)
    BY DEF AnswersCountTheConfirmedRows, GroupsMeant
  <2>2. RunOK(run)
    BY <2>1, RunJustEnded
  <2>3. PICK x, through : Answered(run, x, through)
    BY <2>2 DEF RunOK
  <2>4. Answered(run, e, through)
    BY <2>1, <2>3 DEF Answered
  <2>5. /\ GroupingOf(run.definition) = {} => run.answer = {<<Cardinality(RowsMeant(run, e))>>}
        /\ \A g \in GroupingOf(run.definition) : run.answer = GroupsMeant(e, g, RowsMeant(run, e))
    BY <2>2, <2>4, AnswerOfARun
  <2> QED  BY <2>2, <2>4, <2>5, GroupsOfARun
<1> QED
  BY <1>1, <1>2, <1>3, PTL DEF Spec

-----------------------------------------------------------------------------
(* The days a time phrase means are those it is read as.                      *)

\* A day, its month and its year.
LEMMA CalendarFacts ==
  ASSUME NEW d \in Nat \ {0}
  PROVE  /\ MonthOf(d) \in Nat /\ MonthOf(d) >= 12 /\ YearOf(d) \in Nat \ {0}
         /\ InMonth(d, MonthOf(d)) /\ InYear(d, YearOf(d))
         /\ CalendarMonth(d) \in 1..12
         /\ MonthOf(d) = 12 * YearOf(d) + CalendarMonth(d) - 1
<1> DEFINE y == YearOf(d)
           k == MonthOf(d)
<1>1. y \in Nat \ {0} /\ InYear(d, y)
  BY YearFacts
<1>2. k \in Nat /\ k >= 12 /\ InMonth(d, k)
  BY MonthFacts
<1>3. k \in YearMonth(y, 1)..YearMonth(y, 12)
  BY MonthExists DEF MonthOf, InMonth
<1>4. CalendarMonth(d) = (k % 12) + 1
  BY DEF CalendarMonth
<1>5. k \in (12 * y)..(12 * y + 11)
  BY <1>1, <1>3, YearIsTwelveMonths
<1> HIDE DEF y, k
<1>6. k % 12 = k - 12 * y
  BY <1>1, <1>2, <1>5
<1>7. CalendarMonth(d) = k - 12 * y + 1
  BY <1>4, <1>6
<1>8. k - 12 * y + 1 \in 1..12 /\ k = 12 * y + (k - 12 * y + 1) - 1
  BY <1>1, <1>2, <1>5
<1> QED
  BY <1>1, <1>2, <1>7, <1>8 DEF y, k

LEMMA DayZero == YearOf(0) = 0
<1>1. YearStart(0) = 0 - 365 /\ YearStart(1) = 1 /\ YearStart(2) = 366
  <2>1. YearStart(1) = 1
    BY DEF YearStart
  <2>2. YearStart(2) = 366
    BY DEF YearStart
  <2>3. YearStart(0 + 1) - YearStart(0) = 365 + (IF IsLeap(0) THEN 1 ELSE 0) /\ YearStart(0) \in Int
    BY YearLength
  <2>4. IsLeap(0)
    BY DEF IsLeap
  <2>5. YearStart(0) = 0 - 365
    BY <2>1, <2>3, <2>4
  <2> QED  BY <2>1, <2>2, <2>5
<1>2. 0 \div 366 = 0 /\ 0 \div 365 + 1 = 1
  OBVIOUS
<1>3. YearOf(0) = CHOOSE y \in 0..1 : YearStart(y) <= 0 /\ 0 < YearStart(y + 1)
  BY <1>2 DEF YearOf
<1>4. \A y \in 0..1 : YearStart(y) <= 0 /\ 0 < YearStart(y + 1) <=> y = 0
  <2>1. YearStart(0 + 1) = 1 /\ YearStart(1 + 1) = 366
    BY <1>1
  <2>2. \A y \in 0..1 : y = 0 \/ y = 1
    OBVIOUS
  <2> QED  BY <1>1, <2>1, <2>2
<1> QED
  BY <1>3, <1>4

\* The day before the calendar begins lies in no month or year of it.
LEMMA BeforeDayOne ==
  /\ MonthOf(0) \in Nat /\ MonthOf(0) < 12
  /\ \A k \in Nat : k >= 12 => ~InMonth(0, k)
  /\ \A y \in Nat \ {0} : ~InYear(0, y)
<1>1. /\ YearMonth(0, 1) = 12 * 0 /\ YearMonth(0, 12) = 12 * 0 + 11
      /\ FirstOf((12 * 0 + 11) + 1) = YearStart(0 + 1)
  BY YearIsTwelveMonths
<1>2. YearStart(0 + 1) = 1
  BY DEF YearStart
<1>3. FirstOf(11) <= 0 /\ 0 < FirstOf(11 + 1)
  <2>1. (12 * 0 + 11) + 1 = 12 /\ 11 + 1 = 12
    OBVIOUS
  <2>2. FirstOf(12) = 1
    BY <1>1, <1>2, <2>1
  <2>3. FirstOf(11 + 1) - FirstOf(11) >= 28 /\ FirstOf(11) \in Int
    BY MonthLength
  <2> QED  BY <2>1, <2>2, <2>3
<1>4. MonthOf(0) = CHOOSE k \in 0..11 : FirstOf(k) <= 0 /\ 0 < FirstOf(k + 1)
  <2>1. YearMonth(0, 1) = 0 /\ YearMonth(0, 12) = 11
    BY <1>1
  <2> QED  BY <2>1, DayZero DEF MonthOf
<1>5. 11 \in 0..11
  OBVIOUS
<1>6. MonthOf(0) \in 0..11
  BY <1>3, <1>4, <1>5
<1>7. ASSUME NEW k \in Nat, k >= 12 PROVE ~InMonth(0, k)
  <2>1. FirstOf(k) \in Nat \ {0}
    BY <1>7, MonthInCalendar
  <2> QED  BY <2>1 DEF InMonth
<1>8. ASSUME NEW y \in Nat \ {0} PROVE ~InYear(0, y)
  <2>1. YearStart(y) \in Int /\ YearStart(y) >= 365 * (y - 1) + 1
    BY YearBounds, YearLength
  <2> QED  BY <2>1 DEF InYear
<1> QED
  BY <1>6, <1>7, <1>8

\* To lie in a month is to have it as one's month, and likewise for years.
LEMMA IsMonthOf ==
  ASSUME NEW d \in Nat, NEW k \in Nat, k >= 12
  PROVE  MonthOf(d) = k <=> InMonth(d, k)
<1>1. CASE d = 0
  BY <1>1, BeforeDayOne
<1>2. CASE d # 0
  BY <1>2, CalendarFacts, OneMonth
<1> QED
  BY <1>1, <1>2

LEMMA IsYearOf ==
  ASSUME NEW d \in Nat, NEW y \in Nat \ {0}
  PROVE  YearOf(d) = y <=> InYear(d, y)
<1>1. CASE d = 0
  BY <1>1, BeforeDayOne, DayZero
<1>2. CASE d # 0
  BY <1>2, CalendarFacts, OneYear
<1> QED
  BY <1>1, <1>2

\* A day of a year and a month of it.
LEMMA IsNamedMonth ==
  ASSUME NEW d \in Nat, NEW y \in Nat \ {0}, NEW m \in 1..12
  PROVE  /\ YearMonth(y, m) \in Nat /\ YearMonth(y, m) >= 12
         /\ YearOf(d) = y /\ CalendarMonth(d) = m <=> InMonth(d, YearMonth(y, m))
<1>1. YearMonth(y, m) = 12 * y + m - 1 /\ YearMonth(y, m) \in Nat /\ YearMonth(y, m) >= 12
  BY DEF YearMonth
<1>2. CASE d = 0
  BY <1>1, <1>2, BeforeDayOne, DayZero
<1>3. CASE d # 0
  <2>1. /\ YearOf(d) \in Nat /\ CalendarMonth(d) \in 1..12 /\ MonthOf(d) \in Nat
        /\ MonthOf(d) = 12 * YearOf(d) + CalendarMonth(d) - 1
    BY <1>3, CalendarFacts
  <2>2. \A a, b \in Nat, i, j \in 1..12 : 12 * a + i - 1 = 12 * b + j - 1 => a = b /\ i = j
    OBVIOUS
  <2>3. YearOf(d) = y /\ CalendarMonth(d) = m <=> MonthOf(d) = YearMonth(y, m)
    BY <1>1, <2>1, <2>2
  <2> QED  BY <1>1, <2>3, IsMonthOf
<1> QED
  BY <1>1, <1>2, <1>3

LEMMA WorkDayIsLate ==
  ASSUME NEW now \in WorkDays
  PROVE  /\ now \in Nat \ {0} /\ now > 732 /\ YearOf(now) >= 3 /\ MonthOf(now) >= 36
         /\ YearOf(now) \in Nat /\ MonthOf(now) \in Nat
<1>1. now \in Nat /\ now > 2 * 366
  BY DefinitionsAssumption
<1>2. now \in Nat \ {0} /\ now > 732
  BY <1>1
<1> DEFINE y == YearOf(now)
           k == MonthOf(now)
           m == CalendarMonth(now)
<1>3. y \in Nat \ {0} /\ InYear(now, y) /\ k \in Nat /\ m \in 1..12 /\ k = 12 * y + m - 1
  BY <1>2, CalendarFacts
<1>4. YearStart(2) = 366 /\ YearStart(3) = 731
  BY DEF YearStart
<1> HIDE DEF y, k, m
<1>5. y # 1 /\ y # 2
  <2>1. (y = 1 => y + 1 = 2) /\ (y = 2 => y + 1 = 3)
    OBVIOUS
  <2>2. now < YearStart(y + 1)
    BY <1>3 DEF InYear
  <2> QED  BY <1>2, <1>4, <2>1, <2>2
<1>6. y >= 3 /\ k >= 36
  BY <1>3, <1>5
<1> QED
  BY <1>2, <1>3, <1>6 DEF y, k

\* A period of exactly the days that are meant is what is meant.
LEMMA ExactlyTheDays ==
  ASSUME NEW ph, NEW now, NEW p \in GoodPeriods,
         \A d \in Nat : DayMeant(ph, d, now) <=> p[1] <= d /\ d <= p[2]
  PROVE  PeriodMeant(ph, p, now)
<1> DEFINE a == p[1]
           b == p[2]
<1>1. a \in Int /\ b \in Int /\ 1 <= a /\ a <= b
  BY DEF GoodPeriods
<1>2. \A d \in Nat : DayMeant(ph, d, now) <=> a <= d /\ d <= b
  OBVIOUS
<1>3. PeriodMeant(ph, p, now) <=> /\ \A d \in {a, b} : DayMeant(ph, d, now)
                                  /\ \A d \in {a - 1, b + 1} : ~DayMeant(ph, d, now)
  BY DEF PeriodMeant
<1> HIDE DEF a, b
<1>4. /\ a \in Nat /\ b \in Nat /\ a - 1 \in Nat /\ b + 1 \in Nat
      /\ ~(a <= a - 1) /\ ~(b + 1 <= b) /\ a <= a /\ b <= b
  BY <1>1
<1> QED
  BY <1>1, <1>2, <1>3, <1>4

\* The first and the last day of a month bound it.
LEMMA DaysOfMonth ==
  ASSUME NEW k \in Nat, NEW d \in Nat
  PROVE  InMonth(d, k) <=> Month(k)[1] <= d /\ d <= Month(k)[2]
<1>1. Month(k)[1] = FirstOf(k) /\ Month(k)[2] = FirstOf(k + 1) - 1
  BY DEF Month, Period
<1>2. FirstOf(k) \in Int /\ FirstOf(k + 1) \in Int
  BY MonthLength
<1> QED
  BY <1>1, <1>2 DEF InMonth

\* The words of a phrase of one form.
LEMMA FormIs ==
  ASSUME NEW ph, IsSequence(ph), NEW S, NEW f \in Seq(S), Form(ph) = f
  PROVE  /\ Len(ph) \in Nat /\ Len(ph) = Len(f) /\ DOMAIN ph = 1..Len(ph)
         /\ \A i \in 1..Len(f) : ph[i].is = f[i]
<1>1. Len(ph) \in Nat /\ DOMAIN ph = 1..Len(ph)
  BY SequenceIsList
<1>2. DOMAIN f = 1..Len(f) /\ Len(f) \in Nat
  OBVIOUS
<1>3. f = [i \in 1..Len(ph) |-> ph[i].is]
  BY DEF Form
<1>4. 1..Len(ph) = 1..Len(f)
  BY <1>2, <1>3
<1>5. \A a, b \in Nat : 1..a = 1..b => a = b
  <2>1. SUFFICES ASSUME NEW a \in Nat, NEW b \in Nat, 1..a = 1..b, a < b \/ b < a PROVE FALSE
    OBVIOUS
  <2>2. a < b => b \in 1..b /\ b \notin 1..a
    OBVIOUS
  <2>3. b < a => a \in 1..a /\ a \notin 1..b
    OBVIOUS
  <2> QED  BY <2>1, <2>2, <2>3
<1> QED
  BY <1>1, <1>2, <1>3, <1>4, <1>5

\* A phrase of words that were typed, which says one of the times.
TimeSaid(ph, f) ==
  /\ IsSequence(ph) /\ Form(ph) = f /\ f \in Shapes
  /\ \A i \in 1..Len(ph) : WordOK(ph[i])
  /\ \A i \in 1..Len(ph) : /\ ph[i].is \in {"month", "isoMonth"} => ph[i].m \in 1..12
                           /\ ph[i].is \in {"lastDays", "lastMonths"} => ph[i].n > 0

\* A phrase of a single word.
LEMMA OneWord ==
  ASSUME NEW ph, NEW w, TimeSaid(ph, <<w>>)
  PROVE  /\ Len(ph) = 1 /\ ph[1].is = w /\ WordOK(ph[1])
         /\ w \in {"month", "isoMonth"} => ph[1].m \in 1..12
         /\ w \in {"lastDays", "lastMonths"} => ph[1].n > 0
<1> DEFINE f == <<w>>
<1>1. f \in Seq({w}) /\ Len(f) = 1 /\ f[1] = w
  OBVIOUS
<1> HIDE DEF f
<1>2. IsSequence(ph) /\ Form(ph) = f
  BY DEF TimeSaid, f
<1>3. Len(ph) = Len(f) /\ \A i \in 1..Len(f) : ph[i].is = f[i]
  BY <1>1, <1>2, FormIs
<1>4. 1 \in 1..Len(ph) /\ ph[1].is = w /\ Len(ph) = 1
  BY <1>1, <1>3
<1> QED
  BY <1>4 DEF TimeSaid

\* This and the previous month, week and year.
LEMMA OneWordMeans ==
  ASSUME NEW ph, NEW w, TimeSaid(ph, <<w>>), NEW now \in WorkDays,
         w \in {"prevMonth", "thisMonth", "prevWeek", "thisWeek", "prevYear", "thisYear"},
         NEW p \in Handler(<<w>>, ph, now)
  PROVE  \A d \in Nat : DayMeant(ph, d, now) <=> p[1] <= d /\ d <= p[2]
<1> DEFINE y == YearOf(now)
           k == MonthOf(now)
<1>1. /\ now \in Nat \ {0} /\ now > 732 /\ y >= 3 /\ k >= 36 /\ y \in Nat /\ k \in Nat
  BY WorkDayIsLate
<1>2. Len(ph) = 1 /\ ph[1].is = w
  BY OneWord
<1>3. p \in Reading(<<w>>, ph, now, y, k)
  BY DEF Handler
<1>4. InMonth(now, k) /\ InYear(now, y)
  BY <1>1, IsMonthOf, IsYearOf
<1>5. \A a, b : Period(a, b)[1] = a /\ Period(a, b)[2] = b
  BY DEF Period
<1> HIDE DEF k, y
<1> SUFFICES ASSUME NEW d \in Nat PROVE DayMeant(ph, d, now) <=> p[1] <= d /\ d <= p[2]
  OBVIOUS
<1>6. CASE w = "prevMonth"
  <2>1. p = Month(k - 1)
    BY <1>3, <1>6 DEF Reading
  <2>2. DayMeant(ph, d, now) <=> MonthOf(d) = k - 1
    BY <1>2, <1>6 DEF DayMeant, k
  <2>3. k - 1 \in Nat /\ k - 1 >= 12
    BY <1>1
  <2>4. MonthOf(d) = k - 1 <=> InMonth(d, k - 1)
    BY <2>3, IsMonthOf
  <2> QED  BY <2>1, <2>2, <2>3, <2>4, DaysOfMonth
<1>7. CASE w = "thisMonth"
  <2>1. p = Period(FirstOf(k), now)
    BY <1>3, <1>7 DEF Reading
  <2>2. DayMeant(ph, d, now) <=> MonthOf(d) = k /\ d <= now
    BY <1>2, <1>7 DEF DayMeant, k
  <2>3. MonthOf(d) = k <=> FirstOf(k) <= d /\ d < FirstOf(k + 1)
    BY <1>1, IsMonthOf DEF InMonth
  <2>4. FirstOf(k) \in Int /\ FirstOf(k + 1) \in Int /\ now < FirstOf(k + 1)
    BY <1>1, <1>4, MonthLength DEF InMonth
  <2>5. p[1] = FirstOf(k) /\ p[2] = now
    BY <1>5, <2>1
  <2> HIDE DEF k
  <2> DEFINE a == FirstOf(k)
             b == FirstOf(k + 1)
  <2>6. a \in Int /\ b \in Int /\ now < b
    BY <2>4
  <2>7. MonthOf(d) = k <=> a <= d /\ d < b
    BY <2>3
  <2>8. p[1] = a
    BY <2>5
  <2> HIDE DEF a, b
  <2> QED  BY <1>1, <2>2, <2>5, <2>6, <2>7, <2>8
<1>8. CASE w \in {"prevWeek", "thisWeek"}
  <2> DEFINE v == Week(now)
             m == Monday(now)
             u == Week(d)
  <2>1. v = (now - 1) \div 7 /\ m = now - ((now - 1) % 7) /\ u = (d - 1) \div 7
    BY DEF Week, Monday
  <2>2. m = 7 * v + 1 /\ m <= now /\ now < m + 7 /\ v \in Nat
    BY <1>1, <2>1
  <2>3. \A i \in Nat : u = i <=> 7 * i + 1 <= d /\ d < 7 * i + 8
    BY <2>1
  <2>4. w = "prevWeek" => /\ p = Period(m - 7, m - 1)
                          /\ DayMeant(ph, d, now) <=> u = v - 1
    BY <1>2, <1>3 DEF Reading, DayMeant
  <2>5. w = "thisWeek" => /\ p = Period(m, now)
                          /\ DayMeant(ph, d, now) <=> u = v /\ d <= now
    BY <1>2, <1>3 DEF Reading, DayMeant
  <2>8. v > 0
    BY <1>1, <2>1
  <2> HIDE DEF u, v, m
  <2>6. CASE w = "prevWeek"
    <3>1. p[1] = m - 7 /\ p[2] = m - 1
      BY <1>5, <2>4, <2>6
    <3>2. v - 1 \in Nat
      BY <2>2, <2>8
    <3>3. u = v - 1 <=> 7 * (v - 1) + 1 <= d /\ d < 7 * (v - 1) + 8
      BY <2>3, <3>2
    <3> QED  BY <2>2, <2>4, <2>6, <3>1, <3>2, <3>3
  <2>7. CASE w = "thisWeek"
    <3>1. p[1] = m /\ p[2] = now
      BY <1>5, <2>5, <2>7
    <3>2. u = v <=> 7 * v + 1 <= d /\ d < 7 * v + 8
      BY <2>2, <2>3
    <3> QED  BY <1>1, <2>2, <2>5, <2>7, <3>1, <3>2
  <2> QED  BY <1>8, <2>6, <2>7
<1>9. CASE w \in {"prevYear", "thisYear"}
  <2> DEFINE a == YearStart(y - 1)
             b == YearStart(y)
             c == YearStart(y + 1)
  <2>1. a \in Int /\ b \in Int /\ c \in Int /\ b <= now /\ now < c
    BY <1>1, <1>4, YearLength DEF InYear
  <2>2. (YearOf(d) = y <=> b <= d /\ d < c)
    BY <1>1, IsYearOf DEF InYear
  <2>3. YearOf(d) = y - 1 <=> a <= d /\ d < b
    <3>1. y - 1 \in Nat \ {0} /\ (y - 1) + 1 = y
      BY <1>1
    <3> QED  BY <3>1, IsYearOf DEF InYear
  <2>4. w = "prevYear" => /\ p = Period(a, b - 1)
                          /\ DayMeant(ph, d, now) <=> YearOf(d) = y - 1 /\ d <= now
    BY <1>2, <1>3 DEF Reading, DayMeant, y
  <2>5. w = "thisYear" => /\ p = Period(b, now)
                          /\ DayMeant(ph, d, now) <=> YearOf(d) = y - 0 /\ d <= now
    BY <1>2, <1>3 DEF Reading, DayMeant, y
  <2> HIDE DEF a, b, c
  <2>6. CASE w = "prevYear"
    <3>1. p[1] = a /\ p[2] = b - 1
      BY <1>5, <2>4, <2>6
    <3> QED  BY <1>1, <2>1, <2>3, <2>4, <2>6, <3>1
  <2>7. CASE w = "thisYear"
    <3>1. p[1] = b /\ p[2] = now
      BY <1>5, <2>5, <2>7
    <3>2. y - 0 = y
      BY <1>1
    <3> QED  BY <1>1, <2>1, <2>2, <2>5, <2>7, <3>1, <3>2
  <2> QED  BY <1>9, <2>6, <2>7
<1> QED
  BY <1>6, <1>7, <1>8, <1>9

\* Days counted back from the day of the question.
LEMMA CountedDaysMean ==
  ASSUME NEW ph, NEW w, TimeSaid(ph, <<w>>), NEW now \in WorkDays,
         w \in {"lastDays", "daysAgo"}, NEW p \in Handler(<<w>>, ph, now)
  PROVE  \A d \in Nat : DayMeant(ph, d, now) <=> p[1] <= d /\ d <= p[2]
<1> DEFINE n == ph[1].n
           y == YearOf(now)
           k == MonthOf(now)
<1>1. Len(ph) = 1 /\ ph[1].is = w /\ WordOK(ph[1]) /\ (w = "lastDays" => n > 0)
  BY OneWord
<1>2. p \in Reading(<<w>>, ph, now, y, k)
  BY DEF Handler
<1>3. \A a, b : Period(a, b)[1] = a /\ Period(a, b)[2] = b
  BY DEF Period
<1>4. n \in Nat /\ now \in Nat
  BY <1>1, WorkDayIsLate DEF WordOK
<1> HIDE DEF n
<1> SUFFICES ASSUME NEW d \in Nat PROVE DayMeant(ph, d, now) <=> p[1] <= d /\ d <= p[2]
  OBVIOUS
<1>5. CASE w = "lastDays"
  <2>1. n # 0
    BY <1>1, <1>4, <1>5
  <2>2. p = Period(now - (n - 1), now)
    BY <1>2, <1>5, <2>1 DEF Reading, n
  <2>3. DayMeant(ph, d, now) <=> now - d \in 0..(n - 1)
    BY <1>1, <1>5 DEF DayMeant, n
  <2>4. p[1] = now - (n - 1) /\ p[2] = now
    BY <1>3, <2>2
  <2> QED  BY <1>4, <2>3, <2>4
<1>6. CASE w = "daysAgo"
  <2>1. p = Period(now - n, now - n)
    BY <1>2, <1>6 DEF Reading, n
  <2>2. DayMeant(ph, d, now) <=> now - d = n
    BY <1>1, <1>6 DEF DayMeant, n
  <2>3. p[1] = now - n /\ p[2] = now - n
    BY <1>3, <2>1
  <2> QED  BY <1>4, <2>2, <2>3
<1> QED
  BY <1>5, <1>6

\* A month by its name is the last one of that name that has begun.
LEMMA NamedMonthMeans ==
  ASSUME NEW ph, TimeSaid(ph, <<"month">>), NEW now \in WorkDays,
         NEW p \in Handler(<<"month">>, ph, now)
  PROVE  \A d \in Nat : DayMeant(ph, d, now) <=> p[1] <= d /\ d <= p[2]
<1> DEFINE m == ph[1].m
           y == YearOf(now)
           k == MonthOf(now)
           c == (k % 12) + 1
           z == IF m <= c THEN y ELSE y - 1
           l == YearMonth(z, m)
<1>1. ph[1].is = "month" /\ m \in 1..12
  BY OneWord
<1>2. p \in MonthNamed(z, m)
  BY DEF Handler, Reading
<1>3. p = Month(l)
  BY <1>1, <1>2 DEF MonthNamed
<1>4. /\ y \in Nat /\ y >= 3 /\ k \in Nat /\ c \in 1..12 /\ k = 12 * y + c - 1
  BY WorkDayIsLate, CalendarFacts DEF CalendarMonth
<1>5. l = 12 * z + m - 1 /\ z \in Nat
  BY <1>4 DEF YearMonth
<1>6. /\ l \in Nat /\ l >= 12 /\ l \in (k - 11)..k /\ (l % 12) + 1 = m
      /\ \A j \in Nat : j \in (k - 11)..k /\ (j % 12) + 1 = m => j = l
  <2>1. l = 12 * z + (m - 1) /\ z = (IF m <= c THEN y ELSE y - 1)
    BY <1>1, <1>5
  <2>2. l \in Nat /\ l >= 12 /\ l \in (k - 11)..k
    <3> HIDE DEF l, c, k, y, z, m
    <3> QED  BY <1>1, <1>4, <2>1
  <2>3. \A a \in Nat, i \in 0..11 : (12 * a + i) % 12 = i
    OBVIOUS
  <2>4. (l % 12) + 1 = m
    <3>1. m - 1 \in 0..11
      BY <1>1
    <3>2. (12 * z + (m - 1)) % 12 = m - 1
      BY <1>5, <2>3, <3>1
    <3> HIDE DEF l, z
    <3> QED  BY <1>1, <2>1, <3>2
  <2>5. ASSUME NEW j \in Nat, j \in (k - 11)..k, (j % 12) + 1 = m PROVE j = l
    <3> HIDE DEF l, c, k, y, z, m
    <3>1. j % 12 = l % 12
      BY <1>1, <2>2, <2>4, <2>5
    <3>2. j - l <= 11 /\ l - j <= 11
      BY <1>4, <2>2, <2>5
    <3>3. j = 12 * (j \div 12) + (j % 12) /\ l = 12 * (l \div 12) + (l % 12)
      BY <2>2
    <3> QED  BY <2>2, <3>1, <3>2, <3>3
  <2> QED  BY <2>2, <2>4, <2>5
<1> SUFFICES ASSUME NEW d \in Nat PROVE DayMeant(ph, d, now) <=> p[1] <= d /\ d <= p[2]
  OBVIOUS
<1>7. DayMeant(ph, d, now) <=> MonthOf(d) \in (k - 11)..k /\ (MonthOf(d) % 12) + 1 = m
  <2>1. Len(ph) = 1
    BY OneWord
  <2> QED  BY <1>1, <2>1 DEF DayMeant, CalendarMonth
<1>8. MonthOf(d) \in Nat
  BY BeforeDayOne, CalendarFacts
<1> HIDE DEF l, z, c, m, k, y
<1>9. DayMeant(ph, d, now) <=> MonthOf(d) = l
  BY <1>6, <1>7, <1>8
<1>10. MonthOf(d) = l <=> InMonth(d, l)
  BY <1>6, IsMonthOf
<1> QED
  BY <1>3, <1>6, <1>9, <1>10, DaysOfMonth

\* Months that are written with their year.
LEMMA IsoMonthMeans ==
  ASSUME NEW ph, TimeSaid(ph, <<"isoMonth">>), NEW now \in WorkDays,
         NEW p \in Handler(<<"isoMonth">>, ph, now)
  PROVE  \A d \in Nat : DayMeant(ph, d, now) <=> p[1] <= d /\ d <= p[2]
<1> DEFINE m == ph[1].m
           y == ph[1].y
           l == YearMonth(y, m)
<1>1. ph[1].is = "isoMonth" /\ m \in 1..12 /\ y \in Nat \ {0}
  BY OneWord DEF WordOK
<1>2. p \in MonthNamed(y, m)
  BY DEF Handler, Reading
<1>3. p = Month(l)
  BY <1>1, <1>2 DEF MonthNamed
<1> SUFFICES ASSUME NEW d \in Nat PROVE DayMeant(ph, d, now) <=> p[1] <= d /\ d <= p[2]
  OBVIOUS
<1>4. DayMeant(ph, d, now) <=> YearOf(d) = y /\ CalendarMonth(d) = m
  BY <1>1 DEF DayMeant
<1>5. /\ l \in Nat /\ l >= 12
      /\ YearOf(d) = y /\ CalendarMonth(d) = m <=> InMonth(d, l)
  <2> HIDE DEF y, m
  <2> QED  BY <1>1, IsNamedMonth
<1> HIDE DEF l
<1> QED
  BY <1>3, <1>4, <1>5, DaysOfMonth

LEMMA YearMonthMeans ==
  ASSUME NEW ph, TimeSaid(ph, <<"year", "month">>), NEW now \in WorkDays,
         NEW p \in Handler(<<"year", "month">>, ph, now)
  PROVE  \A d \in Nat : DayMeant(ph, d, now) <=> p[1] <= d /\ d <= p[2]
<1> DEFINE m == ph[2].m
           y == ph[1].y
           l == YearMonth(y, m)
<1>1. Len(ph) = 2 /\ ph[1].is = "year" /\ m \in 1..12 /\ y \in Nat \ {0}
  <2> DEFINE f == <<"year", "month">>
  <2>1. f \in Seq({"year", "month"}) /\ Len(f) = 2 /\ f[1] = "year" /\ f[2] = "month"
    OBVIOUS
  <2> HIDE DEF f
  <2>2. IsSequence(ph) /\ Form(ph) = f
    BY DEF TimeSaid, f
  <2>3. Len(ph) = Len(f) /\ \A i \in 1..Len(f) : ph[i].is = f[i]
    BY <2>1, <2>2, FormIs
  <2>4. Len(ph) = 2 /\ 1 \in 1..Len(ph) /\ 2 \in 1..Len(ph) /\ ph[1].is = "year" /\ ph[2].is = "month"
    BY <2>1, <2>3
  <2> QED  BY <2>4 DEF TimeSaid, WordOK
<1>2. p \in MonthNamed(y, m)
  BY DEF Handler, Reading
<1>3. p = Month(l)
  BY <1>1, <1>2 DEF MonthNamed
<1> SUFFICES ASSUME NEW d \in Nat PROVE DayMeant(ph, d, now) <=> p[1] <= d /\ d <= p[2]
  OBVIOUS
<1>4. DayMeant(ph, d, now) <=> YearOf(d) = y /\ CalendarMonth(d) = m
  BY <1>1 DEF DayMeant
<1>5. /\ l \in Nat /\ l >= 12
      /\ YearOf(d) = y /\ CalendarMonth(d) = m <=> InMonth(d, l)
  <2> HIDE DEF y, m
  <2> QED  BY <1>1, IsNamedMonth
<1> HIDE DEF l
<1> QED
  BY <1>3, <1>4, <1>5, DaysOfMonth

\* A day that is written out, if its month has it.
LEMMA ThatDayMeans ==
  ASSUME NEW ph, TimeSaid(ph, <<"year", "month", "day">>), NEW now \in WorkDays,
         NEW p \in Handler(<<"year", "month", "day">>, ph, now), ~Raises(p)
  PROVE  \A d \in Nat : DayMeant(ph, d, now) <=> p[1] <= d /\ d <= p[2]
<1> DEFINE m == ph[2].m
           y == ph[1].y
           n == ph[3].d
           l == YearMonth(y, m)
           f == FirstOf(l)
           g == FirstOf(l + 1)
<1>1. Len(ph) = 3 /\ ph[1].is = "year" /\ m \in 1..12 /\ y \in Nat \ {0} /\ n \in Nat
  <2> DEFINE s == <<"year", "month", "day">>
  <2>1. /\ s \in Seq({"year", "month", "day"}) /\ Len(s) = 3
        /\ s[1] = "year" /\ s[2] = "month" /\ s[3] = "day"
    OBVIOUS
  <2> HIDE DEF s
  <2>2. IsSequence(ph) /\ Form(ph) = s
    BY DEF TimeSaid, s
  <2>3. Len(ph) = Len(s) /\ \A i \in 1..Len(s) : ph[i].is = s[i]
    BY <2>1, <2>2, FormIs
  <2>4. /\ Len(ph) = 3 /\ 1 \in 1..Len(ph) /\ 2 \in 1..Len(ph) /\ 3 \in 1..Len(ph)
        /\ ph[1].is = "year" /\ ph[2].is = "month" /\ ph[3].is = "day"
    BY <2>1, <2>3
  <2> QED  BY <2>4 DEF TimeSaid, WordOK
<1>2. p \in OneDay(Date(y, m, n))
  BY DEF Handler, Reading
<1>3. Raises(Refused)
  BY RefusedIsARange
<1>4. Date(y, m, n) # NoDay /\ p = Period(Date(y, m, n), Date(y, m, n))
  BY <1>2, <1>3 DEF OneDay
<1>5. Date(y, m, n) = f + n - 1 /\ f + n - 1 \in f..(g - 1)
  BY <1>4 DEF Date
<1>6. p[1] = f + n - 1 /\ p[2] = f + n - 1
  BY <1>4, <1>5 DEF Period
<1>7. l \in Nat /\ l >= 12
  <2> HIDE DEF y, m
  <2> QED  BY <1>1, IsNamedMonth
<1>8. f \in Nat \ {0} /\ g \in Int
  BY <1>7, MonthInCalendar, MonthLength
<1> SUFFICES ASSUME NEW d \in Nat PROVE DayMeant(ph, d, now) <=> p[1] <= d /\ d <= p[2]
  OBVIOUS
<1>9. DayMeant(ph, d, now) <=> /\ YearOf(d) = y /\ CalendarMonth(d) = m
                               /\ d - FirstOf(MonthOf(d)) + 1 = n
  BY <1>1 DEF DayMeant
<1>10. YearOf(d) = y /\ CalendarMonth(d) = m <=> InMonth(d, l)
  <2> HIDE DEF y, m
  <2> QED  BY <1>1, IsNamedMonth
<1>11. InMonth(d, l) <=> MonthOf(d) = l
  BY <1>7, IsMonthOf
<1>12. InMonth(d, l) <=> f <= d /\ d < g
  BY DEF InMonth
<1>13. DayMeant(ph, d, now) <=> InMonth(d, l) /\ d - f + 1 = n
  BY <1>9, <1>10, <1>11
<1> HIDE DEF f, g, l, n
<1> QED
  BY <1>1, <1>5, <1>6, <1>8, <1>12, <1>13

\* One date, or the days from one date to another.
LEMMA IsoMeans ==
  ASSUME NEW ph, NEW f \in {<<"iso">>, <<"iso", "to", "iso">>}, TimeSaid(ph, f), NEW now \in WorkDays,
         NEW p \in Handler(f, ph, now), ~Raises(p)
  PROVE  \A d \in Nat : DayMeant(ph, d, now) <=> p[1] <= d /\ d <= p[2]
<1>1. Raises(Refused)
  BY RefusedIsARange
<1>2. CASE f = <<"iso">>
  <2> DEFINE a == ph[1].day
  <2>1. Len(ph) = 1 /\ ph[1].is = "iso"
    BY <1>2, OneWord
  <2>2. p \in OneDay(a)
    BY <1>2 DEF Handler, Reading
  <2>3. a # NoDay /\ p = Period(a, a)
    BY <1>1, <2>2 DEF OneDay
  <2>4. p[1] = a /\ p[2] = a
    BY <2>3 DEF Period
  <2>5. \A d \in Nat : DayMeant(ph, d, now) <=> a <= d /\ d <= a
    BY <2>1, <2>3 DEF DayMeant
  <2> QED  BY <2>4, <2>5
<1>3. CASE f = <<"iso", "to", "iso">>
  <2> DEFINE a == ph[1].day
             b == ph[3].day
  <2>1. Len(ph) = 3 /\ ph[1].is = "iso"
    <3> DEFINE s == <<"iso", "to", "iso">>
    <3>1. s \in Seq({"iso", "to"}) /\ Len(s) = 3 /\ s[1] = "iso"
      OBVIOUS
    <3>2. IsSequence(ph) /\ Form(ph) = s
      BY <1>3 DEF TimeSaid
    <3> HIDE DEF s
    <3>3. Len(ph) = Len(s) /\ \A i \in 1..Len(s) : ph[i].is = s[i]
      BY <3>1, <3>2, FormIs
    <3> QED  BY <3>1, <3>3
  <2>2. p \in (IF NoDay \in {a, b} THEN {Refused} ELSE {Period(a, b)})
    BY <1>3 DEF Handler, Reading
  <2>3. a # NoDay /\ p = Period(a, b)
    BY <1>1, <2>2
  <2>4. p[1] = a /\ p[2] = b
    BY <2>3 DEF Period
  <2>5. \A d \in Nat : DayMeant(ph, d, now) <=> a <= d /\ d <= b
    BY <2>1, <2>3 DEF DayMeant
  <2> QED  BY <2>4, <2>5
<1> QED
  BY <1>2, <1>3

\* What is made of a phrase of time words is what they mean.
LEMMA ReadAsMeant ==
  ASSUME NEW ph, NEW f \in Shapes, TimeSaid(ph, f), f # <<"lastMonths">>, NEW now \in WorkDays,
         NEW p \in Handler(f, ph, now), p \in GoodPeriods
  PROVE  PeriodMeant(ph, p, now)
<1>1. ~Raises(p)
  BY DEF Raises, GoodPeriods
<1>2. \A d \in Nat : DayMeant(ph, d, now) <=> p[1] <= d /\ d <= p[2]
  <2>1. CASE f \in {<<"prevMonth">>, <<"thisMonth">>, <<"prevWeek">>, <<"thisWeek">>, <<"prevYear">>,
                    <<"thisYear">>}
    <3>1. PICK w \in {"prevMonth", "thisMonth", "prevWeek", "thisWeek", "prevYear", "thisYear"} : f = <<w>>
      BY <2>1
    <3> QED  BY <3>1, OneWordMeans
  <2>2. CASE f \in {<<"lastDays">>, <<"daysAgo">>}
    <3>1. PICK w \in {"lastDays", "daysAgo"} : f = <<w>>
      BY <2>2
    <3> QED  BY <3>1, CountedDaysMean
  <2>3. CASE f = <<"month">>
    BY <2>3, NamedMonthMeans
  <2>4. CASE f = <<"isoMonth">>
    BY <2>4, IsoMonthMeans
  <2>5. CASE f = <<"year", "month">>
    BY <2>5, YearMonthMeans
  <2>6. CASE f = <<"year", "month", "day">>
    BY <1>1, <2>6, ThatDayMeans
  <2>7. CASE f \in {<<"iso">>, <<"iso", "to", "iso">>}
    BY <1>1, <2>7, IsoMeans
  <2> QED  BY <2>1, <2>2, <2>3, <2>4, <2>5, <2>6, <2>7, ShapesListed, Zenon
<1> QED
  BY <1>2, ExactlyTheDays

\* Something is made of every such phrase, and one thing.
LEMMA ReadsOne ==
  ASSUME NEW ph, NEW f \in Shapes, TimeSaid(ph, f), NEW now \in WorkDays
  PROVE  \E r : Handler(f, ph, now) = {r}
<1> DEFINE y == YearOf(now)
           k == MonthOf(now)
<1>1. Handler(f, ph, now) = Reading(f, ph, now, y, k)
  BY DEF Handler
<1>2. \A z, m : m \in 1..12 => \E r : MonthNamed(z, m) = {r}
  BY DEF MonthNamed
<1>3. \A d : \E r : OneDay(d) = {r}
  BY DEF OneDay
<1> HIDE DEF y, k
<1>4. CASE f = <<"iso", "to", "iso">>
  BY <1>1, <1>4 DEF Reading
<1>5. CASE f = <<"year", "month", "day">>
  BY <1>1, <1>3, <1>5 DEF Reading
<1>6. CASE f = <<"iso">>
  BY <1>1, <1>3, <1>6 DEF Reading
<1>7. CASE f = <<"year", "month">>
  <2> DEFINE s == <<"year", "month">>
  <2>1. s \in Seq({"year", "month"}) /\ Len(s) = 2 /\ s[2] = "month"
    OBVIOUS
  <2> HIDE DEF s
  <2>2. IsSequence(ph) /\ Form(ph) = s
    BY <1>7 DEF TimeSaid, s
  <2>3. 2 \in 1..Len(ph) /\ ph[2].is = "month"
    BY <2>1, <2>2, FormIs
  <2>4. ph[2].m \in 1..12
    BY <2>3 DEF TimeSaid
  <2> QED  BY <1>1, <1>2, <1>7, <2>4 DEF Reading
<1>8. CASE f = <<"isoMonth">>
  <2>1. ph[1].m \in 1..12
    BY <1>8, OneWord
  <2> QED  BY <1>1, <1>2, <1>8, <2>1 DEF Reading
<1>9. CASE f = <<"lastDays">>
  <2>1. ph[1].n > 0 /\ ph[1].n \in Nat
    BY <1>9, OneWord DEF WordOK
  <2>2. ph[1].n # 0
    BY <2>1
  <2> QED  BY <1>1, <1>9, <2>2 DEF Reading
<1>10. CASE f = <<"lastMonths">>
  <2>1. ph[1].n > 0 /\ ph[1].n \in Nat
    BY <1>10, OneWord DEF WordOK
  <2>2. ph[1].n # 0
    BY <2>1
  <2> QED  BY <1>1, <1>10, <2>2 DEF Reading
<1>11. CASE f = <<"month">>
  <2>1. ph[1].m \in 1..12
    BY <1>11, OneWord
  <2> QED  BY <1>1, <1>2, <1>11, <2>1 DEF Reading
<1>12. CASE f = <<"prevMonth">>
  BY <1>1, <1>12 DEF Reading
<1>13. CASE f = <<"thisMonth">>
  BY <1>1, <1>13 DEF Reading
<1>14. CASE f = <<"prevWeek">>
  BY <1>1, <1>14 DEF Reading
<1>15. CASE f = <<"thisWeek">>
  BY <1>1, <1>15 DEF Reading
<1>16. CASE f = <<"prevYear">>
  BY <1>1, <1>16 DEF Reading
<1>17. CASE f = <<"thisYear">>
  BY <1>1, <1>17 DEF Reading
<1>18. CASE f = <<"daysAgo">>
  BY <1>1, <1>18 DEF Reading
<1> QED
  BY <1>4, <1>5, <1>6, <1>7, <1>8, <1>9, <1>10, <1>11, <1>12, <1>13, <1>14, <1>15, <1>16,
     <1>17, <1>18, ShapesListed, Zenon

-----------------------------------------------------------------------------
(* Where the phrases of a question lie in its text.                           *)

\* Each of the first n sequences lies in t behind the ones before it.
LaidTo(seqs, n, t, at) ==
  /\ \A k \in 1..n : /\ at[k] \in Nat /\ at[k] + Len(seqs[k]) <= Len(t)
                     /\ \A j \in 1..Len(seqs[k]) : t[at[k] + j] = seqs[k][j]
  /\ \A i \in 1..Len(t) : \E k \in 1..n : at[k] < i /\ i <= at[k] + Len(seqs[k])
  /\ at[1] = 0 /\ at[n] + Len(seqs[n]) = Len(t)
  /\ \A k \in 1..n : k < n => at[k + 1] = at[k] + Len(seqs[k])

\* One sequence more lies behind the ones before it.
LEMMA LaidNext ==
  ASSUME NEW seqs, NEW n \in Nat \ {0}, NEW t, IsList(t), IsList(seqs[n + 1]),
         \A k \in 1..n : Len(seqs[k]) \in Nat, NEW at, LaidTo(seqs, n, t, at)
  PROVE  IsList(t \o seqs[n + 1]) /\ \E b : LaidTo(seqs, n + 1, t \o seqs[n + 1], b)
<1> DEFINE u == seqs[n + 1]
           r == t \o u
           b == [k \in 1..(n + 1) |-> IF k = n + 1 THEN Len(t) ELSE at[k]]
           T == ToSet(t) \cup ToSet(u)
<1>1. t \in Seq(T) /\ u \in Seq(T)
  BY DEF IsList
<1>2. /\ Len(t) \in Nat /\ Len(u) \in Nat /\ Len(r) = Len(t) + Len(u)
      /\ \A i \in 1..Len(t) : r[i] = t[i]
      /\ \A j \in 1..Len(u) : r[Len(t) + j] = u[j]
  <2> HIDE DEF T, u
  <2> QED  BY <1>1
<1>3. IsList(r)
  BY Joined
<1>4. b[n + 1] = Len(t) /\ \A k \in 1..n : b[k] = at[k]
  OBVIOUS
<1>5. \A k \in 1..(n + 1) : k \in 1..n \/ k = n + 1
  OBVIOUS
<1> HIDE DEF b, r
<1>6. ASSUME NEW k \in 1..(n + 1)
      PROVE  /\ b[k] \in Nat /\ b[k] + Len(seqs[k]) <= Len(r)
             /\ \A j \in 1..Len(seqs[k]) : r[b[k] + j] = seqs[k][j]
  <2>1. CASE k = n + 1
    <3>1. b[k] = Len(t) /\ seqs[k] = u
      BY <1>4, <2>1
    <3> HIDE DEF u
    <3> QED  BY <1>2, <3>1
  <2>2. CASE k \in 1..n
    <3>1. /\ at[k] \in Nat /\ at[k] + Len(seqs[k]) <= Len(t)
          /\ \A j \in 1..Len(seqs[k]) : t[at[k] + j] = seqs[k][j]
      BY <2>2 DEF LaidTo
    <3>2. Len(seqs[k]) \in Nat /\ b[k] = at[k]
      BY <1>4, <2>2
    <3>3. \A j \in 1..Len(seqs[k]) : at[k] + j \in 1..Len(t)
      BY <1>2, <3>1, <3>2
    <3> HIDE DEF u
    <3>4. at[k] + Len(seqs[k]) <= Len(r)
      BY <1>2, <3>1, <3>2
    <3> QED  BY <1>2, <3>1, <3>2, <3>3, <3>4
  <2> QED  BY <1>5, <2>1, <2>2
<1>7. ASSUME NEW i \in 1..Len(r) PROVE \E k \in 1..(n + 1) : b[k] < i /\ i <= b[k] + Len(seqs[k])
  <2>1. CASE i <= Len(t)
    <3>1. i \in 1..Len(t)
      BY <1>2, <2>1
    <3>2. PICK k \in 1..n : at[k] < i /\ i <= at[k] + Len(seqs[k])
      BY <3>1 DEF LaidTo
    <3>3. k \in 1..(n + 1) /\ b[k] = at[k]
      BY <1>4
    <3> QED  BY <3>2, <3>3
  <2>2. CASE i > Len(t)
    <3>1. i <= Len(t) + Len(u)
      BY <1>2
    <3>2. n + 1 \in 1..(n + 1) /\ b[n + 1] < i /\ i <= b[n + 1] + Len(seqs[n + 1])
      BY <1>4, <2>2, <3>1
    <3> QED  BY <3>2
  <2> QED  BY <1>2, <2>1, <2>2
<1>8. b[1] = 0
  BY <1>4 DEF LaidTo
<1>9. b[n + 1] + Len(seqs[n + 1]) = Len(r)
  BY <1>2, <1>4
<1>10. ASSUME NEW k \in 1..(n + 1), k < n + 1 PROVE b[k + 1] = b[k] + Len(seqs[k])
  <2>1. k \in 1..n /\ b[k] = at[k]
    BY <1>4, <1>10
  <2>2. CASE k = n
    BY <1>4, <2>1, <2>2 DEF LaidTo
  <2>3. CASE k < n
    <3>1. k + 1 \in 1..n
      BY <2>1, <2>3
    <3> QED  BY <1>4, <2>1, <2>3, <3>1 DEF LaidTo
  <2> QED  BY <2>1, <2>2, <2>3
<1>11. LaidTo(seqs, n + 1, r, b)
  <2> DEFINE m == n + 1
  <2>1. /\ \A k \in 1..m : /\ b[k] \in Nat /\ b[k] + Len(seqs[k]) <= Len(r)
                           /\ \A j \in 1..Len(seqs[k]) : r[b[k] + j] = seqs[k][j]
        /\ \A i \in 1..Len(r) : \E k \in 1..m : b[k] < i /\ i <= b[k] + Len(seqs[k])
        /\ b[1] = 0 /\ b[m] + Len(seqs[m]) = Len(r)
        /\ \A k \in 1..m : k < m => b[k + 1] = b[k] + Len(seqs[k])
    BY <1>6, <1>7, <1>8, <1>9, <1>10
  <2> HIDE DEF m
  <2>2. LaidTo(seqs, m, r, b)
    BY <2>1 DEF LaidTo
  <2> QED  BY <2>2 DEF m
<1> QED
  BY <1>3, <1>11 DEF r

\* Flattened, each sequence lies behind the ones before it.
LEMMA LaidOut ==
  ASSUME NEW seqs, IsSequence(seqs), Len(seqs) # 0,
         \A k \in 1..Len(seqs) : IsSequence(seqs[k])
  PROVE  /\ IsList(FlattenSeq(seqs))
         /\ \E at : LaidTo(seqs, Len(seqs), FlattenSeq(seqs), at)
<1>1. seqs \in Seq(ToSet(seqs)) /\ Len(seqs) \in Nat
  BY SequenceIsList DEF IsList
<1>2. PICK g : FlattensTo(seqs, Len(seqs), g) /\ FlattenSeq(seqs) = g[Len(seqs)]
  <2> DEFINE T == ToSet(seqs)
  <2>1. seqs \in Seq(T)
    BY <1>1
  <2> HIDE DEF T
  <2> QED  BY <2>1, FlattenIsAStep
<1>3. \A n \in 1..Len(seqs) : FlattenStep(seqs, g, n)
  BY <1>1, <1>2 DEF FlattensTo, FlattenStep
<1>4. \A k \in 1..Len(seqs) : IsList(seqs[k]) /\ Len(seqs[k]) \in Nat
  BY SequenceIsList
<1> DEFINE Done(n) == IsList(g[n]) /\ \E at : LaidTo(seqs, n, g[n], at)
           L == {n \in Nat : n + 1 <= Len(seqs) => Done(n + 1)}
<1>5. 0 \in L
  <2>1. 1 \in 1..Len(seqs)
    BY <1>1
  <2>2. g[1] = seqs[1]
    BY <1>3, <2>1 DEF FlattenStep
  <2>3. IsList(seqs[1]) /\ Len(seqs[1]) \in Nat
    BY <1>4, <2>1
  <2> DEFINE at == [k \in 1..1 |-> 0]
             t == seqs[1]
  <2>4. at[1] = 0 /\ \A k \in 1..1 : k = 1
    OBVIOUS
  <2>5. Len(t) \in Nat
    BY <2>3
  <2> HIDE DEF at, t
  <2>6. \A j \in 1..Len(t) : 0 + j = j
    BY <2>5
  <2>7. t = seqs[1]
    BY DEF t
  <2>8. LaidTo(seqs, 1, t, at)
    BY <2>4, <2>5, <2>6, <2>7 DEF LaidTo
  <2>9. Done(1)
    BY <2>2, <2>3, <2>8 DEF t
  <2> HIDE DEF Done
  <2> QED  BY <2>9
<1>6. ASSUME NEW m \in L PROVE m + 1 \in L
  <2> DEFINE n == m + 1
  <2>1. m \in Nat /\ n \in Nat \ {0}
    OBVIOUS
  <2>2. ASSUME n + 1 <= Len(seqs) PROVE Done(n + 1)
    <3>1. Done(n)
      <4> HIDE DEF Done
      <4>1. m + 1 <= Len(seqs)
        BY <1>1, <2>1, <2>2
      <4> QED  BY <4>1
    <3>2. PICK at : LaidTo(seqs, n, g[n], at)
      BY <3>1
    <3> HIDE DEF n, L
    <3>3. n + 1 \in 1..Len(seqs) /\ n + 1 # 1 /\ (n + 1) - 1 = n /\ \A k \in 1..n : k \in 1..Len(seqs)
      BY <1>1, <2>1, <2>2
    <3>4. g[n + 1] = g[n] \o seqs[n + 1]
      BY <1>3, <3>3 DEF FlattenStep
    <3>5. /\ IsList(g[n] \o seqs[n + 1])
          /\ \E b : LaidTo(seqs, n + 1, g[n] \o seqs[n + 1], b)
      BY <1>4, <2>1, <3>1, <3>2, <3>3, LaidNext
    <3> QED  BY <3>4, <3>5
  <2> HIDE DEF Done
  <2> QED  BY <2>1, <2>2
<1> HIDE DEF L
<1>7. L = Nat
  <2>1. L \in SUBSET Nat
    BY DEF L
  <2> QED  BY <1>5, <1>6, <2>1, NatSetInduction
<1>8. Len(seqs) - 1 \in L /\ (Len(seqs) - 1) + 1 = Len(seqs) /\ Len(seqs) <= Len(seqs)
  BY <1>1, <1>7
<1>9. Done(Len(seqs))
  <2> HIDE DEF Done
  <2> QED  BY <1>8 DEF L
<1> QED
  BY <1>2, <1>9

\* A phrase that lies apart from the words on either side of it.
InPlace(text, ph, a) ==
  /\ a \in Nat /\ a + Len(ph) <= Len(text)
  /\ \A j \in 1..Len(ph) : text[a + j] = ph[j]
  /\ Apart(At(text, a), At(text, a + 1))
  /\ Apart(At(text, a + Len(ph)), At(text, a + Len(ph) + 1))

\* Every word is one of a phrase in its place, and every phrase has one.
Phrased(text, phrases) ==
  /\ \A i \in 1..Len(text) :
       \E ph \in phrases, a \in Nat : InPlace(text, ph, a) /\ a < i /\ i <= a + Len(ph)
  /\ \A ph \in phrases : \E a \in Nat : InPlace(text, ph, a)

\* A sequence that is not empty has a first and a last word.
LEMMA NotEmpty ==
  ASSUME NEW s, IsSequence(s), s # <<>>
  PROVE  Len(s) \in Nat /\ 1 \in 1..Len(s) /\ Len(s) \in 1..Len(s)
<1>1. Len(s) \in Nat /\ s \in Seq(ToSet(s))
  BY SequenceIsList DEF IsList
<1>2. Len(s) # 0
  BY <1>1
<1> QED
  BY <1>1, <1>2

\* The places beside a place.
LEMMA Neighbours ==
  ASSUME NEW n \in Nat, NEW k \in 1..n
  PROVE  /\ k # n => k \in 1..(n - 1) /\ k + 1 \in 1..n /\ k < n
         /\ k # 1 => k - 1 \in 1..(n - 1) /\ k - 1 \in 1..n /\ (k - 1) + 1 = k /\ k - 1 < n
<1>1. k \in Int /\ 1 <= k /\ k <= n
  OBVIOUS
<1> QED
  BY <1>1

\* Where a text begins or ends, a phrase is apart from what is not there.
LEMMA ApartAtTheEnds == \A w : Apart("end", w) /\ Apart(w, "end")
BY DEF Apart, Opening

\* The phrases of a question lie in its text, apart from each other.
LEMMA PhrasesInPlace ==
  ASSUME NEW seqs, IsSequence(seqs), \A k \in 1..Len(seqs) : IsSequence(seqs[k]) /\ seqs[k] # <<>>,
         \A k \in 1..(Len(seqs) - 1) : Apart(seqs[k][Len(seqs[k])].is, seqs[k + 1][1].is)
  PROVE  Phrased(FlattenSeq(seqs), {seqs[k] : k \in DOMAIN seqs})
<1> DEFINE t == FlattenSeq(seqs)
           N == Len(seqs)
<1>1. N \in Nat /\ DOMAIN seqs = 1..N
  BY SequenceIsList
<1>2. CASE N = 0
  <2>1. t = seqs
    BY <1>2 DEF FlattenSeq
  <2>2. Len(t) = 0 /\ DOMAIN seqs = {}
    BY <1>1, <1>2, <2>1
  <2> HIDE DEF t
  <2> QED  BY <2>2 DEF Phrased, t
<1>3. CASE N # 0
  <2>1. IsList(t) /\ \E at : LaidTo(seqs, N, t, at)
    BY <1>3, LaidOut
  <2>2. PICK at : LaidTo(seqs, N, t, at)
    BY <2>1
  <2>3. Len(t) \in Nat
    BY <2>1, ListFacts
  <2>4. \A k \in 1..N : Len(seqs[k]) \in Nat /\ 1 \in 1..Len(seqs[k]) /\ Len(seqs[k]) \in 1..Len(seqs[k])
    BY NotEmpty
  <2> HIDE DEF t, N
  <2>5. ASSUME NEW k \in 1..N
        PROVE  /\ at[k] \in Nat /\ at[k] + Len(seqs[k]) <= Len(t)
               /\ \A j \in 1..Len(seqs[k]) : t[at[k] + j] = seqs[k][j]
    BY <2>2 DEF LaidTo
  <2>6. ASSUME NEW k \in 1..N, NEW j \in 1..Len(seqs[k])
        PROVE  At(t, at[k] + j) = seqs[k][j].is
    <3>1. at[k] + j \in 1..Len(t)
      BY <2>3, <2>4, <2>5
    <3> QED  BY <2>5, <3>1 DEF At
  <2>7. ASSUME NEW k \in 1..N
        PROVE  /\ At(t, at[k] + 1) = seqs[k][1].is
               /\ At(t, at[k] + Len(seqs[k])) = seqs[k][Len(seqs[k])].is
    BY <2>4, <2>6
  <2>8. ASSUME NEW k \in 1..N PROVE InPlace(t, seqs[k], at[k])
    <3>1. Apart(At(t, at[k]), At(t, at[k] + 1))
      <4>1. CASE k = 1
        <5>1. at[k] = 0 /\ 0 \notin 1..Len(t)
          BY <2>2, <4>1 DEF LaidTo
        <5>2. At(t, at[k]) = "end"
          BY <5>1 DEF At
        <5> QED  BY <5>2, ApartAtTheEnds
      <4>2. CASE k # 1
        <5> DEFINE j == k - 1
        <5>1. j \in 1..(N - 1) /\ j \in 1..N /\ j + 1 = k /\ j < N
          BY <1>1, <4>2, Neighbours
        <5> HIDE DEF j
        <5>2. at[k] = at[j] + Len(seqs[j])
          BY <2>2, <5>1 DEF LaidTo
        <5>3. Apart(seqs[j][Len(seqs[j])].is, seqs[k][1].is)
          BY <5>1 DEF N
        <5> QED  BY <2>7, <5>1, <5>2, <5>3
      <4> QED  BY <4>1, <4>2
    <3>2. Apart(At(t, at[k] + Len(seqs[k])), At(t, at[k] + Len(seqs[k]) + 1))
      <4>1. CASE k = N
        <5>1. at[k] + Len(seqs[k]) = Len(t)
          BY <2>2, <4>1 DEF LaidTo
        <5>2. Len(t) + 1 \notin 1..Len(t)
          BY <2>3
        <5>3. At(t, at[k] + Len(seqs[k]) + 1) = "end"
          BY <5>1, <5>2 DEF At
        <5> QED  BY <5>3, ApartAtTheEnds
      <4>2. CASE k # N
        <5> DEFINE j == k + 1
        <5>1. k \in 1..(N - 1) /\ j \in 1..N /\ k < N
          BY <1>1, <4>2, Neighbours
        <5>2. at[j] = at[k] + Len(seqs[k])
          BY <2>2, <5>1 DEF LaidTo
        <5>3. Apart(seqs[k][Len(seqs[k])].is, seqs[j][1].is)
          BY <5>1 DEF N
        <5> HIDE DEF j
        <5> QED  BY <2>7, <5>1, <5>2, <5>3
      <4> QED  BY <4>1, <4>2
    <3> QED  BY <2>5, <3>1, <3>2 DEF InPlace
  <2>9. ASSUME NEW i \in 1..Len(t)
        PROVE  \E ph \in {seqs[k] : k \in DOMAIN seqs}, a \in Nat :
                  InPlace(t, ph, a) /\ a < i /\ i <= a + Len(ph)
    <3>1. PICK k \in 1..N : at[k] < i /\ i <= at[k] + Len(seqs[k])
      BY <2>2 DEF LaidTo
    <3> QED  BY <1>1, <2>5, <2>8, <3>1
  <2>10. ASSUME NEW k \in DOMAIN seqs PROVE \E a \in Nat : InPlace(t, seqs[k], a)
    BY <1>1, <2>5, <2>8
  <2> QED  BY <2>9, <2>10 DEF Phrased, t
<1> QED
  BY <1>2, <1>3

\* What stands beside a phrase in its place.
LEMMA Beside ==
  ASSUME NEW text, IsSequence(text), NEW ph, IsSequence(ph), ph # <<>>, NEW a, InPlace(text, ph, a)
  PROVE  /\ Apart(At(text, a), ph[1].is)
         /\ Apart(ph[Len(ph)].is, At(text, a + Len(ph) + 1))
<1>1. Len(text) \in Nat /\ Len(ph) \in Nat /\ 1 \in 1..Len(ph) /\ Len(ph) \in 1..Len(ph)
  BY SequenceIsList, NotEmpty
<1>2. a \in Nat /\ a + Len(ph) <= Len(text) /\ \A j \in 1..Len(ph) : text[a + j] = ph[j]
  BY DEF InPlace
<1>3. a + 1 \in 1..Len(text) /\ a + Len(ph) \in 1..Len(text)
  BY <1>1, <1>2
<1>4. At(text, a + 1) = ph[1].is /\ At(text, a + Len(ph)) = ph[Len(ph)].is
  BY <1>1, <1>2, <1>3 DEF At
<1> QED
  BY <1>4 DEF InPlace

-----------------------------------------------------------------------------
(* The patterns are tried in order, and each match that is taken takes its   *)
(* words: what lies in one phrase is matched as that phrase.                 *)

\* The patterns by their numbers.
Numbers == 1..15

\* The patterns differ; the two long ones come first.
LEMMA PatternsAre ==
  /\ \A q \in Numbers : Patterns[q] \in Shapes
  /\ Patterns[1] = <<"iso", "to", "iso">> /\ Patterns[2] = <<"year", "month", "day">>
  /\ Patterns[3] = <<"iso">> /\ Patterns[4] = <<"year", "month">>
  /\ \A q, r \in Numbers : Patterns[q] = Patterns[r] => q = r
<1> USE DEF Numbers
<1>1. Len(Patterns) = 15
  BY ShapesListed
<1>2. \A q \in Numbers : Patterns[q] \in Shapes
  BY <1>1 DEF Shapes
<1>3. /\ Patterns[1] = <<"iso", "to", "iso">> /\ Patterns[2] = <<"year", "month", "day">>
      /\ Patterns[3] = <<"iso">> /\ Patterns[4] = <<"year", "month">>
  BY DEF Patterns
<1>4. /\ Patterns[5] = <<"isoMonth">> /\ Patterns[6] = <<"lastDays">>
      /\ Patterns[7] = <<"lastMonths">> /\ Patterns[8] = <<"prevMonth">>
      /\ Patterns[9] = <<"thisMonth">> /\ Patterns[10] = <<"prevWeek">>
      /\ Patterns[11] = <<"thisWeek">> /\ Patterns[12] = <<"prevYear">>
      /\ Patterns[13] = <<"thisYear">> /\ Patterns[14] = <<"daysAgo">>
      /\ Patterns[15] = <<"month">>
  BY DEF Patterns
<1>5. \A x, y, z : /\ Len(<<x>>) = 1 /\ <<x>>[1] = x
                   /\ Len(<<x, y>>) = 2 /\ <<x, y>>[1] = x
                   /\ Len(<<x, y, z>>) = 3 /\ <<x, y, z>>[1] = x
  OBVIOUS
<1>6. /\ Len(Patterns[1]) = 3 /\ Patterns[1][1] = "iso" /\ Len(Patterns[2]) = 3 /\ Patterns[2][1] = "year"
      /\ Len(Patterns[3]) = 1 /\ Patterns[3][1] = "iso" /\ Len(Patterns[4]) = 2 /\ Patterns[4][1] = "year"
  BY <1>3, <1>5
<1>7. /\ Patterns[5][1] = "isoMonth" /\ Patterns[6][1] = "lastDays" /\ Patterns[7][1] = "lastMonths"
      /\ Patterns[8][1] = "prevMonth" /\ Patterns[9][1] = "thisMonth" /\ Patterns[10][1] = "prevWeek"
      /\ Patterns[11][1] = "thisWeek" /\ Patterns[12][1] = "prevYear" /\ Patterns[13][1] = "thisYear"
      /\ Patterns[14][1] = "daysAgo" /\ Patterns[15][1] = "month"
  BY <1>4, <1>5
<1>8. \A q \in Numbers : \/ q = 1 \/ q = 2 \/ q = 3 \/ q = 4 \/ q = 5 \/ q = 6 \/ q = 7 \/ q = 8
                       \/ q = 9 \/ q = 10 \/ q = 11 \/ q = 12 \/ q = 13 \/ q = 14 \/ q = 15
  OBVIOUS
<1>9. ASSUME NEW q \in Numbers, NEW r \in Numbers, Patterns[q] = Patterns[r] PROVE q = r
  <2>1. Patterns[q][1] = Patterns[r][1] /\ Len(Patterns[q]) = Len(Patterns[r])
    BY <1>9
  <2> DEFINE h == [x \in Numbers |-> Patterns[x][1]]
             l == [x \in Numbers |-> Len(Patterns[x])]
  <2>2. h[q] = h[r] /\ l[q] = l[r]
    BY <2>1
  <2>3. /\ h[1] = "iso" /\ h[2] = "year" /\ h[3] = "iso" /\ h[4] = "year" /\ h[5] = "isoMonth"
        /\ h[6] = "lastDays" /\ h[7] = "lastMonths" /\ h[8] = "prevMonth" /\ h[9] = "thisMonth"
        /\ h[10] = "prevWeek" /\ h[11] = "thisWeek" /\ h[12] = "prevYear" /\ h[13] = "thisYear"
        /\ h[14] = "daysAgo" /\ h[15] = "month"
        /\ l[1] = 3 /\ l[2] = 3 /\ l[3] = 1 /\ l[4] = 2
    BY <1>6, <1>7
  <2> HIDE DEF h, l
  <2>4. \A x \in 5..15 : h[x] # "iso" /\ h[x] # "year" /\ \A y \in 5..15 : h[x] = h[y] => x = y
    BY <2>3
  <2>5. CASE q \in 5..15
    <3>1. r \notin 1..4
      BY <2>2, <2>3, <2>4, <2>5
    <3>2. r \in 5..15
      BY <3>1
    <3> QED  BY <2>2, <2>4, <2>5, <3>2
  <2>6. CASE q \in 1..4
    <3>1. h[q] \in {"iso", "year"}
      BY <2>3, <2>6
    <3>2. r \notin 5..15
      BY <2>2, <2>4, <3>1
    <3>3. r \in 1..4
      BY <3>2
    <3> QED  BY <2>2, <2>3, <2>6, <3>3
  <2> QED  BY <2>5, <2>6
<1> QED
  BY <1>2, <1>3, <1>9

\* The words a pattern begins with.
LEMMA FirstWords ==
  ASSUME NEW q \in Numbers
  PROVE  Patterns[q][1] \in {"iso", "year", "isoMonth", "lastDays", "lastMonths", "prevMonth", "thisMonth",
                            "prevWeek", "thisWeek", "prevYear", "thisYear", "daysAgo", "month"}
<1> USE DEF Numbers
<1>1. /\ Patterns[1] = <<"iso", "to", "iso">> /\ Patterns[2] = <<"year", "month", "day">>
      /\ Patterns[3] = <<"iso">> /\ Patterns[4] = <<"year", "month">>
      /\ Patterns[5] = <<"isoMonth">> /\ Patterns[6] = <<"lastDays">>
      /\ Patterns[7] = <<"lastMonths">> /\ Patterns[8] = <<"prevMonth">>
      /\ Patterns[9] = <<"thisMonth">> /\ Patterns[10] = <<"prevWeek">>
      /\ Patterns[11] = <<"thisWeek">> /\ Patterns[12] = <<"prevYear">>
      /\ Patterns[13] = <<"thisYear">> /\ Patterns[14] = <<"daysAgo">>
      /\ Patterns[15] = <<"month">>
  BY DEF Patterns
<1>2. \A x, y, z : <<x>>[1] = x /\ <<x, y>>[1] = x /\ <<x, y, z>>[1] = x
  OBVIOUS
<1>3. \/ q = 1 \/ q = 2 \/ q = 3 \/ q = 4 \/ q = 5 \/ q = 6 \/ q = 7 \/ q = 8
      \/ q = 9 \/ q = 10 \/ q = 11 \/ q = 12 \/ q = 13 \/ q = 14 \/ q = 15
  OBVIOUS
<1> QED
  BY <1>1, <1>2, <1>3

\* How long a pattern is, and what its first word tells of it.
LEMMA ShapeWords ==
  ASSUME NEW s \in Shapes
  PROVE  /\ Len(s) \in 1..3 /\ \A j \in 1..Len(s) : s[j] # "text"
         /\ Len(s) = 1 => s = <<s[1]>>
         /\ s[1] = "iso" => s \in {<<"iso", "to", "iso">>, <<"iso">>}
         /\ s[1] = "year" => s \in {<<"year", "month", "day">>, <<"year", "month">>}
         /\ s[1] = "month" => s = <<"month">>
         /\ s[1] \notin {"to", "day"} /\ s[1] \in TimeKinds
         /\ Len(s) # 1 => s \in {<<"iso", "to", "iso">>, <<"year", "month", "day">>, <<"year", "month">>}
<1> USE DEF Numbers
<1>1. \A x, y, z : /\ Len(<<x>>) = 1 /\ <<x>>[1] = x
                   /\ Len(<<x, y>>) = 2 /\ <<x, y>>[1] = x /\ <<x, y>>[2] = y
                   /\ Len(<<x, y, z>>) = 3 /\ <<x, y, z>>[1] = x /\ <<x, y, z>>[2] = y /\ <<x, y, z>>[3] = z
  OBVIOUS
<1>2. s[1] \in TimeKinds
  <2>1. PICK q \in 1..Len(Patterns) : s = Patterns[q]
    BY DEF Shapes
  <2>2. DOMAIN Patterns = 1..Len(Patterns)
    BY DEF Patterns
  <2> QED  BY <2>1, <2>2 DEF TimeKinds
<1>3. \/ \E w \in {"iso", "isoMonth", "lastDays", "lastMonths", "prevMonth", "thisMonth", "prevWeek",
                   "thisWeek", "prevYear", "thisYear", "daysAgo", "month"} : s = <<w>>
      \/ s \in {<<"iso", "to", "iso">>, <<"year", "month", "day">>, <<"year", "month">>}
  BY ShapesListed, Zenon
<1>4. CASE \E w \in {"iso", "isoMonth", "lastDays", "lastMonths", "prevMonth", "thisMonth", "prevWeek",
                   "thisWeek", "prevYear", "thisYear", "daysAgo", "month"} : s = <<w>>
  <2>1. PICK w \in {"iso", "isoMonth", "lastDays", "lastMonths", "prevMonth", "thisMonth", "prevWeek",
                   "thisWeek", "prevYear", "thisYear", "daysAgo", "month"} : s = <<w>>
    BY <1>4
  <2>2. Len(s) = 1 /\ s[1] = w
    BY <1>1, <2>1
  <2>3. \A j \in 1..Len(s) : j = 1
    BY <2>2
  <2> QED  BY <1>2, <2>1, <2>2, <2>3
<1>5. CASE s = <<"iso", "to", "iso">>
  <2>1. Len(s) = 3 /\ s[1] = "iso" /\ s[2] = "to" /\ s[3] = "iso"
    BY <1>1, <1>5
  <2>2. \A j \in 1..3 : j = 1 \/ j = 2 \/ j = 3
    OBVIOUS
  <2> QED  BY <1>2, <1>5, <2>1, <2>2
<1>6. CASE s = <<"year", "month", "day">>
  <2>1. Len(s) = 3 /\ s[1] = "year" /\ s[2] = "month" /\ s[3] = "day"
    BY <1>1, <1>6
  <2>2. \A j \in 1..3 : j = 1 \/ j = 2 \/ j = 3
    OBVIOUS
  <2> QED  BY <1>2, <1>6, <2>1, <2>2
<1>7. CASE s = <<"year", "month">>
  <2>1. Len(s) = 2 /\ s[1] = "year" /\ s[2] = "month"
    BY <1>1, <1>7
  <2>2. \A j \in 1..2 : j = 1 \/ j = 2
    OBVIOUS
  <2> QED  BY <1>2, <1>7, <2>1, <2>2
<1> QED
  BY <1>3, <1>4, <1>5, <1>6, <1>7

\* The matches of a text, in the order of the patterns and then of their place.
Ordered(text, tries, rank) ==
  /\ \A j \in 1..Len(tries) : \E q \in Numbers, i \in 1..Len(text) :
        /\ tries[j] = <<Patterns[q], i>> /\ Spans(text, Patterns[q], i)
        /\ rank[j] = (q - 1) * Len(text) + i
  /\ \A j, k \in 1..Len(tries) : j < k => rank[j] < rank[k]
  /\ \A q \in Numbers, i \in 1..Len(text) :
        Spans(text, Patterns[q], i) => \E j \in 1..Len(tries) : tries[j] = <<Patterns[q], i>>

\* A pattern and a position, from their number among all.
LEMMA PlaceOf ==
  ASSUME NEW n \in Nat, NEW q \in Numbers, NEW i \in 1..n
  PROVE  LET k == (q - 1) * n + i
         IN /\ k \in 1..(15 * n) /\ ((k - 1) \div n) + 1 = q /\ ((k - 1) % n) + 1 = i
<1> USE DEF Numbers
<1> DEFINE k == (q - 1) * n + i
<1>1. \/ q = 1 \/ q = 2 \/ q = 3 \/ q = 4 \/ q = 5 \/ q = 6 \/ q = 7 \/ q = 8
      \/ q = 9 \/ q = 10 \/ q = 11 \/ q = 12 \/ q = 13 \/ q = 14 \/ q = 15
  OBVIOUS
<1>2. k \in 1..(15 * n)
  BY <1>1
<1>3. k - 1 = n * (q - 1) + (i - 1) /\ i - 1 \in 0..(n - 1) /\ q - 1 \in Int
  BY <1>1
<1> HIDE DEF k
<1> DEFINE a == (k - 1) \div n
           b == (k - 1) % n
<1>4. a \in Int /\ b \in 0..(n - 1) /\ k - 1 = n * a + b
  BY <1>2
<1> HIDE DEF a, b
<1>5. \A u, v \in Int, x, y \in 0..(n - 1) : n * u + x = n * v + y => u = v
  <2>1. ASSUME NEW u \in Int, NEW v \in Int, NEW x \in 0..(n - 1), NEW y \in 0..(n - 1),
               n * u + x = n * v + y, u < v
        PROVE  FALSE
    <3>1. n * (v - u) = x - y
      BY <2>1
    <3>2. v - u >= 1
      BY <2>1
    <3>3. n * (v - u) >= n
      <4> DEFINE w == v - u
      <4>1. w \in Int /\ w >= 1
        BY <3>2
      <4> HIDE DEF w
      <4>2. n * w >= n
        BY <4>1
      <4> QED  BY <4>2 DEF w
    <3> QED  BY <2>1, <3>1, <3>3
  <2> QED  BY <2>1
<1>6. a = q - 1
  BY <1>3, <1>4, <1>5
<1>7. b = i - 1
  BY <1>3, <1>4, <1>6
<1> QED
  BY <1>2, <1>6, <1>7 DEF a, b, k

\* Matches lists every match once, pattern after pattern.
LEMMA MatchesOrdered ==
  ASSUME NEW text, IsSequence(text)
  PROVE  /\ IsList(Matches(text)) /\ Len(Matches(text)) \in Nat
         /\ \E rank : Ordered(text, Matches(text), rank)
<1> USE DEF Numbers
<1> DEFINE n == Len(text)
           m == Len(Patterns) * n
           try(k) == <<Patterns[((k - 1) \div n) + 1], ((k - 1) % n) + 1>>
           tries == [k \in 1..m |-> try(k)]
           I == {k \in 1..Len(tries) : Spans(text, tries[k][1], tries[k][2])}
           M == Picked(tries, I)
<1>1. n \in Nat /\ Len(Patterns) = 15 /\ m \in Nat /\ m = 15 * n
  BY SequenceIsList, ShapesListed
<1>2. Matches(text) = M
  BY DEF Matches, Where
<1>3. ASSUME NEW k \in 1..m
      PROVE  \E q \in Numbers, i \in 1..n : try(k) = <<Patterns[q], i>> /\ k = (q - 1) * n + i
  <2>1. k \in Nat /\ 1 <= k /\ k <= 15 * n /\ n > 0
    BY <1>1
  <2> DEFINE q == (k - 1) \div n
             r == (k - 1) % n
  <2>2. q \in Int /\ r \in 0..(n - 1) /\ k - 1 = n * q + r
    BY <1>1, <2>1
  <2>3. try(k) = <<Patterns[q + 1], r + 1>>
    OBVIOUS
  <2> HIDE DEF q, r, try
  <2>4. \A u \in Int, v \in 0..(n - 1) : k - 1 = n * u + v => u >= 0 /\ u < 15
    BY <1>1, <2>1
  <2>5. q >= 0 /\ q < 15
    BY <2>2, <2>4
  <2>6. q + 1 \in Numbers /\ r + 1 \in 1..n
    BY <1>1, <2>2, <2>5
  <2>7. k = ((q + 1) - 1) * n + (r + 1)
    BY <1>1, <2>1, <2>2
  <2> QED  BY <2>3, <2>6, <2>7
<1>4. ASSUME NEW q \in Numbers, NEW i \in 1..n
      PROVE  LET k == (q - 1) * n + i IN k \in 1..m /\ try(k) = <<Patterns[q], i>>
  <2> DEFINE k == (q - 1) * n + i
  <2>1. k \in 1..(15 * n) /\ ((k - 1) \div n) + 1 = q /\ ((k - 1) % n) + 1 = i
    <3> HIDE DEF n, m, try, tries, I, M
    <3> QED  BY <1>1, PlaceOf
  <2> HIDE DEF k
  <2>2. k \in 1..m /\ try(k) = <<Patterns[q], i>>
    BY <1>1, <2>1
  <2> QED  BY <2>2 DEF k
<1>5. tries \in Seq({tries[k] : k \in 1..m}) /\ Len(tries) = m
  <2> DEFINE T == {tries[k] : k \in 1..m}
  <2>1. tries = [k \in 1..m |-> tries[k]] /\ \A k \in 1..m : tries[k] \in T
    OBVIOUS
  <2> HIDE DEF tries, m, T
  <2>2. tries \in [1..m -> T]
    BY <2>1
  <2>3. tries \in Seq(T) /\ Len(tries) = m
    BY <1>1, <2>2
  <2> QED  BY <2>3 DEF T
<1>6. \A k \in 1..m : tries[k] = try(k)
  OBVIOUS
<1>7. \A k \in 1..m : k \in I <=> Spans(text, tries[k][1], tries[k][2])
  BY <1>5
<1>8. I \subseteq 1..m
  BY <1>5
<1> DEFINE T == {tries[k] : k \in 1..m}
<1> HIDE DEF tries, I, T
<1>9. tries \in Seq(T) /\ Len(tries) \in Nat
  BY <1>1, <1>5 DEF T
<1>10. M \in Seq(T) /\ \E f : InOrder(tries, I, Len(tries), M, f)
  BY <1>9, PickedFacts
<1> HIDE DEF M, m, try
<1>11. IsList(M) /\ Len(M) \in Nat
  BY <1>10, OfAType
<1>12. PICK f : InOrder(tries, I, m, M, f)
  BY <1>5, <1>10
<1>13. /\ \A i \in 1..Len(M) : f[i] \in I /\ f[i] \in 1..m /\ M[i] = tries[f[i]]
       /\ \A i, j \in 1..Len(M) : i < j => f[i] < f[j]
       /\ \A j \in 1..m : j \in I => \E i \in 1..Len(M) : f[i] = j
  BY <1>12 DEF InOrder
<1>14. ASSUME NEW j \in 1..Len(M)
       PROVE  \E q \in Numbers, i \in 1..n :
                /\ M[j] = <<Patterns[q], i>> /\ Spans(text, Patterns[q], i)
                /\ f[j] = (q - 1) * n + i
  <2>1. f[j] \in I /\ f[j] \in 1..m /\ M[j] = try(f[j])
    BY <1>6, <1>13
  <2>2. PICK q \in Numbers, i \in 1..n : try(f[j]) = <<Patterns[q], i>> /\ f[j] = (q - 1) * n + i
    BY <1>3, <2>1
  <2>3. Spans(text, M[j][1], M[j][2])
    BY <1>6, <1>7, <2>1
  <2>4. M[j][1] = Patterns[q] /\ M[j][2] = i
    BY <2>1, <2>2
  <2> QED  BY <2>1, <2>2, <2>3, <2>4
<1>15. ASSUME NEW q \in Numbers, NEW i \in 1..n, Spans(text, Patterns[q], i)
       PROVE  \E j \in 1..Len(M) : M[j] = <<Patterns[q], i>>
  <2> DEFINE k == (q - 1) * n + i
  <2>1. k \in 1..m /\ try(k) = <<Patterns[q], i>>
    BY <1>4
  <2> HIDE DEF k
  <2>2. tries[k] = <<Patterns[q], i>>
    BY <1>6, <2>1
  <2>3. tries[k][1] = Patterns[q] /\ tries[k][2] = i
    BY <2>2
  <2>4. k \in I
    BY <1>7, <1>15, <2>1, <2>3
  <2>5. PICK j \in 1..Len(M) : f[j] = k
    BY <1>13, <2>1, <2>4
  <2> QED  BY <1>13, <2>2, <2>5
<1>16. Ordered(text, M, f)
  BY <1>13, <1>14, <1>15 DEF Ordered
<1> QED
  BY <1>2, <1>11, <1>16

\* No word of a pattern is apart from the next.
LEMMA ShapesHoldTogether ==
  ASSUME NEW s \in Shapes, NEW j \in 1..(Len(s) - 1)
  PROVE  ~Apart(s[j], s[j + 1])
<1>1. \A x, y, z : /\ Len(<<x, y>>) = 2 /\ <<x, y>>[1] = x /\ <<x, y>>[2] = y
                   /\ Len(<<x, y, z>>) = 3 /\ <<x, y, z>>[1] = x /\ <<x, y, z>>[2] = y /\ <<x, y, z>>[3] = z
  OBVIOUS
<1>2. Len(s) \in 1..3 /\ Len(s) # 1
  BY ShapeWords
<1>3. /\ ~Apart("iso", "to") /\ ~Apart("to", "iso")
      /\ ~Apart("year", "month") /\ ~Apart("month", "day")
  BY DEF Apart, Opening, Breaks
<1>4. CASE s = <<"iso", "to", "iso">> \/ s = <<"year", "month", "day">>
  <2>1. Len(s) = 3
    BY <1>1, <1>4
  <2>2. j = 1 \/ j = 2
    BY <2>1
  <2> QED  BY <1>1, <1>3, <1>4, <2>2
<1>5. CASE s = <<"year", "month">>
  <2>1. Len(s) = 2
    BY <1>1, <1>5
  <2>2. j = 1
    BY <2>1
  <2> QED  BY <1>1, <1>3, <1>5, <2>2
<1> QED
  BY <1>2, <1>4, <1>5, ShapeWords

\* Whether the i-th and following words overlap a phrase in its place.
LEMMA MatchInside ==
  ASSUME NEW text, IsSequence(text), NEW ph, NEW a, InPlace(text, ph, a),
         NEW p \in Numbers, TimeSaid(ph, Patterns[p]),
         NEW q \in Numbers, NEW i \in 1..Len(text), Spans(text, Patterns[q], i),
         NEW t \in i..(i + Len(Patterns[q]) - 1), a < t, t <= a + Len(ph)
  PROVE  (q = p /\ i = a + 1) \/ p < q
<1> USE DEF Numbers
<1> DEFINE s == Patterns[q]
           f == Patterns[p]
           n == Len(text)
           l == Len(ph)
           w == Len(s)
<1>1. s \in Shapes /\ f \in Shapes
  BY PatternsAre
<1>2. w \in 1..3 /\ \A j \in 1..(w - 1) : ~Apart(s[j], s[j + 1])
  BY <1>1, ShapeWords, ShapesHoldTogether
<1>3. n \in Nat /\ l \in Nat /\ l = Len(f) /\ \A j \in 1..l : ph[j].is = f[j]
  <2>1. Len(f) \in 1..3 /\ Form(ph) = f /\ IsSequence(ph)
    BY <1>1, ShapeWords DEF TimeSaid
  <2>2. n \in Nat /\ l \in Nat
    BY <2>1, SequenceIsList
  <2>3. Form(ph) = [j \in 1..l |-> ph[j].is]
    BY DEF Form
  <2>4. l = Len(f)
    BY <2>1, <2>2, <2>3
  <2> QED  BY <2>1, <2>2, <2>3, <2>4
<1>4. /\ a \in Nat /\ a + l <= n /\ \A j \in 1..l : text[a + j] = ph[j]
      /\ Apart(At(text, a), At(text, a + 1)) /\ Apart(At(text, a + l), At(text, a + l + 1))
  BY DEF InPlace
<1>5. i + w - 1 <= n /\ \A j \in 1..w : text[i + j - 1].is = s[j]
  BY DEF Spans
<1>6. f = <<f[1]>> \/ f \in {<<"iso", "to", "iso">>, <<"year", "month", "day">>, <<"year", "month">>}
  BY <1>1, ShapeWords
<1> HIDE DEF s, f, n, l, w
<1>7. t \in Int /\ i <= t /\ t <= i + w - 1 /\ i \in 1..n
  BY DEF w, s, n
<1>8. a < t /\ t <= a + l
  BY DEF l
<1>9. ASSUME NEW e \in Nat, i <= e, e + 1 <= i + w - 1 PROVE ~Apart(At(text, e), At(text, e + 1))
  <2> DEFINE j == e - i + 1
  <2>1. j \in 1..(w - 1) /\ j \in 1..w /\ j + 1 \in 1..w /\ i + j - 1 = e /\ i + (j + 1) - 1 = e + 1
    BY <1>2, <1>7, <1>9
  <2> HIDE DEF j
  <2>2. text[e].is = s[j] /\ text[e + 1].is = s[j + 1]
    BY <1>5, <2>1
  <2>3. e \in 1..n /\ e + 1 \in 1..n
    BY <1>2, <1>3, <1>5, <1>7, <1>9
  <2>4. At(text, e) = s[j] /\ At(text, e + 1) = s[j + 1]
    BY <2>2, <2>3 DEF At, n
  <2> QED  BY <1>2, <2>1, <2>4
<1>10. a < i /\ i + w - 1 <= a + l
  <2>1. a < i
    <3>1. SUFFICES ASSUME i <= a PROVE FALSE
      BY <1>4, <1>7
    <3>2. a + 1 <= i + w - 1
      BY <1>2, <1>4, <1>7, <1>8
    <3> QED  BY <1>4, <1>9, <3>1, <3>2
  <2>2. i + w - 1 <= a + l
    <3> DEFINE e == a + l
    <3>1. SUFFICES ASSUME i + w - 1 > e PROVE FALSE
      BY <1>2, <1>3, <1>4, <1>7
    <3>2. e \in Nat /\ i <= e /\ e + 1 <= i + w - 1
      BY <1>2, <1>3, <1>4, <1>7, <1>8, <3>1
    <3>3. Apart(At(text, e), At(text, e + 1))
      BY <1>4
    <3> HIDE DEF e
    <3> QED  BY <1>9, <3>2, <3>3
  <2> QED  BY <2>1, <2>2
<1>11. \A j \in 1..w : (i - a) + j - 1 \in 1..l /\ s[j] = f[(i - a) + j - 1]
  <2>1. SUFFICES ASSUME NEW j \in 1..w
                 PROVE  (i - a) + j - 1 \in 1..l /\ s[j] = f[(i - a) + j - 1]
    OBVIOUS
  <2>2. (i - a) + j - 1 \in 1..l /\ a + ((i - a) + j - 1) = i + j - 1
    BY <1>2, <1>3, <1>4, <1>7, <1>10, <2>1
  <2> QED  BY <1>3, <1>4, <1>5, <2>2
<1>12. i - a \in 1..l /\ s[1] = f[i - a] /\ w <= l - (i - a) + 1
  <2>1. 1 \in 1..w /\ w \in 1..w
    BY <1>2
  <2>2. (i - a) + 1 - 1 = i - a /\ i - a \in Int
    BY <1>4, <1>7
  <2>3. (i - a) + 1 - 1 \in 1..l /\ s[1] = f[(i - a) + 1 - 1]
    BY <1>11, <2>1
  <2>4. (i - a) + w - 1 \in 1..l
    BY <1>11, <2>1
  <2>5. i - a \in 1..l /\ s[1] = f[i - a]
    BY <2>2, <2>3
  <2>6. w <= l - (i - a) + 1
    BY <1>2, <1>3, <2>2, <2>4
  <2> QED  BY <2>5, <2>6
<1>13. CASE f = <<f[1]>>
  <2>1. l = 1
    BY <1>3, <1>13
  <2>2. i - a = 1 /\ w = 1 /\ s[1] = f[1]
    BY <1>2, <1>12, <2>1
  <2>3. s = <<s[1]>>
    BY <1>1, <2>2, ShapeWords DEF w
  <2>4. s = f
    BY <1>13, <2>2, <2>3
  <2>5. q = p
    BY <2>4, PatternsAre DEF s, f
  <2> QED  BY <1>4, <1>7, <2>2, <2>5
<1>14. \A k \in 1..3 : k = 1 \/ k = 2 \/ k = 3
  OBVIOUS
<1>15. \A x, y, z : Len(<<x, y, z>>) = 3 /\ Len(<<x, y>>) = 2
  OBVIOUS
<1>16. CASE f = <<"iso", "to", "iso">>
  <2>1. p = 1 /\ l = 3
    <3>1. Patterns[p] = Patterns[1] /\ 1 \in Numbers /\ 2 \in Numbers /\ 4 \in Numbers
      BY <1>16, PatternsAre DEF f
    <3>2. p = 1
      BY <3>1, PatternsAre
    <3>3. Len(f) = 3
      BY <1>16, <1>15
    <3> QED  BY <1>3, <3>2, <3>3
  <2>2. CASE q = 1
    <3>1. w = 3
      BY <2>2, PatternsAre DEF w, s
    <3>2. i - a = 1
      BY <1>4, <1>7, <1>12, <2>1, <3>1
    <3> QED  BY <1>4, <1>7, <2>1, <2>2, <3>2
  <2>3. q = 1 \/ q > 1
    OBVIOUS
  <2> QED  BY <2>1, <2>2, <2>3
<1>17. CASE f \in {<<"year", "month", "day">>, <<"year", "month">>}
  <2>1. \A x, y, z : /\ Len(<<x, y, z>>) = 3 /\ <<x, y, z>>[1] = x /\ <<x, y, z>>[2] = y /\ <<x, y, z>>[3] = z
                     /\ Len(<<x, y>>) = 2 /\ <<x, y>>[1] = x /\ <<x, y>>[2] = y
    OBVIOUS
  <2>2. \A k \in 1..l : f[k] \in {"year", "month", "day"}
    <3>1. CASE f = <<"year", "month", "day">>
      BY <1>3, <1>14, <2>1, <3>1
    <3>2. CASE f = <<"year", "month">>
      <4>1. \A k \in 1..2 : k = 1 \/ k = 2
        OBVIOUS
      <4> QED  BY <1>3, <2>1, <3>2, <4>1
    <3> QED  BY <1>17, <3>1, <3>2
  <2>3. s[1] # "iso"
    BY <1>12, <2>2
  <2>4. q # 1 /\ q # 3
    <3>1. Patterns[1][1] = "iso" /\ Patterns[3][1] = "iso"
      BY PatternsAre
    <3> QED  BY <2>3, <3>1 DEF s
  <2>5. q = 2 \/ q = 4 \/ q > 4
    BY <2>4
  <2>6. CASE f = <<"year", "month", "day">>
    <3>1. p = 2 /\ l = 3
      <4>1. Patterns[p] = Patterns[2] /\ 1 \in Numbers /\ 2 \in Numbers /\ 4 \in Numbers
        BY <2>6, PatternsAre DEF f
      <4>2. p = 2
        BY <4>1, PatternsAre
      <4>3. Len(f) = 3
        BY <2>6, <1>15
      <4> QED  BY <1>3, <4>2, <4>3
    <3>2. CASE q = 2
      <4>1. w = 3
        BY <2>1, <3>2, PatternsAre DEF w, s
      <4>2. i - a = 1
        BY <1>4, <1>7, <1>12, <3>1, <4>1
      <4> QED  BY <1>4, <1>7, <3>1, <3>2, <4>2
    <3> QED  BY <2>5, <3>1, <3>2
  <2>7. CASE f = <<"year", "month">>
    <3>1. p = 4 /\ l = 2
      <4>1. Patterns[p] = Patterns[4] /\ 1 \in Numbers /\ 2 \in Numbers /\ 4 \in Numbers
        BY <2>7, PatternsAre DEF f
      <4>2. p = 4
        BY <4>1, PatternsAre
      <4>3. Len(f) = 2
        BY <2>7, <1>15
      <4> QED  BY <1>3, <4>2, <4>3
    <3>2. CASE q = 2
      <4>1. w = 3
        BY <2>1, <3>2, PatternsAre DEF w, s
      <4> QED  BY <1>4, <1>7, <1>12, <3>1, <4>1
    <3>3. CASE q = 4
      <4>1. w = 2
        BY <2>1, <3>3, PatternsAre DEF w, s
      <4>2. i - a = 1
        BY <1>4, <1>7, <1>12, <3>1, <4>1
      <4> QED  BY <1>4, <1>7, <3>1, <3>3, <4>2
    <3> QED  BY <2>5, <3>1, <3>2, <3>3
  <2> QED  BY <1>17, <2>6, <2>7
<1> QED
  BY <1>6, <1>13, <1>16, <1>17

\* The words from the m-th to the n-th.
LEMMA Slice ==
  ASSUME NEW S, NEW s, NEW m \in Int, NEW n \in Int, m <= n, \A i \in m..n : s[i] \in S
  PROVE  /\ SubSeq(s, m, n) \in Seq(S) /\ Len(SubSeq(s, m, n)) = n - m + 1
         /\ \A i \in 1..(n - m + 1) : SubSeq(s, m, n)[i] = s[m + i - 1]
<1>1. Len(SubSeq(s, m, n)) = IF m <= n THEN n - m + 1 ELSE 0
  BY SubSeqProperties
<1>2. SubSeq(s, m, n) \in Seq(S)
  BY SubSeqProperties
<1>3. \A i \in 1..(n - m + 1) : SubSeq(s, m, n)[i] = s[m + i - 1]
  BY SubSeqProperties
<1> QED
  BY <1>1, <1>2, <1>3

\* A phrase that says a time is matched where it stands, and its handler reads
\* its words.
LEMMA FullMatch ==
  ASSUME NEW text, IsSequence(text), NEW ph, NEW a, InPlace(text, ph, a),
         NEW p \in Numbers, TimeSaid(ph, Patterns[p])
  PROVE  /\ a + 1 \in 1..Len(text) /\ Len(Patterns[p]) = Len(ph) /\ Len(ph) \in 1..3
         /\ Spans(text, Patterns[p], a + 1)
         /\ SubSeq(text, a + 1, (a + 1) + Len(Patterns[p]) - 1) = ph
<1> USE DEF Numbers
<1> DEFINE f == Patterns[p]
           n == Len(text)
           l == Len(ph)
           last == (a + 1) + Len(f) - 1
<1>1. f \in Shapes /\ Len(f) \in 1..3
  <2>1. f \in Shapes
    BY PatternsAre
  <2> HIDE DEF f
  <2> QED  BY <2>1, ShapeWords
<1>2. n \in Nat /\ l \in Nat /\ text \in Seq(ToSet(text)) /\ ph = [j \in 1..l |-> ph[j]]
  <2>1. IsSequence(ph)
    BY DEF TimeSaid
  <2>2. n \in Nat /\ l \in Nat /\ IsList(text)
    BY <2>1, SequenceIsList
  <2> QED  BY <2>1, <2>2 DEF IsList, IsSequence
<1>3. l = Len(f) /\ \A j \in 1..l : ph[j].is = f[j]
  <2>1. Form(ph) = f /\ Form(ph) = [j \in 1..l |-> ph[j].is]
    BY DEF TimeSaid, Form
  <2> HIDE DEF f, l
  <2> QED  BY <1>2, <2>1
<1>4. /\ a \in Nat /\ a + l <= n /\ \A j \in 1..l : text[a + j] = ph[j]
      /\ Apart(At(text, a), At(text, a + 1))
  BY DEF InPlace
<1> HIDE DEF f, n, l
<1>5. a + 1 \in 1..n /\ last = a + l
  BY <1>1, <1>2, <1>3, <1>4
<1>6. \A j \in 1..l : (a + 1) + j - 1 = a + j
  BY <1>2, <1>4
<1>7. f = <<"month">> /\ a + 1 > 1 => text[(a + 1) - 1].is \notin YearWords
  <2>1. SUFFICES ASSUME f = <<"month">>, a + 1 > 1 PROVE text[(a + 1) - 1].is \notin YearWords
    OBVIOUS
  <2>2. (a + 1) - 1 = a /\ a \in 1..n
    <3>1. a \in Nat /\ a # 0 /\ n \in Nat /\ a + 1 <= n
      BY <1>2, <1>4, <1>5, <2>1
    <3> QED  BY <3>1
  <2>3. At(text, a) = text[a].is /\ At(text, a + 1) = text[a + 1].is
    BY <1>5, <2>2 DEF At, n
  <2>4. text[a + 1].is = "month"
    <3>1. f[1] = "month" /\ 1 \in 1..l
      BY <1>1, <1>3, <2>1
    <3> QED  BY <1>3, <1>4, <3>1
  <2>5. Apart(text[a].is, "month")
    BY <1>4, <2>3, <2>4
  <2> QED  BY <2>2, <2>5 DEF YearWords, Apart, Opening
<1>8. Spans(text, f, a + 1)
  <2>1. (a + 1) + Len(f) - 1 <= n
    BY <1>4, <1>5
  <2>2. \A j \in 1..Len(f) : text[(a + 1) + j - 1].is = f[j]
    BY <1>3, <1>4, <1>6
  <2> QED  BY <1>7, <2>1, <2>2 DEF Spans, n
<1>9. SubSeq(text, a + 1, last) = ph
  <2> DEFINE w == SubSeq(text, a + 1, last)
  <2>1. a + 1 \in 1..(n + 1) /\ last \in ((a + 1) - 1)..n
    BY <1>1, <1>2, <1>3, <1>4, <1>5
  <2>2. /\ w \in Seq(ToSet(text)) /\ Len(w) = last - (a + 1) + 1
        /\ \A j \in 1..(last - (a + 1) + 1) : w[j] = text[(a + 1) + j - 1]
    <3> DEFINE m == a + 1
               z == last
    <3>1. m \in Int /\ z \in Int /\ m <= z /\ m = a + 1 /\ z = last
      BY <1>1, <1>2, <1>3, <1>4, <1>5
    <3>2. \A i \in m..z : text[i] \in ToSet(text)
      <4>1. \A i \in 1..n : text[i] \in ToSet(text)
        BY <1>2 DEF n
      <4>2. m..z \subseteq 1..n
        BY <1>2, <2>1
      <4> QED  BY <4>1, <4>2
    <3> HIDE DEF m, z
    <3>3. /\ SubSeq(text, m, z) \in Seq(ToSet(text))
          /\ Len(SubSeq(text, m, z)) = z - m + 1
          /\ \A j \in 1..(z - m + 1) : SubSeq(text, m, z)[j] = text[m + j - 1]
      BY <3>1, <3>2, Slice
    <3>4. w = SubSeq(text, m, z)
      BY <3>1
    <3> QED  BY <3>1, <3>3, <3>4
  <2> HIDE DEF w
  <2>3. Len(w) = l /\ \A j \in 1..l : w[j] = ph[j]
    <3>1. last - (a + 1) + 1 = l
      BY <1>2, <1>4, <1>5
    <3>2. Len(w) = l /\ \A j \in 1..l : w[j] = text[(a + 1) + j - 1]
      BY <2>2, <3>1
    <3> QED  BY <1>4, <1>6, <3>2
  <2>4. w = [j \in 1..l |-> w[j]]
    BY <2>2, <2>3
  <2> QED  BY <1>2, <2>3, <2>4 DEF w
<1> QED
  BY <1>1, <1>3, <1>5, <1>8, <1>9 DEF f, n, l

-----------------------------------------------------------------------------
(* Which of the matches are taken.                                            *)

LastOf(try) == try[2] + Len(try[1]) - 1
MadeOf(text, try, day) == Handler(try[1], SubSeq(text, try[2], LastOf(try)), day)
SpanOf(try) == try[2]..LastOf(try)

\* Some tries are apart from each other and are read as one period each; every
\* other one overlaps an earlier one of these.
TakenApart(text, tries, day, F) ==
  /\ F \subseteq 1..Len(tries)
  /\ \A j \in F : \E r : MadeOf(text, tries[j], day) = {r}
  /\ \A j, k \in F : j # k => SpanOf(tries[j]) \cap SpanOf(tries[k]) = {}
  /\ \A j \in 1..Len(tries) : j \notin F =>
        \E k \in F : k < j /\ SpanOf(tries[j]) \cap SpanOf(tries[k]) # {}

TakenOf(text, tries, day, F, n, acc) ==
  \/ \E p \in acc.found : Raises(p)
  \/ /\ acc.found = UNION {MadeOf(text, tries[j], day) : j \in F \cap (1..n)}
     /\ acc.taken = UNION {SpanOf(tries[j]) : j \in F \cap (1..n)}

\* One match is taken or skipped as it overlaps what was taken.
LEMMA TakesTheNext ==
  ASSUME NEW text, NEW tries, NEW day, NEW F, TakenApart(text, tries, day, F), Len(tries) \in Nat,
         NEW n \in Nat, n + 1 <= Len(tries), NEW acc, TakenOf(text, tries, day, F, n, acc)
  PROVE  TakenOf(text, tries, day, F, n + 1, AfterTry(acc, tries[n + 1], text, day))
<1> DEFINE try == tries[n + 1]
           next == AfterTry(acc, try, text, day)
           made == MadeOf(text, try, day)
           span == SpanOf(try)
           Stop == (\E p \in acc.found : Raises(p)) \/ span \cap acc.taken # {} \/ made = {}
<1>1. next = IF Stop THEN acc ELSE [taken |-> acc.taken \cup span, found |-> acc.found \cup made]
  BY DEF AfterTry, MadeOf, SpanOf, LastOf
<1>2. n + 1 \in 1..Len(tries) /\ \A j \in 1..(n + 1) : j \in 1..n \/ j = n + 1
  OBVIOUS
<1>3. CASE \E p \in acc.found : Raises(p)
  <2>1. next = acc
    BY <1>1, <1>3
  <2> HIDE DEF next
  <2>2. TakenOf(text, tries, day, F, n + 1, next)
    BY <1>3, <2>1 DEF TakenOf
  <2> QED  BY <2>2 DEF next
<1>4. ASSUME ~ \E p \in acc.found : Raises(p), n + 1 \in F
      PROVE  TakenOf(text, tries, day, F, n + 1, next)
  <2>1. /\ acc.found = UNION {MadeOf(text, tries[j], day) : j \in F \cap (1..n)}
        /\ acc.taken = UNION {SpanOf(tries[j]) : j \in F \cap (1..n)}
    BY <1>4 DEF TakenOf
  <2>2. span \cap acc.taken = {}
    <3>1. \A j \in F \cap (1..n) : j # n + 1
      OBVIOUS
    <3>2. \A j \in F \cap (1..n) : span \cap SpanOf(tries[j]) = {}
      BY <1>4, <3>1 DEF TakenApart
    <3> HIDE DEF span
    <3> QED  BY <2>1, <3>2
  <2>3. made # {}
    BY <1>4 DEF TakenApart
  <2>4. next.taken = acc.taken \cup span /\ next.found = acc.found \cup made
    <3> HIDE DEF next, span, made
    <3> QED  BY <1>1, <1>4, <2>2, <2>3
  <2>5. F \cap (1..(n + 1)) = (F \cap (1..n)) \cup {n + 1}
    BY <1>2, <1>4
  <2> HIDE DEF next
  <2>6. next.found = UNION {MadeOf(text, tries[j], day) : j \in F \cap (1..(n + 1))}
    BY <2>1, <2>4, <2>5
  <2>7. next.taken = UNION {SpanOf(tries[j]) : j \in F \cap (1..(n + 1))}
    BY <2>1, <2>4, <2>5
  <2> QED  BY <2>6, <2>7 DEF TakenOf
<1>5. ASSUME ~ \E p \in acc.found : Raises(p), n + 1 \notin F
      PROVE  TakenOf(text, tries, day, F, n + 1, next)
  <2>1. /\ acc.found = UNION {MadeOf(text, tries[j], day) : j \in F \cap (1..n)}
        /\ acc.taken = UNION {SpanOf(tries[j]) : j \in F \cap (1..n)}
    BY <1>5 DEF TakenOf
  <2>2. PICK k \in F : k < n + 1 /\ span \cap SpanOf(tries[k]) # {}
    BY <1>2, <1>5 DEF TakenApart
  <2>3. k \in F \cap (1..n)
    BY <2>2 DEF TakenApart
  <2>4. span \cap acc.taken # {}
    <3> HIDE DEF span
    <3> QED  BY <2>1, <2>2, <2>3
  <2>5. next = acc
    <3> HIDE DEF next, span, made
    <3> QED  BY <1>1, <2>4
  <2>6. F \cap (1..(n + 1)) = F \cap (1..n)
    BY <1>2, <1>5
  <2> HIDE DEF next
  <2> QED  BY <2>1, <2>5, <2>6 DEF TakenOf
<1> QED
  BY <1>3, <1>4, <1>5

\* The scan takes exactly the tries of such a set.
LEMMA ScanTakes ==
  ASSUME NEW text, NEW day, Len(Matches(text)) \in Nat,
         NEW F, TakenApart(text, Matches(text), day, F)
  PROVE  \/ \E p \in Scan(text, day) : Raises(p)
         \/ Scan(text, day) = UNION {MadeOf(text, Matches(text)[j], day) : j \in F}
<1> DEFINE tries == Matches(text)
           g == CHOOSE h : ScansTo(tries, text, day, Len(tries), h)
<1>1. Len(tries) \in Nat
  OBVIOUS
<1>2. ScansTo(tries, text, day, Len(tries), g)
  <2> HIDE DEF tries
  <2> QED  BY <1>1, ScanExists
<1>3. Scan(text, day) = g[Len(tries)].found
  BY DEF Scan, ScansTo
<1>4. TakenApart(text, tries, day, F)
  OBVIOUS
<1> HIDE DEF tries, g
<1>5. \A n \in 0..Len(tries) : ScanStep(tries, text, day, g, n)
  BY <1>1, <1>2 DEF ScansTo, ScanStep
<1> DEFINE L == {n \in Nat : n <= Len(tries) => TakenOf(text, tries, day, F, n, g[n])}
<1>6. 0 \in L
  <2>1. g[0] = [taken |-> {}, found |-> {}]
    BY <1>1, <1>5 DEF ScanStep
  <2>2. F \cap (1..0) = {}
    OBVIOUS
  <2>3. TakenOf(text, tries, day, F, 0, g[0])
    BY <2>1, <2>2 DEF TakenOf
  <2> QED  BY <2>3
<1>7. ASSUME NEW n \in L PROVE n + 1 \in L
  <2>1. n \in Nat /\ n + 1 \in Nat
    OBVIOUS
  <2>2. ASSUME n + 1 <= Len(tries) PROVE TakenOf(text, tries, day, F, n + 1, g[n + 1])
    <3>1. n <= Len(tries) /\ n + 1 \in 0..Len(tries) /\ n + 1 # 0 /\ (n + 1) - 1 = n
      BY <1>1, <2>1, <2>2
    <3>2. TakenOf(text, tries, day, F, n, g[n])
      BY <3>1
    <3>3. g[n + 1] = AfterTry(g[n], tries[n + 1], text, day)
      BY <1>5, <3>1 DEF ScanStep
    <3> HIDE DEF L
    <3>4. TakenOf(text, tries, day, F, n + 1, AfterTry(g[n], tries[n + 1], text, day))
      BY <1>1, <1>4, <2>1, <2>2, <3>2, TakesTheNext
    <3> QED  BY <3>3, <3>4
  <2> QED  BY <2>1, <2>2
<1> HIDE DEF L
<1>8. L = Nat
  <2>1. L \in SUBSET Nat
    BY DEF L
  <2> QED  BY <1>6, <1>7, <2>1, NatSetInduction
<1>9. TakenOf(text, tries, day, F, Len(tries), g[Len(tries)])
  <2>1. Len(tries) \in L /\ Len(tries) <= Len(tries)
    BY <1>1, <1>8
  <2> QED  BY <2>1 DEF L
<1>10. F \cap (1..Len(tries)) = F
  BY <1>4 DEF TakenApart
<1> QED
  BY <1>3, <1>9, <1>10 DEF TakenOf, tries

-----------------------------------------------------------------------------
(* A question in phrases that are read in full.                              *)

\* A text that is all phrases, each of a form the finders read in full.
Plain(text, phrases) ==
  /\ TextOK(text) /\ Phrased(text, phrases)
  /\ \A ph \in phrases : PhraseOK(ph)

\* The words of a phrase are those of its form.
LEMMA FormWords ==
  ASSUME NEW ph, IsSequence(ph), NEW W, Form(ph) \in Seq(W)
  PROVE  \A j \in 1..Len(ph) : ph[j].is \in W
<1> DEFINE f == Form(ph)
<1>1. f \in Seq(W) /\ Len(ph) \in Nat
  BY SequenceIsList
<1>2. f = [j \in 1..Len(ph) |-> ph[j].is]
  BY DEF Form
<1> HIDE DEF f
<1>3. Len(f) = Len(ph) /\ \A j \in 1..Len(ph) : f[j] = ph[j].is
  BY <1>1, <1>2
<1>4. \A j \in 1..Len(f) : f[j] \in W
  BY <1>1
<1> QED
  BY <1>3, <1>4

TimeWords == {"iso", "year", "isoMonth", "lastDays", "lastMonths", "prevMonth", "thisMonth",
              "prevWeek", "thisWeek", "prevYear", "thisYear", "daysAgo", "month"}
PlainWords == {"grain", "unsupported", "split", "name", "noun", "of", "into", "value", "join",
               "equals", "whole"}

LEMMA TimeKindsAre == TimeKinds \subseteq TimeWords
<1> USE DEF Numbers
<1>1. SUFFICES ASSUME NEW q \in DOMAIN Patterns PROVE Patterns[q][1] \in TimeWords
  BY DEF TimeKinds
<1>2. q \in Numbers
  BY DEF Patterns
<1> QED
  BY <1>2, FirstWords DEF TimeWords

\* A phrase of the other forms says no time.
LEMMA PlainForms ==
  ASSUME NEW ph, IsSequence(ph), SplitPhrase(ph) \/ ValuePhrase(ph) \/ WholePhrase(ph)
  PROVE  \A j \in 1..Len(ph) : ph[j].is \in PlainWords
<1> DEFINE W == PlainWords
<1>1. /\ {"grain", "unsupported", "split", "name", "noun", "of", "into", "value", "join",
               "equals", "whole"} \subseteq W
  BY DEF PlainWords
<1> HIDE DEF W
<1>2. /\ <<"grain">> \in Seq(W) /\ <<"unsupported">> \in Seq(W) /\ <<"split", "name">> \in Seq(W)
      /\ <<"split", "noun", "of">> \in Seq(W) /\ <<"split", "noun", "into">> \in Seq(W)
  BY <1>1
<1>3. /\ <<"value", "name">> \in Seq(W) /\ <<"noun", "name">> \in Seq(W)
      /\ <<"name", "equals", "value">> \in Seq(W) /\ <<"name", "equals", "noun">> \in Seq(W)
      /\ <<"value", "join", "value", "name">> \in Seq(W)
  BY <1>1
<1>4. /\ <<"name">> \in Seq(W) /\ <<"name", "whole">> \in Seq(W)
      /\ <<"value", "name", "whole">> \in Seq(W) /\ <<"noun", "name", "whole">> \in Seq(W)
  BY <1>1
<1>5. Form(ph) \in Seq(W)
  <2>1. CASE SplitPhrase(ph)
    BY <1>2, <2>1 DEF SplitPhrase
  <2>2. CASE ValuePhrase(ph)
    BY <1>3, <2>2 DEF ValuePhrase
  <2>3. CASE WholePhrase(ph)
    BY <1>4, <2>3 DEF WholePhrase
  <2> QED  BY <2>1, <2>2, <2>3
<1> QED
  BY <1>5, FormWords DEF W

LEMMA NoTimeWords ==
  ASSUME NEW ph, PhraseOK(ph), ~TimePhrase(ph)
  PROVE  \A j \in 1..Len(ph) : ph[j].is \notin TimeKinds
<1>1. IsSequence(ph) /\ DOMAIN ph = 1..Len(ph)
  BY SequenceIsList DEF PhraseOK
<1>2. CASE SplitPhrase(ph) \/ ValuePhrase(ph) \/ WholePhrase(ph)
  <2>1. \A j \in 1..Len(ph) : ph[j].is \in PlainWords
    BY <1>1, <1>2, PlainForms
  <2>2. \A w \in PlainWords : w \notin TimeWords
    BY DEF PlainWords, TimeWords
  <2> QED  BY <2>1, <2>2, TimeKindsAre
<1>3. CASE OtherPhrase(ph)
  <2>1. \A j \in 1..Len(ph) : ph[j].is \in Kinds(ph)
    BY <1>1 DEF Kinds
  <2> QED  BY <1>3, <2>1 DEF OtherPhrase
<1> QED
  BY <1>2, <1>3 DEF PhraseOK

\* A phrase that begins with a time word says that time.
LEMMA TimeIsSaid ==
  ASSUME NEW ph, PhraseOK(ph), TimePhrase(ph), \A i \in 1..Len(ph) : WordOK(ph[i])
  PROVE  /\ \E q \in Numbers : TimeSaid(ph, Patterns[q])
         /\ ph[1].is \in TimeKinds
<1> USE DEF Numbers
<1>1. IsSequence(ph) /\ DOMAIN ph = 1..Len(ph)
  BY SequenceIsList DEF PhraseOK
<1>2. PICK q \in DOMAIN Patterns : Form(ph) = Patterns[q]
  BY DEF TimePhrase
<1>3. q \in Numbers
  BY <1>2 DEF Patterns
<1>4. Patterns[q] \in Shapes
  BY <1>3, PatternsAre
<1>5. TimeSaid(ph, Patterns[q])
  BY <1>1, <1>2, <1>4 DEF TimeSaid, TimePhrase
<1>6. ph[1].is = Patterns[q][1]
  <2> DEFINE f == Patterns[q]
  <2>1. Len(f) \in 1..3
    BY <1>4, ShapeWords
  <2>2. Form(ph) = f /\ Form(ph) = [j \in 1..Len(ph) |-> ph[j].is] /\ Len(ph) \in Nat
    BY <1>1, <1>2, SequenceIsList DEF Form
  <2> HIDE DEF f
  <2>3. Len(ph) = Len(f) /\ 1 \in 1..Len(ph)
    BY <2>1, <2>2
  <2>4. f[1] = ph[1].is
    BY <2>2, <2>3
  <2> QED  BY <2>4 DEF f
<1>7. Patterns[q][1] \in TimeKinds
  BY <1>2 DEF TimeKinds
<1> QED
  BY <1>3, <1>5, <1>6, <1>7

\* The words of a phrase in its place are words of the text.
LEMMA PhraseWordsOK ==
  ASSUME NEW text, TextOK(text), NEW ph, IsSequence(ph), NEW a, InPlace(text, ph, a)
  PROVE  \A i \in 1..Len(ph) : a + i \in 1..Len(text) /\ WordOK(ph[i])
<1>1. Len(text) \in Nat /\ Len(ph) \in Nat /\ DOMAIN text = 1..Len(text)
  BY SequenceIsList DEF TextOK
<1>2. a \in Nat /\ a + Len(ph) <= Len(text) /\ \A j \in 1..Len(ph) : text[a + j] = ph[j]
  BY DEF InPlace
<1>3. ASSUME NEW i \in 1..Len(ph) PROVE a + i \in 1..Len(text)
  BY <1>1, <1>2
<1>4. \A j \in 1..Len(text) : WordOK(text[j])
  BY <1>1 DEF TextOK
<1> QED
  BY <1>2, <1>3, <1>4

\* A word that belongs to a time is one of a phrase that says a time.
LEMMA TimeWordsBelong ==
  ASSUME NEW text, NEW phrases, Plain(text, phrases), NEW i \in 1..Len(text), text[i].is \in TimeKinds
  PROVE  \E ph \in phrases, a \in Nat, q \in Numbers :
           InPlace(text, ph, a) /\ a < i /\ i <= a + Len(ph) /\ TimeSaid(ph, Patterns[q])
<1> USE DEF Numbers
<1>1. text[i].is # "text"
  BY TimeKindsAre DEF TimeWords
<1>2. PICK ph \in phrases, a \in Nat : InPlace(text, ph, a) /\ a < i /\ i <= a + Len(ph)
  BY <1>1 DEF Plain, Phrased
<1>3. PhraseOK(ph) /\ IsSequence(ph)
  BY DEF Plain, PhraseOK
<1>4. Len(ph) \in Nat /\ Len(text) \in Nat
  BY <1>3, SequenceIsList DEF Plain, TextOK
<1>5. i - a \in 1..Len(ph) /\ a + (i - a) = i
  BY <1>2, <1>4
<1>6. ph[i - a].is \in TimeKinds
  BY <1>2, <1>5 DEF InPlace
<1>7. TimePhrase(ph)
  BY <1>3, <1>5, <1>6, NoTimeWords
<1>8. \E q \in Numbers : TimeSaid(ph, Patterns[q])
  BY <1>2, <1>3, <1>7, PhraseWordsOK, TimeIsSaid DEF Plain
<1> QED
  BY <1>2, <1>8

\* And every phrase that says one has its place.
LEMMA TimesHavePlaces ==
  ASSUME NEW text, NEW phrases, Plain(text, phrases), NEW ph \in phrases, ph[1].is \in TimeKinds
  PROVE  \E a \in Nat, q \in Numbers : InPlace(text, ph, a) /\ TimeSaid(ph, Patterns[q])
<1> USE DEF Numbers
<1>1. PhraseOK(ph) /\ IsSequence(ph) /\ ph # <<>>
  BY DEF Plain, PhraseOK
<1>2. 1 \in 1..Len(ph)
  BY <1>1, NotEmpty
<1>3. TimePhrase(ph)
  BY <1>1, <1>2, NoTimeWords
<1>4. PICK a \in Nat : InPlace(text, ph, a)
  BY DEF Plain, Phrased
<1>5. \E q \in Numbers : TimeSaid(ph, Patterns[q])
  BY <1>1, <1>3, <1>4, PhraseWordsOK, TimeIsSaid DEF Plain
<1> QED
  BY <1>4, <1>5

TryIs(try, q, i) == try = <<Patterns[q], i>>

PlaceAt(text, q, i) == (q - 1) * Len(text) + i

\* The rank of a match tells its pattern and its place.
LEMMA RanksOf ==
  ASSUME NEW text, NEW tries, NEW rank, Ordered(text, tries, rank)
  PROVE  \A j \in 1..Len(tries) : \A q \in Numbers : \A i \in 1..Len(text) :
           TryIs(tries[j], q, i) => rank[j] = PlaceAt(text, q, i)
<1> SUFFICES ASSUME NEW j \in 1..Len(tries), NEW q \in Numbers, NEW i \in 1..Len(text),
                    TryIs(tries[j], q, i)
             PROVE  rank[j] = PlaceAt(text, q, i)
  OBVIOUS
<1>1. PICK r \in Numbers, k \in 1..Len(text) :
         /\ tries[j] = <<Patterns[r], k>> /\ Spans(text, Patterns[r], k)
         /\ rank[j] = (r - 1) * Len(text) + k
  BY DEF Ordered
<1>2. Patterns[q] = Patterns[r] /\ i = k
  BY <1>1 DEF TryIs
<1>3. q = r
  BY <1>2, PatternsAre
<1> QED
  BY <1>1, <1>2, <1>3 DEF PlaceAt

\* Two matches of one pattern at one place are one; an earlier pattern ranks first.
LEMMA OneRank ==
  ASSUME NEW text, IsSequence(text), NEW tries, Len(tries) \in Nat, NEW rank, Ordered(text, tries, rank),
         NEW j \in 1..Len(tries), NEW k \in 1..Len(tries),
         NEW p \in Numbers, NEW h \in 1..Len(text), TryIs(tries[j], p, h),
         NEW q \in Numbers, NEW i \in 1..Len(text), TryIs(tries[k], q, i)
  PROVE  (p = q /\ h = i => j = k) /\ (p < q => j < k)
<1>1. rank[j] = (p - 1) * Len(text) + h /\ rank[k] = (q - 1) * Len(text) + i
  <2>0. \A x \in 1..Len(tries) : \A r \in Numbers : \A y \in 1..Len(text) :
           TryIs(tries[x], r, y) => rank[x] = PlaceAt(text, r, y)
    BY RanksOf
  <2>1. rank[j] = PlaceAt(text, p, h)
    BY <2>0
  <2>2. rank[k] = PlaceAt(text, q, i)
    BY <2>0
  <2> QED  BY <2>1, <2>2 DEF PlaceAt
<1>2. Len(text) \in Nat
  BY SequenceIsList
<1>3. (j < k => rank[j] < rank[k]) /\ (k < j => rank[k] < rank[j])
  BY DEF Ordered
<1>4. p = q /\ h = i => j = k
  <2>1. SUFFICES ASSUME p = q, h = i PROVE j = k
    OBVIOUS
  <2>2. p \in Int
    BY DEF Numbers
  <2>3. rank[j] = rank[k] /\ rank[j] \in Int
    BY <1>1, <1>2, <2>1, <2>2
  <2> QED  BY <1>3, <2>3
<1>5. ASSUME p < q PROVE j < k
  <2> DEFINE n == Len(text)
             u == p - 1
             d == q - p
  <2>0. p \in Int /\ q \in Int /\ p >= 1
    BY DEF Numbers
  <2>1. d \in Nat /\ d >= 1 /\ u \in Nat /\ q - 1 = u + d /\ n \in Nat
    BY <1>2, <1>5, <2>0
  <2>2. rank[j] = u * n + h /\ rank[k] = (u + d) * n + i /\ h \in 1..n /\ i \in 1..n
    BY <1>1, <2>0, <2>1
  <2> HIDE DEF n, u, d
  <2>3. (u + d) * n = u * n + d * n
    BY <2>1
  <2>4. d * n >= n
    BY <2>1
  <2> DEFINE x == u * n
             y == d * n
  <2>5. x \in Int /\ y \in Int
    BY <2>1
  <2>6. rank[j] = x + h /\ rank[k] = x + y + i /\ y >= n
    BY <2>2, <2>3, <2>4
  <2> HIDE DEF x, y
  <2>7. rank[j] < rank[k]
    BY <2>1, <2>2, <2>5, <2>6
  <2>8. rank[j] \in Int /\ rank[k] \in Int
    BY <2>1, <2>2, <2>5, <2>6
  <2>9. ~(rank[k] < rank[j]) /\ rank[j] # rank[k]
    BY <2>7, <2>8
  <2> QED  BY <1>3, <2>9
<1> QED
  BY <1>4, <1>5

-----------------------------------------------------------------------------
(* The matches of the phrases themselves.                                     *)

FullAt(text, try, ph, a, p) ==
  InPlace(text, ph, a) /\ TimeSaid(ph, Patterns[p]) /\ TryIs(try, p, a + 1)
Full(text, phrases, tries) ==
  {j \in 1..Len(tries) : \E ph \in phrases, a \in Nat, p \in Numbers : FullAt(text, tries[j], ph, a, p)}

\* A match of a whole phrase spans the phrase.
LEMMA FullTry ==
  ASSUME NEW text, IsSequence(text), NEW try, NEW ph, NEW a \in Nat, NEW p \in Numbers,
         FullAt(text, try, ph, a, p)
  PROVE  /\ SpanOf(try) = (a + 1)..(a + Len(ph)) /\ Len(ph) \in Nat
         /\ a + 1 \in 1..Len(text) /\ Spans(text, Patterns[p], a + 1) /\ Len(Patterns[p]) = Len(ph)
<1>1. try[1] = Patterns[p] /\ try[2] = a + 1
  BY DEF FullAt, TryIs
<1>2. /\ a + 1 \in 1..Len(text) /\ Len(Patterns[p]) = Len(ph) /\ Len(ph) \in 1..3
      /\ Spans(text, Patterns[p], a + 1)
      /\ SubSeq(text, a + 1, (a + 1) + Len(Patterns[p]) - 1) = ph
  BY FullMatch DEF FullAt
<1>3. LastOf(try) = (a + 1) + Len(Patterns[p]) - 1
  BY <1>1 DEF LastOf
<1>4. Len(ph) \in Nat /\ LastOf(try) = a + Len(ph)
  BY <1>2, <1>3
<1>5. SpanOf(try) = (a + 1)..(a + Len(ph))
  BY <1>1, <1>4 DEF SpanOf
<1> QED
  BY <1>2, <1>4, <1>5

\* And its handler reads the words of the phrase.
LEMMA FullMade ==
  ASSUME NEW text, IsSequence(text), NEW try, NEW ph, NEW a \in Nat, NEW p \in Numbers,
         FullAt(text, try, ph, a, p), NEW day
  PROVE  MadeOf(text, try, day) = Handler(Patterns[p], ph, day)
<1>1. try[1] = Patterns[p] /\ try[2] = a + 1
  BY DEF FullAt, TryIs
<1>2. SubSeq(text, a + 1, (a + 1) + Len(Patterns[p]) - 1) = ph
  <2>1. InPlace(text, ph, a) /\ TimeSaid(ph, Patterns[p])
    BY DEF FullAt
  <2> QED  BY <2>1, FullMatch
<1>3. LastOf(try) = (a + 1) + Len(Patterns[p]) - 1
  BY <1>1 DEF LastOf
<1> QED
  BY <1>1, <1>2, <1>3 DEF MadeOf

One(S) == \E x : S = {x}

LEMMA ReadsOnly ==
  ASSUME NEW ph, NEW f \in Shapes, TimeSaid(ph, f), NEW day \in WorkDays
  PROVE  One(Handler(f, ph, day))
<1>1. \E r : Handler(f, ph, day) = {r}
  BY ReadsOne
<1> QED
  BY <1>1 DEF One

LEMMA MadeOnce ==
  ASSUME NEW text, IsSequence(text), NEW try, NEW ph, NEW a \in Nat, NEW p \in Numbers,
         FullAt(text, try, ph, a, p), NEW day \in WorkDays
  PROVE  One(MadeOf(text, try, day))
<1>1. PICK f \in Shapes : f = Patterns[p] /\ TimeSaid(ph, f)
  BY PatternsAre DEF FullAt
<1>2. MadeOf(text, try, day) = Handler(Patterns[p], ph, day)
  BY FullMade
<1>3. One(Handler(f, ph, day))
  BY <1>1, ReadsOnly
<1> QED
  BY <1>1, <1>2, <1>3 DEF One

\* The matches of whole phrases are apart, and every other match overlaps one
\* of an earlier pattern.
LEMMA TimesApart ==
  ASSUME NEW text, NEW phrases, Plain(text, phrases), NEW day \in WorkDays
  PROVE  TakenApart(text, Matches(text), day, Full(text, phrases, Matches(text)))
<1> DEFINE tries == Matches(text)
           F == Full(text, phrases, tries)
<1>1. IsSequence(text) /\ Len(text) \in Nat
  BY SequenceIsList DEF Plain, TextOK
<1>2. Len(tries) \in Nat /\ \E rank : Ordered(text, tries, rank)
  BY <1>1, MatchesOrdered
<1>3. PICK rank : Ordered(text, tries, rank)
  BY <1>2
<1> HIDE DEF tries
<1>4. \A j \in F : j \in 1..Len(tries) /\
        \E ph \in phrases, a \in Nat, p \in Numbers : FullAt(text, tries[j], ph, a, p)
  BY DEF Full
<1>5. ASSUME NEW j \in F PROVE One(MadeOf(text, tries[j], day))
  <2>1. PICK ph \in phrases, a \in Nat, p \in Numbers : FullAt(text, tries[j], ph, a, p)
    BY <1>4
  <2> HIDE DEF F
  <2> QED  BY <1>1, <2>1, MadeOnce
<1>6. ASSUME NEW j \in F, NEW k \in F, NEW t \in SpanOf(tries[j]) \cap SpanOf(tries[k])
      PROVE  j = k
  <2>1. PICK ph \in phrases, a \in Nat, p \in Numbers : FullAt(text, tries[j], ph, a, p)
    BY <1>4
  <2>2. PICK pi \in phrases, b \in Nat, q \in Numbers : FullAt(text, tries[k], pi, b, q)
    BY <1>4
  <2>3. /\ SpanOf(tries[j]) = (a + 1)..(a + Len(ph)) /\ Len(ph) \in Nat
        /\ a + 1 \in 1..Len(text) /\ Spans(text, Patterns[p], a + 1) /\ Len(Patterns[p]) = Len(ph)
    BY <1>1, <2>1, FullTry
  <2>4. /\ SpanOf(tries[k]) = (b + 1)..(b + Len(pi)) /\ Len(pi) \in Nat
        /\ b + 1 \in 1..Len(text) /\ Spans(text, Patterns[q], b + 1) /\ Len(Patterns[q]) = Len(pi)
    BY <1>1, <2>2, FullTry
  <2>5. t \in Int /\ a < t /\ t <= a + Len(ph) /\ b < t /\ t <= b + Len(pi)
    BY <2>3, <2>4
  <2>6. t \in (a + 1)..((a + 1) + Len(Patterns[p]) - 1) /\ t \in (b + 1)..((b + 1) + Len(Patterns[q]) - 1)
    BY <2>3, <2>4, <2>5
  <2> DEFINE i == b + 1
             h == a + 1
  <2>7. i \in 1..Len(text) /\ h \in 1..Len(text) /\ Spans(text, Patterns[q], i) /\ Spans(text, Patterns[p], h)
    BY <2>3, <2>4
  <2>8. t \in h..(h + Len(Patterns[p]) - 1) /\ t \in i..(i + Len(Patterns[q]) - 1)
    BY <2>6
  <2>9. /\ InPlace(text, ph, a) /\ TimeSaid(ph, Patterns[p]) /\ TryIs(tries[j], p, h)
        /\ InPlace(text, pi, b) /\ TimeSaid(pi, Patterns[q]) /\ TryIs(tries[k], q, i)
    BY <2>1, <2>2 DEF FullAt
  <2>10. i = b + 1 /\ h = a + 1
    OBVIOUS
  <2> HIDE DEF i, h
  <2>11. (q = p /\ i = a + 1) \/ p < q
    <3>1. InPlace(text, ph, a) /\ TimeSaid(ph, Patterns[p])
      BY <2>9
    <3>2. i \in 1..Len(text) /\ Spans(text, Patterns[q], i) /\ t \in i..(i + Len(Patterns[q]) - 1)
      BY <2>7, <2>8
    <3> QED  BY <1>1, <2>5, <3>1, <3>2, MatchInside
  <2>12. (p = q /\ h = b + 1) \/ q < p
    <3>1. InPlace(text, pi, b) /\ TimeSaid(pi, Patterns[q])
      BY <2>9
    <3>2. h \in 1..Len(text) /\ Spans(text, Patterns[p], h) /\ t \in h..(h + Len(Patterns[p]) - 1)
      BY <2>7, <2>8
    <3> QED  BY <1>1, <2>5, <3>1, <3>2, MatchInside
  <2>13. p = q /\ h = i
    BY <2>10, <2>11, <2>12 DEF Numbers
  <2>14. j \in 1..Len(tries) /\ k \in 1..Len(tries)
    BY <1>4
  <2>15. TryIs(tries[j], p, h) /\ TryIs(tries[k], q, i)
    BY <2>9
  <2> QED  BY <1>1, <1>2, <1>3, <2>7, <2>13, <2>14, <2>15, OneRank
<1>7. ASSUME NEW j \in 1..Len(tries), j \notin F
      PROVE  \E k \in F : k < j /\ SpanOf(tries[j]) \cap SpanOf(tries[k]) # {}
  <2>1. PICK q \in Numbers, i \in 1..Len(text) : tries[j] = <<Patterns[q], i>> /\ Spans(text, Patterns[q], i)
    BY <1>3 DEF Ordered
  <2>2. Patterns[q] \in Shapes
    BY PatternsAre
  <2>3. Len(Patterns[q]) \in 1..3 /\ Patterns[q][1] \in TimeKinds
    BY <2>2, ShapeWords
  <2>4. 1 \in 1..Len(Patterns[q]) /\ i + 1 - 1 = i /\ i \in Int
    BY <2>3
  <2>5. text[i].is \in TimeKinds
    BY <2>1, <2>3, <2>4 DEF Spans
  <2>6. PICK ph \in phrases, a \in Nat, p \in Numbers :
           InPlace(text, ph, a) /\ a < i /\ i <= a + Len(ph) /\ TimeSaid(ph, Patterns[p])
    BY <2>5, TimeWordsBelong
  <2>7. i \in i..(i + Len(Patterns[q]) - 1)
    BY <2>3, <2>4
  <2>8. (q = p /\ i = a + 1) \/ p < q
    BY <1>1, <2>1, <2>6, <2>7, MatchInside
  <2>9. p < q
    <3>1. ASSUME q = p, i = a + 1 PROVE FALSE
      <4>1. FullAt(text, tries[j], ph, a, p)
        BY <2>1, <2>6, <3>1 DEF FullAt, TryIs
      <4> QED  BY <1>7, <4>1 DEF Full
    <3> QED  BY <2>8, <3>1
  <2>10. a + 1 \in 1..Len(text) /\ Spans(text, Patterns[p], a + 1)
    BY <1>1, <2>6, FullMatch
  <2>11. PICK k \in 1..Len(tries) : tries[k] = <<Patterns[p], a + 1>>
    BY <1>3, <2>10 DEF Ordered
  <2>12. FullAt(text, tries[k], ph, a, p)
    BY <2>6, <2>11 DEF FullAt, TryIs
  <2>13. k \in F
    BY <2>12 DEF Full
  <2>14. k < j
    <3> DEFINE h == a + 1
    <3>1. h \in 1..Len(text) /\ TryIs(tries[k], p, h)
      BY <2>10, <2>11 DEF TryIs
    <3> HIDE DEF h
    <3>2. TryIs(tries[j], q, i)
      BY <2>1 DEF TryIs
    <3> QED  BY <1>1, <1>2, <1>3, <2>9, <3>1, <3>2, OneRank
  <2>15. i \in SpanOf(tries[k])
    <3>1. SpanOf(tries[k]) = (a + 1)..(a + Len(ph)) /\ Len(ph) \in Nat
      BY <1>1, <2>12, FullTry
    <3> QED  BY <2>6, <3>1
  <2>16. i \in SpanOf(tries[j])
    <3>1. tries[j][1] = Patterns[q] /\ tries[j][2] = i
      BY <2>1
    <3> QED  BY <2>7, <3>1 DEF SpanOf, LastOf
  <2> QED  BY <2>13, <2>14, <2>15, <2>16
<1>8. F \subseteq 1..Len(tries)
  BY DEF Full
<1> HIDE DEF F
<1>9. TakenApart(text, tries, day, F)
  BY <1>5, <1>6, <1>7, <1>8 DEF TakenApart, One
<1> QED
  BY <1>9 DEF F, tries

TimesIn(phrases) == {ph \in phrases : ph[1].is \in TimeKinds}

\* When nothing was refused, no rule of refusal applied.
LEMMA NoRefusalLeft ==
  ASSUME NEW text, NEW day, FindPeriod(text, day) # {Refused}
  PROVE  /\ PeriodAlternatives(text, day) = {} /\ FindPeriod(text, day) = Scan(text, day)
         /\ (\A p \in Scan(text, day) : ~Raises(p)) /\ ~(Cardinality(Scan(text, day)) > 1)
<1> DEFINE S == Scan(text, day)
           alts == PeriodAlternatives(text, day)
<1>1. FindPeriod(text, day) = IF alts # {} THEN {Refused} ELSE AtMostOne(S)
  BY DEF FindPeriod
<1>2. AtMostOne(S) = IF Cardinality(S) > 1 \/ \E p \in S : Raises(p) THEN {Refused} ELSE S
  BY DEF AtMostOne
<1> HIDE DEF S, alts
<1>3. alts = {} /\ ~(Cardinality(S) > 1) /\ (\A p \in S : ~Raises(p)) /\ AtMostOne(S) = S
  BY <1>1, <1>2
<1> QED
  BY <1>1, <1>3 DEF S, alts

\* Months that are counted back are refused.
LEMMA NoMonthsCounted ==
  ASSUME NEW text, NEW phrases, Plain(text, phrases), NEW day, PeriodAlternatives(text, day) = {}
  PROVE  \A i \in 1..Len(text) : text[i].is # "lastMonths"
<1> DEFINE months == {i \in 1..Len(text) : text[i].is = "lastMonths"}
           i == CHOOSE x \in months : \A y \in months : x <= y
<1>1. SUFFICES ASSUME months # {} PROVE FALSE
  OBVIOUS
<1>2. Len(text) \in Nat
  BY SequenceIsList DEF Plain, TextOK
<1>3. \E x \in months : \A y \in months : x <= y
  BY <1>1, <1>2, FirstPosition
<1>4. i \in months /\ Min(months) = i
  BY <1>3 DEF Min
<1>5. text[i].n = 0
  BY <1>1, <1>4 DEF PeriodAlternatives
<1> HIDE DEF i
<1>6. i \in 1..Len(text) /\ text[i].is = "lastMonths"
  BY <1>4
<1>7. text[i].is \in TimeKinds
  <2>1. Patterns[7] = <<"lastMonths">> /\ 7 \in DOMAIN Patterns
    BY DEF Patterns
  <2> QED  BY <1>6, <2>1 DEF TimeKinds
<1>8. PICK ph \in phrases, a \in Nat, q \in Numbers :
         InPlace(text, ph, a) /\ a < i /\ i <= a + Len(ph) /\ TimeSaid(ph, Patterns[q])
  BY <1>6, <1>7, TimeWordsBelong
<1> DEFINE j == i - a
<1>9. Len(ph) \in Nat
  BY <1>8, SequenceIsList DEF TimeSaid
<1>10. j \in 1..Len(ph) /\ a + j = i
  BY <1>6, <1>8, <1>9
<1>11. ph[j] = text[i]
  BY <1>8, <1>10 DEF InPlace
<1> HIDE DEF j
<1>12. ph[j].is = "lastMonths" /\ ph[j].n = 0
  BY <1>5, <1>6, <1>11
<1>13. ph[j].n > 0
  BY <1>8, <1>10, <1>12 DEF TimeSaid
<1> QED
  BY <1>12, <1>13

AllMade(text, tries, day, F) == UNION {MadeOf(text, tries[j], day) : j \in F}

\* The scan finds finitely many periods.
LEMMA ScanIsFew ==
  ASSUME NEW F, IsFiniteSet(F), NEW text, NEW tries, NEW day,
         \A j \in F : One(MadeOf(text, tries[j], day))
  PROVE  IsFiniteSet(AllMade(text, tries, day, F))
<1> DEFINE h(j) == CHOOSE r : MadeOf(text, tries[j], day) = {r}
           g == [j \in F |-> h(j)]
<1>0. \A j \in F : MadeOf(text, tries[j], day) = {h(j)}
  BY DEF One
<1> HIDE DEF h
<1>1. \A j \in F : MadeOf(text, tries[j], day) = {g[j]}
  BY <1>0
<1>2. DOMAIN g = F /\ g = [j \in F |-> g[j]]
  OBVIOUS
<1> HIDE DEF g
<1>3. IsFiniteSet({g[j] : j \in F})
  BY <1>2, FiniteImage
<1>4. UNION {MadeOf(text, tries[j], day) : j \in F} = {g[j] : j \in F}
  BY <1>1
<1> QED
  BY <1>3, <1>4 DEF AllMade

\* Of finitely many, not more than one is none or one.
LEMMA OneOrNone ==
  ASSUME NEW S, IsFiniteSet(S), ~(Cardinality(S) > 1), NEW v \in S
  PROVE  S = {v}
<1>1. IsFiniteSet(S \ {v}) /\ Cardinality(S \ {v}) = Cardinality(S) - 1 /\ Cardinality(S) \in Nat
      /\ Cardinality(S \ {v}) \in Nat
  BY FS_RemoveElement, FS_CardinalityType
<1>2. Cardinality(S \ {v}) = 0
  BY <1>1
<1>3. S \ {v} = {}
  BY <1>1, <1>2, FS_EmptySet
<1> QED
  BY <1>3

\* What a finder of one key makes of the phrases that speak of it.
PeriodAsMeant(found, phrases, day) ==
  /\ found = {} => TimesIn(phrases) = {}
  /\ found # {} /\ found # {Refused} =>
       /\ TimesIn(phrases) # {}
       /\ \A ph \in TimesIn(phrases) : \A v \in found : PeriodMeant(ph, v, day)

\* A phrase that says a time begins with a time word.
LEMMA SaidFirst ==
  ASSUME NEW ph, NEW f, TimeSaid(ph, f)
  PROVE  ph[1].is \in TimeKinds
<1>1. f \in Shapes
  BY DEF TimeSaid
<1>2. Len(f) \in 1..3 /\ f[1] \in TimeKinds
  BY <1>1, ShapeWords
<1>3. Form(ph) = f /\ Form(ph) = [j \in 1..Len(ph) |-> ph[j].is] /\ Len(ph) \in Nat
  BY SequenceIsList DEF TimeSaid, Form
<1>4. Len(ph) = Len(f) /\ 1 \in 1..Len(ph)
  BY <1>2, <1>3
<1>5. f[1] = ph[1].is
  BY <1>3, <1>4
<1> QED
  BY <1>2, <1>5

\* The period that was found was made of every phrase that says a time.
LEMMA TimeIsMade ==
  ASSUME NEW text, NEW phrases, Plain(text, phrases), NEW day,
         NEW ph \in phrases, ph[1].is \in TimeKinds
  PROVE  \E j \in Full(text, phrases, Matches(text)) : \E q \in Numbers :
           /\ MadeOf(text, Matches(text)[j], day) = Handler(Patterns[q], ph, day)
           /\ TimeSaid(ph, Patterns[q])
           /\ PeriodAlternatives(text, day) = {} => Patterns[q] # <<"lastMonths">>
<1> DEFINE tries == Matches(text)
<1>1. IsSequence(text) /\ Len(text) \in Nat
  BY SequenceIsList DEF Plain, TextOK
<1>2. \E rank : Ordered(text, tries, rank)
  BY <1>1, MatchesOrdered
<1> HIDE DEF tries
<1>3. PICK rank : Ordered(text, tries, rank)
  BY <1>2
<1>4. PICK a \in Nat, q \in Numbers : InPlace(text, ph, a) /\ TimeSaid(ph, Patterns[q])
  BY TimesHavePlaces
<1>5. /\ a + 1 \in 1..Len(text) /\ Len(Patterns[q]) = Len(ph) /\ Len(ph) \in 1..3
      /\ Spans(text, Patterns[q], a + 1)
  BY <1>1, <1>4, FullMatch
<1>6. PICK j \in 1..Len(tries) : tries[j] = <<Patterns[q], a + 1>>
  BY <1>3, <1>5 DEF Ordered
<1>7. FullAt(text, tries[j], ph, a, q)
  BY <1>4, <1>6 DEF FullAt, TryIs
<1>8. j \in Full(text, phrases, tries)
  BY <1>7 DEF Full
<1>9. MadeOf(text, tries[j], day) = Handler(Patterns[q], ph, day)
  BY <1>1, <1>7, FullMade
<1>10. ASSUME PeriodAlternatives(text, day) = {}, Patterns[q] = <<"lastMonths">> PROVE FALSE
  <2>1. text[a + 1].is # "lastMonths"
    BY <1>5, <1>10, NoMonthsCounted
  <2>2. 1 \in 1..Len(ph) /\ text[a + 1] = ph[1]
    BY <1>4, <1>5 DEF InPlace
  <2>3. ph[1].is = "lastMonths"
    BY <1>4, <1>10, OneWord
  <2> QED  BY <2>1, <2>2, <2>3
<1> QED
  BY <1>4, <1>8, <1>9, <1>10 DEF tries

\* The period found in a question is the days that every time phrase in it
\* means; none is found only if none is said (periods.py:8).
THEOREM PeriodsAreReadAsMeant ==
  ASSUME NEW text, NEW phrases, Plain(text, phrases), NEW day \in WorkDays
  PROVE  PeriodAsMeant(FindPeriod(text, day), phrases, day)
<1> DEFINE found == FindPeriod(text, day)
           S == Scan(text, day)
           tries == Matches(text)
           F == Full(text, phrases, tries)
<1>1. TextOK(text) /\ IsSequence(text)
  BY DEF Plain, TextOK
<1>2. Len(tries) \in Nat
  BY <1>1, MatchesOrdered
<1>3. TakenApart(text, tries, day, F)
  BY TimesApart
<1>4. SUFFICES ASSUME found # {Refused} PROVE PeriodAsMeant(found, phrases, day)
  <2>1. {Refused} # {}
    OBVIOUS
  <2> QED  BY <2>1 DEF PeriodAsMeant
<1>5. /\ PeriodAlternatives(text, day) = {} /\ found = S
      /\ (\A p \in S : ~Raises(p)) /\ ~(Cardinality(S) > 1)
  BY <1>4, NoRefusalLeft
<1>6. found \subseteq GoodPeriods
  BY <1>1, <1>4, PeriodsAreGood
<1>7. S = UNION {MadeOf(text, tries[j], day) : j \in F}
  BY <1>2, <1>3, <1>5, ScanTakes
<1>8. F \subseteq 1..Len(tries) /\ \A j \in F : One(MadeOf(text, tries[j], day))
  BY <1>3 DEF TakenApart, One
<1>9. IsFiniteSet(S)
  <2> HIDE DEF F, tries, S
  <2> DEFINE n == Len(tries)
  <2>1. n \in Int /\ F \subseteq 1..n
    BY <1>2, <1>8
  <2> HIDE DEF n
  <2>2. IsFiniteSet(1..n)
    BY <2>1, FS_Interval
  <2>3. IsFiniteSet(F)
    BY <2>1, <2>2, FS_Subset
  <2>4. \A j \in F : One(MadeOf(text, tries[j], day))
    BY <1>8
  <2>5. IsFiniteSet(AllMade(text, tries, day, F))
    BY <2>3, <2>4, ScanIsFew
  <2> QED  BY <1>7, <2>5 DEF AllMade
<1>10. ASSUME NEW ph \in TimesIn(phrases)
       PROVE  found # {} /\ \A v \in found : PeriodMeant(ph, v, day)
  <2>1. ph \in phrases /\ ph[1].is \in TimeKinds
    BY DEF TimesIn
  <2>2. PICK j \in F, q \in Numbers :
           /\ MadeOf(text, tries[j], day) = Handler(Patterns[q], ph, day)
           /\ TimeSaid(ph, Patterns[q]) /\ Patterns[q] # <<"lastMonths">>
    BY <1>5, <2>1, TimeIsMade
  <2> HIDE DEF F, tries, found, S
  <2>3. PICK r : MadeOf(text, tries[j], day) = {r}
    BY <1>8 DEF One
  <2>4. r \in S
    BY <1>7, <2>3
  <2>5. S = {r}
    BY <1>5, <1>9, <2>4, OneOrNone
  <2>6. r \in Handler(Patterns[q], ph, day) /\ r \in GoodPeriods
    BY <1>5, <1>6, <2>2, <2>3, <2>4
  <2>7. Patterns[q] \in Shapes
    BY PatternsAre
  <2>8. PeriodMeant(ph, r, day)
    BY <2>2, <2>6, <2>7, ReadAsMeant
  <2> QED  BY <1>5, <2>5, <2>8
<1>11. ASSUME found # {} PROVE TimesIn(phrases) # {}
  <2>1. PICK j \in F : TRUE
    BY <1>5, <1>7, <1>11
  <2>2. PICK ph \in phrases, a \in Nat, p \in Numbers : FullAt(text, tries[j], ph, a, p)
    BY DEF Full
  <2>3. TimeSaid(ph, Patterns[p])
    BY <2>2 DEF FullAt
  <2>4. ph[1].is \in TimeKinds
    BY <2>3, SaidFirst
  <2> QED  BY <2>4 DEF TimesIn
<1> QED
  BY <1>10, <1>11 DEF PeriodAsMeant

-----------------------------------------------------------------------------
(* What the finder of groupings makes of such a question.                    *)

SplitsIn(phrases) == {ph \in phrases : IsSplit(ph)}
GroupingAsMeant(found, phrases) ==
  /\ found = {} => SplitsIn(phrases) = {}
  /\ found # {} /\ found # {Unclear} =>
       /\ SplitsIn(phrases) # {}
       /\ \A ph \in SplitsIn(phrases) : \A v \in found : SplitMeant(ph) = {v}

\* A form of up to four words, word for word.
LEMMA WordsOfForms ==
  ASSUME NEW ph, IsSequence(ph), NEW v, NEW w, NEW x, NEW y
  PROVE  /\ Form(ph) = <<v>> => Len(ph) = 1 /\ ph[1].is = v
         /\ Form(ph) = <<v, w>> => Len(ph) = 2 /\ ph[1].is = v /\ ph[2].is = w
         /\ Form(ph) = <<v, w, x>> => Len(ph) = 3 /\ ph[1].is = v /\ ph[2].is = w /\ ph[3].is = x
         /\ Form(ph) = <<v, w, x, y>> =>
              Len(ph) = 4 /\ ph[1].is = v /\ ph[2].is = w /\ ph[3].is = x /\ ph[4].is = y
<1> DEFINE S == {v, w, x, y}
<1>1. ASSUME Form(ph) = <<v>> PROVE Len(ph) = 1 /\ ph[1].is = v
  <2> DEFINE f == <<v>>
  <2>1. f \in Seq(S) /\ Len(f) = 1 /\ f[1] = v
    OBVIOUS
  <2>2. Form(ph) = f
    BY <1>1
  <2> HIDE DEF f, S
  <2>3. Len(ph) = Len(f) /\ \A i \in 1..Len(f) : ph[i].is = f[i]
    BY <2>1, <2>2, FormIs
  <2> QED  BY <2>1, <2>3
<1>2. ASSUME Form(ph) = <<v, w>> PROVE Len(ph) = 2 /\ ph[1].is = v /\ ph[2].is = w
  <2> DEFINE f == <<v, w>>
  <2>1. f \in Seq(S) /\ Len(f) = 2 /\ f[1] = v /\ f[2] = w
    OBVIOUS
  <2>2. Form(ph) = f
    BY <1>2
  <2> HIDE DEF f, S
  <2>3. Len(ph) = Len(f) /\ \A i \in 1..Len(f) : ph[i].is = f[i]
    BY <2>1, <2>2, FormIs
  <2> QED  BY <2>1, <2>3
<1>3. ASSUME Form(ph) = <<v, w, x>> PROVE Len(ph) = 3 /\ ph[1].is = v /\ ph[2].is = w /\ ph[3].is = x
  <2> DEFINE f == <<v, w, x>>
  <2>1. f \in Seq(S) /\ Len(f) = 3 /\ f[1] = v /\ f[2] = w /\ f[3] = x
    OBVIOUS
  <2>2. Form(ph) = f
    BY <1>3
  <2> HIDE DEF f, S
  <2>3. Len(ph) = Len(f) /\ \A i \in 1..Len(f) : ph[i].is = f[i]
    BY <2>1, <2>2, FormIs
  <2> QED  BY <2>1, <2>3
<1>4. ASSUME Form(ph) = <<v, w, x, y>>
      PROVE  Len(ph) = 4 /\ ph[1].is = v /\ ph[2].is = w /\ ph[3].is = x /\ ph[4].is = y
  <2> DEFINE f == <<v, w, x, y>>
  <2>1. f \in Seq(S) /\ Len(f) = 4 /\ f[1] = v /\ f[2] = w /\ f[3] = x /\ f[4] = y
    OBVIOUS
  <2>2. Form(ph) = f
    BY <1>4
  <2> HIDE DEF f, S
  <2>3. Len(ph) = Len(f) /\ \A i \in 1..Len(f) : ph[i].is = f[i]
    BY <2>1, <2>2, FormIs
  <2> QED  BY <2>1, <2>3
<1> QED
  BY <1>1, <1>2, <1>3, <1>4

\* A phrase in its place, word for word.
LEMMA PlacedWords ==
  ASSUME NEW text, IsSequence(text), NEW ph, IsSequence(ph), NEW a, InPlace(text, ph, a)
  PROVE  /\ a \in Nat /\ Len(ph) \in Nat /\ Len(text) \in Nat
         /\ \A j \in 1..Len(ph) : /\ a + j \in 1..Len(text) /\ text[a + j] = ph[j]
                                  /\ At(text, a + j) = ph[j].is /\ At(ph, j) = ph[j].is
<1>1. Len(text) \in Nat /\ Len(ph) \in Nat
  BY SequenceIsList
<1>2. a \in Nat /\ a + Len(ph) <= Len(text) /\ (\A j \in 1..Len(ph) : text[a + j] = ph[j])
  BY DEF InPlace
<1>3. ASSUME NEW j \in 1..Len(ph)
      PROVE  /\ a + j \in 1..Len(text) /\ text[a + j] = ph[j]
             /\ At(text, a + j) = ph[j].is /\ At(ph, j) = ph[j].is
  <2>1. a + j \in 1..Len(text) /\ text[a + j] = ph[j]
    BY <1>1, <1>2
  <2> QED  BY <2>1 DEF At
<1> QED
  BY <1>1, <1>2, <1>3

\* A word of its own may follow what stands before a name or a value, and no
\* word that goes on about a name stands behind it.
LEMMA BesideNames ==
  ASSUME NEW text, IsSequence(text), NEW ph, IsSequence(ph), Len(ph) # 0, NEW a, InPlace(text, ph, a)
  PROVE  /\ ph[1].is \in {"name", "noun", "value"} => At(text, a) \in Breaks
         /\ ph[Len(ph)].is = "name" => At(text, a + Len(ph) + 1) \notin {"equals", "whole"}
<1>1. ph # <<>>
  OBVIOUS
<1>2. Apart(At(text, a), ph[1].is) /\ Apart(ph[Len(ph)].is, At(text, a + Len(ph) + 1))
  BY <1>1, Beside
<1>3. \A l : \A w \in {"name", "noun", "value"} : Apart(l, w) => l \in Breaks
  BY DEF Apart, Opening, Breaks
<1>4. \A w : Apart("name", w) => w \notin {"equals", "whole"}
  BY DEF Apart, Opening, Breaks
<1> QED
  BY <1>2, <1>3, <1>4

\* The kinds of words in a phrase.
LEMMA KindsAre ==
  ASSUME NEW ph, IsSequence(ph)
  PROVE  /\ DOMAIN ph = 1..Len(ph)
         /\ \A k : k \in Kinds(ph) <=> \E j \in 1..Len(ph) : ph[j].is = k
<1>1. DOMAIN ph = 1..Len(ph)
  BY SequenceIsList
<1> QED
  BY <1>1 DEF Kinds

\* The words of a text belong to its phrases.
LEMMA WordsBelong ==
  ASSUME NEW text, NEW phrases, Plain(text, phrases), NEW i \in 1..Len(text)
  PROVE  \E ph \in phrases, a \in Nat : \E j \in 1..Len(ph) :
           /\ InPlace(text, ph, a) /\ i = a + j /\ ph[j] = text[i]
           /\ PhraseOK(ph) /\ IsSequence(ph)
<1>1. PICK ph \in phrases, a \in Nat : InPlace(text, ph, a) /\ a < i /\ i <= a + Len(ph)
  BY DEF Plain, Phrased
<1>2. PhraseOK(ph) /\ IsSequence(ph)
  BY DEF Plain, PhraseOK
<1>3. Len(ph) \in Nat
  BY <1>2, SequenceIsList
<1>4. Len(text) \in Nat
  BY SequenceIsList DEF Plain, TextOK
<1> DEFINE j == i - a
<1>5. j \in 1..Len(ph) /\ i = a + j
  BY <1>1, <1>3, <1>4
<1>6. ph[j] = text[i]
  BY <1>1, <1>5 DEF InPlace
<1> QED
  BY <1>1, <1>2, <1>5, <1>6

\* Every phrase has its place.
LEMMA PhrasesHavePlaces ==
  ASSUME NEW text, NEW phrases, Plain(text, phrases), NEW ph \in phrases
  PROVE  /\ \E a \in Nat : InPlace(text, ph, a)
         /\ PhraseOK(ph) /\ IsSequence(ph) /\ ph # <<>>
BY DEF Plain, Phrased, PhraseOK

ValueWords == {"value", "name", "noun", "equals", "join"}

\* The words of the forms that name a value.
LEMMA ValueForms ==
  ASSUME NEW ph, IsSequence(ph), ValuePhrase(ph)
  PROVE  \A j \in 1..Len(ph) : ph[j].is \in ValueWords
<1> DEFINE W == ValueWords
<1>1. {"value", "name", "noun", "equals", "join"} \subseteq W
  BY DEF ValueWords
<1> HIDE DEF W
<1>2. /\ <<"value", "name">> \in Seq(W) /\ <<"noun", "name">> \in Seq(W)
      /\ <<"name", "equals", "value">> \in Seq(W) /\ <<"name", "equals", "noun">> \in Seq(W)
      /\ <<"value", "join", "value", "name">> \in Seq(W)
  BY <1>1
<1>3. Form(ph) \in Seq(W)
  BY <1>2 DEF ValuePhrase
<1>4. \A j \in 1..Len(ph) : ph[j].is \in W
  BY <1>3, FormWords
<1> QED
  BY <1>4 DEF W

\* The words of the forms that name a distribution.
LEMMA WholeForms ==
  ASSUME NEW ph, IsSequence(ph), WholePhrase(ph)
  PROVE  \A j \in 1..Len(ph) : ph[j].is \in {"name", "whole", "value", "noun"}
<1> DEFINE W == {"name", "whole", "value", "noun"}
<1>1. {"name", "whole", "value", "noun"} \subseteq W
  OBVIOUS
<1> HIDE DEF W
<1>2. /\ <<"name">> \in Seq(W) /\ <<"name", "whole">> \in Seq(W)
      /\ <<"value", "name", "whole">> \in Seq(W) /\ <<"noun", "name", "whole">> \in Seq(W)
  BY <1>1
<1>3. Form(ph) \in Seq(W)
  BY <1>2 DEF WholePhrase
<1>4. \A j \in 1..Len(ph) : ph[j].is \in W
  BY <1>3, FormWords
<1> QED
  BY <1>4 DEF W

\* A phrase that says a time has no other words.
LEMMA TimeForms ==
  ASSUME NEW ph, IsSequence(ph), TimePhrase(ph)
  PROVE  \A j \in 1..Len(ph) : ph[j].is \in TimeWords \cup {"to", "day"}
<1>1. PICK q \in DOMAIN Patterns : Form(ph) = Patterns[q]
  BY DEF TimePhrase
<1>2. Form(ph) \in Shapes
  BY <1>1, ShapesListed DEF Shapes, Patterns
<1> DEFINE W == TimeWords \cup {"to", "day"}
<1>3. {"iso", "year", "isoMonth", "lastDays", "lastMonths", "prevMonth", "thisMonth", "prevWeek",
       "thisWeek", "prevYear", "thisYear", "daysAgo", "month", "to", "day"} \subseteq W
  BY DEF TimeWords
<1> HIDE DEF W
<1>4. /\ <<"iso", "to", "iso">> \in Seq(W) /\ <<"year", "month", "day">> \in Seq(W)
      /\ <<"year", "month">> \in Seq(W) /\ <<"iso">> \in Seq(W) /\ <<"isoMonth">> \in Seq(W)
      /\ <<"lastDays">> \in Seq(W) /\ <<"lastMonths">> \in Seq(W) /\ <<"prevMonth">> \in Seq(W)
  BY <1>3
<1>5. /\ <<"thisMonth">> \in Seq(W) /\ <<"prevWeek">> \in Seq(W) /\ <<"thisWeek">> \in Seq(W)
      /\ <<"prevYear">> \in Seq(W) /\ <<"thisYear">> \in Seq(W) /\ <<"daysAgo">> \in Seq(W)
      /\ <<"month">> \in Seq(W)
  BY <1>3
<1>6. Shapes \subseteq Seq(W)
  BY <1>4, <1>5, ShapesListed, Zenon
<1>7. Form(ph) \in Seq(W)
  BY <1>2, <1>6
<1>8. \A j \in 1..Len(ph) : ph[j].is \in W
  BY <1>7, FormWords
<1> QED
  BY <1>8 DEF W

\* The forms of a phrase that splits, and what it asks for.
LEMMA SplitForms ==
  ASSUME NEW ph, PhraseOK(ph), IsSplit(ph)
  PROVE  SplitPhrase(ph)
<1>1. IsSequence(ph)
  BY DEF PhraseOK
<1>2. PICK j \in 1..Len(ph) : ph[j].is \in {"grain", "split", "unsupported"}
  BY <1>1, KindsAre DEF IsSplit
<1>3. ~TimePhrase(ph)
  BY <1>1, <1>2, TimeForms DEF TimeWords
<1>4. ~ValuePhrase(ph)
  BY <1>1, <1>2, ValueForms DEF ValueWords
<1>5. ~WholePhrase(ph)
  BY <1>1, <1>2, WholeForms
<1>6. ~OtherPhrase(ph)
  BY <1>1, <1>2, KindsAre DEF OtherPhrase
<1> QED
  BY <1>3, <1>4, <1>5, <1>6 DEF PhraseOK

SaysSplit(ph) ==
  \/ Len(ph) = 1 /\ ph[1].is = "grain" /\ SplitMeant(ph) = {<<ph[1].grain>>}
  \/ Len(ph) = 1 /\ ph[1].is = "unsupported"
  \/ Len(ph) = 2 /\ ph[1].is = "split" /\ ph[2].is = "name" /\ SplitMeant(ph) = {ByDim(ph[2].dim)}
  \/ /\ Len(ph) = 3 /\ ph[1].is = "split" /\ ph[2].is = "noun"
     /\ ph[3].is \in {"of", "into"} /\ ph[3].is = ph[1].closes

\* A phrase that splits asks for one split, and is a phrase that splits.
LEMMA SplitSaid ==
  ASSUME NEW ph, IsSequence(ph), SplitPhrase(ph)
  PROVE  SaysSplit(ph)
<1>1. DOMAIN ph = 1..Len(ph) /\ \A j \in 1..Len(ph) : At(ph, j) = ph[j].is
  BY SequenceIsList DEF At
<1>2. CASE Form(ph) = <<"grain">>
  <2>1. Len(ph) = 1 /\ ph[1].is = "grain"
    BY <1>2, WordsOfForms
  <2>2. DOMAIN ph = {1} /\ At(ph, 1) = "grain"
    BY <1>1, <2>1
  <2>3. {j \in DOMAIN ph : At(ph, j) = "grain"} = {1} /\ {j \in DOMAIN ph : At(ph, j) = "name"} = {}
    BY <2>2
  <2>4. Kinds(ph) \cap {"noun", "unsupported"} = {}
    BY <2>1, <2>2 DEF Kinds
  <2>5. SplitMeant(ph) = {<<ph[1].grain>>}
    BY <2>3, <2>4 DEF SplitMeant
  <2> QED  BY <2>1, <2>5 DEF SaysSplit
<1>3. CASE Form(ph) = <<"unsupported">>
  <2>1. Len(ph) = 1 /\ ph[1].is = "unsupported"
    BY <1>3, WordsOfForms
  <2> QED  BY <2>1 DEF SaysSplit
<1>4. CASE Form(ph) = <<"split", "name">>
  <2>1. Len(ph) = 2 /\ ph[1].is = "split" /\ ph[2].is = "name"
    BY <1>4, WordsOfForms
  <2>2. DOMAIN ph = {1, 2} /\ At(ph, 1) = "split" /\ At(ph, 2) = "name"
    BY <1>1, <2>1
  <2>3. {j \in DOMAIN ph : At(ph, j) = "grain"} = {} /\ {j \in DOMAIN ph : At(ph, j) = "name"} = {2}
    BY <2>2
  <2>4. Kinds(ph) \cap {"noun", "unsupported"} = {}
    BY <2>1, <2>2 DEF Kinds
  <2>5. SplitMeant(ph) = {ByDim(ph[2].dim)}
    BY <2>3, <2>4 DEF SplitMeant
  <2> QED  BY <2>1, <2>5 DEF SaysSplit
<1>5. CASE /\ Form(ph) \in {<<"split", "noun", "of">>, <<"split", "noun", "into">>}
           /\ ph[1].closes = ph[3].is
  <2>1. PICK w \in {"of", "into"} : Form(ph) = <<"split", "noun", w>>
    BY <1>5
  <2>2. Len(ph) = 3 /\ ph[1].is = "split" /\ ph[2].is = "noun" /\ ph[3].is = w
    BY <2>1, WordsOfForms
  <2> QED  BY <1>5, <2>2 DEF SaysSplit
<1> QED
  BY <1>2, <1>3, <1>4, <1>5 DEF SplitPhrase

GrainsSaid(text) == {<<text[i].grain>> : i \in {j \in 1..Len(text) : At(text, j) = "grain"}}
DimsSaid(text) == {ByDim(text[i + 1].dim) : i \in DimSplits(text)}
SplitsSaid(text) == GrainsSaid(text) \cup DimsSaid(text)

LEMMA OneOfIs ==
  ASSUME NEW M, IsFiniteSet(M), OneOf(M) # {Unclear}
  PROVE  OneOf(M) = M /\ Unclear \notin M /\ \A v \in M : M = {v}
<1>1. OneOf(M) = M /\ ~(Cardinality(M) > 1) /\ Unclear \notin M
  BY DEF OneOf
<1> QED
  BY <1>1, OneOrNone

\* A text says finitely many splits.
LEMMA FewSplitsSaid ==
  ASSUME NEW text, IsSequence(text)
  PROVE  IsFiniteSet(SplitsSaid(text))
<1>1. IsFiniteSet(1..Len(text))
  BY SequenceIsList, FS_Interval
<1>2. IsFiniteSet(GrainsSaid(text))
  <2> DEFINE S == {j \in 1..Len(text) : At(text, j) = "grain"}
             h(i) == <<text[i].grain>>
             g == [i \in S |-> h(i)]
  <2>1. IsFiniteSet(S)
    BY <1>1, FS_Subset
  <2> HIDE DEF S, h
  <2>2. DOMAIN g = S /\ g = [i \in S |-> g[i]] /\ {g[i] : i \in S} = {h(i) : i \in S}
    OBVIOUS
  <2> HIDE DEF g
  <2>3. IsFiniteSet({h(i) : i \in S})
    BY <2>1, <2>2, FiniteImage
  <2> QED  BY <2>3 DEF S, h, GrainsSaid
<1>3. IsFiniteSet(DimsSaid(text))
  <2> DEFINE S == DimSplits(text)
             h(i) == ByDim(text[i + 1].dim)
             g == [i \in S |-> h(i)]
  <2>1. IsFiniteSet(S)
    BY <1>1, FS_Subset DEF DimSplits
  <2> HIDE DEF S, h
  <2>2. DOMAIN g = S /\ g = [i \in S |-> g[i]] /\ {g[i] : i \in S} = {h(i) : i \in S}
    OBVIOUS
  <2> HIDE DEF g
  <2>3. IsFiniteSet({h(i) : i \in S})
    BY <2>1, <2>2, FiniteImage
  <2> QED  BY <2>3 DEF S, h, DimsSaid
<1> QED
  BY <1>2, <1>3, FS_Union DEF SplitsSaid

\* A grouping that was found is the only split said.
LEMMA GroupingFound ==
  ASSUME NEW text, IsSequence(text), FindGrouping(text) # {Unclear}
  PROVE  /\ UndeclaredSplits(text) = {} /\ \A i \in 1..Len(text) : At(text, i) # "unsupported"
         /\ FindGrouping(text) = SplitsSaid(text)
         /\ \A v \in SplitsSaid(text) : SplitsSaid(text) = {v}
<1>1. IsFiniteSet(SplitsSaid(text))
  BY FewSplitsSaid
<1>2. FindGrouping(text)
        = IF UndeclaredSplits(text) # {} \/ \E i \in 1..Len(text) : At(text, i) = "unsupported"
          THEN {Unclear} ELSE OneOf(SplitsSaid(text))
  BY DEF FindGrouping, SplitsSaid, GrainsSaid, DimsSaid
<1>3. /\ UndeclaredSplits(text) = {} /\ \A i \in 1..Len(text) : At(text, i) # "unsupported"
      /\ FindGrouping(text) = OneOf(SplitsSaid(text))
  BY <1>2
<1> QED
  BY <1>1, <1>3, OneOfIs

\* What a phrase that splits asks for is among the splits said.
LEMMA SplitIsFound ==
  ASSUME NEW text, NEW phrases, Plain(text, phrases), FindGrouping(text) # {Unclear},
         NEW ph \in phrases, IsSplit(ph)
  PROVE  \E v \in SplitsSaid(text) : SplitMeant(ph) = {v}
<1>1. IsSequence(text)
  BY DEF Plain, TextOK
<1>3. PhraseOK(ph) /\ IsSequence(ph) /\ \E a \in Nat : InPlace(text, ph, a)
  BY PhrasesHavePlaces
<1>4. PICK a \in Nat : InPlace(text, ph, a)
  BY <1>3
<1>5. SaysSplit(ph)
  BY <1>3, SplitForms, SplitSaid
<1>6. \A j \in 1..Len(ph) : /\ a + j \in 1..Len(text) /\ text[a + j] = ph[j]
                            /\ At(text, a + j) = ph[j].is
  BY <1>1, <1>3, <1>4, PlacedWords
<1>7. UndeclaredSplits(text) = {} /\ \A i \in 1..Len(text) : At(text, i) # "unsupported"
  BY <1>1, GroupingFound
<1>8. CASE Len(ph) = 1 /\ ph[1].is = "grain" /\ SplitMeant(ph) = {<<ph[1].grain>>}
  <2>1. a + 1 \in 1..Len(text) /\ text[a + 1] = ph[1] /\ At(text, a + 1) = "grain"
    BY <1>6, <1>8
  <2>2. <<ph[1].grain>> \in GrainsSaid(text)
    BY <2>1 DEF GrainsSaid
  <2> QED  BY <1>8, <2>2 DEF SplitsSaid
<1>9. CASE Len(ph) = 1 /\ ph[1].is = "unsupported"
  <2>1. a + 1 \in 1..Len(text) /\ At(text, a + 1) = "unsupported"
    BY <1>6, <1>9
  <2> QED  BY <1>7, <2>1
<1>10. CASE Len(ph) = 2 /\ ph[1].is = "split" /\ ph[2].is = "name" /\ SplitMeant(ph) = {ByDim(ph[2].dim)}
  <2>1. a + 1 \in 1..Len(text) /\ At(text, a + 1) = "split"
    BY <1>6, <1>10
  <2>2. text[a + 2] = ph[2] /\ At(text, a + 2) = "name" /\ (a + 1) + 1 = a + 2
    BY <1>6, <1>10
  <2>3. a + 1 \in DimSplits(text)
    BY <2>1, <2>2 DEF DimSplits
  <2> DEFINE i == a + 1
  <2>4. i \in DimSplits(text) /\ text[i + 1] = ph[2]
    BY <2>2, <2>3
  <2> HIDE DEF i
  <2>5. ByDim(ph[2].dim) \in DimsSaid(text)
    BY <2>4 DEF DimsSaid
  <2> QED  BY <1>10, <2>5 DEF SplitsSaid
<1>11. CASE Len(ph) = 3 /\ ph[1].is = "split" /\ ph[2].is = "noun" /\ ph[3].is = ph[1].closes
  <2>1. a + 1 \in 1..Len(text) /\ At(text, a + 1) = "split" /\ text[a + 1] = ph[1]
    BY <1>6, <1>11
  <2>2. At(text, a + 2) = "noun" /\ (a + 1) + 1 = a + 2
    BY <1>6, <1>11
  <2>3. At(text, a + 3) = ph[1].closes /\ (a + 1) + 2 = a + 3
    BY <1>6, <1>11
  <2>4. a + 1 \in UndeclaredSplits(text)
    BY <2>1, <2>2, <2>3 DEF UndeclaredSplits
  <2> QED  BY <1>7, <2>4
<1> QED
  BY <1>5, <1>8, <1>9, <1>10, <1>11 DEF SaysSplit

\* The split found in a question is the one every splitting phrase in it means;
\* none is found only if none is asked for (builder.py:87).
THEOREM GroupingsAreReadAsMeant ==
  ASSUME NEW text, NEW phrases, Plain(text, phrases)
  PROVE  GroupingAsMeant(FindGrouping(text), phrases)
<1> DEFINE found == FindGrouping(text)
<1>1. IsSequence(text)
  BY DEF Plain, TextOK
<1>2. SUFFICES ASSUME found # {Unclear} PROVE GroupingAsMeant(found, phrases)
  <2>1. {Unclear} # {}
    OBVIOUS
  <2> QED  BY <2>1 DEF GroupingAsMeant
<1>3. found = SplitsSaid(text) /\ \A v \in SplitsSaid(text) : SplitsSaid(text) = {v}
  BY <1>1, <1>2, GroupingFound
<1>4. ASSUME NEW ph \in SplitsIn(phrases)
      PROVE  found # {} /\ \A v \in found : SplitMeant(ph) = {v}
  <2>1. PICK w \in SplitsSaid(text) : SplitMeant(ph) = {w}
    BY <1>2, SplitIsFound DEF SplitsIn
  <2> HIDE DEF found
  <2>2. found = {w}
    BY <1>3, <2>1
  <2> QED  BY <2>1, <2>2
<1>5. ASSUME found # {} PROVE SplitsIn(phrases) # {}
  <2>1. PICK i \in 1..Len(text) : At(text, i) \in {"grain", "split"}
    BY <1>3, <1>5 DEF SplitsSaid, GrainsSaid, DimsSaid, DimSplits
  <2>2. text[i].is \in {"grain", "split"}
    BY <2>1 DEF At
  <2>3. PICK ph \in phrases, a \in Nat : \E j \in 1..Len(ph) :
           /\ InPlace(text, ph, a) /\ i = a + j /\ ph[j] = text[i]
           /\ PhraseOK(ph) /\ IsSequence(ph)
    BY WordsBelong
  <2>4. PICK j \in 1..Len(ph) : ph[j] = text[i] /\ IsSequence(ph)
    BY <2>3
  <2>5. IsSplit(ph)
    BY <2>2, <2>4, KindsAre DEF IsSplit
  <2> QED  BY <2>5 DEF SplitsIn
<1> QED
  BY <1>4, <1>5 DEF GroupingAsMeant

-----------------------------------------------------------------------------
(* What the finder of filters makes of it.                                   *)

\* A word that names a value of a dimension.
LEMMA NamesAre ==
  ASSUME NEW text, NEW i, NEW d, Names(text, i, d)
  PROVE  At(text, i) = "value" /\ text[i].dim = d /\ text[i].value \in Dims[d].values
  BY DEF Names

\* The values before a name, by the words there.
LEMMA NoneBefore ==
  ASSUME NEW text, NEW i \in Nat, NEW d, ~Names(text, i - 1, d)
  PROVE  Before(text, i, d) = {}
<1> DEFINE joined == {j \in 1..(i - 1) :
                       \A k \in j..(i - 1) :
                         IF (i - k) % 2 = 1 THEN Names(text, k, d) ELSE At(text, k) = "join"}
<1>1. ASSUME NEW j \in joined PROVE FALSE
  <2>1. i - 1 \in j..(i - 1) /\ (i - (i - 1)) % 2 = 1
    OBVIOUS
  <2> QED  BY <2>1
<1>2. Before(text, i, d) = {text[k].value : k \in {j \in joined : (i - j) % 2 = 1}}
  BY DEF Before
<1> HIDE DEF joined
<1> QED
  BY <1>1, <1>2

LEMMA OneBefore ==
  ASSUME NEW text, NEW i \in Nat, i > 1, NEW d, Names(text, i - 1, d), At(text, i - 2) # "join"
  PROVE  Before(text, i, d) = {text[i - 1].value}
<1> DEFINE joined == {j \in 1..(i - 1) :
                       \A k \in j..(i - 1) :
                         IF (i - k) % 2 = 1 THEN Names(text, k, d) ELSE At(text, k) = "join"}
<1>1. ASSUME NEW j \in joined PROVE j = i - 1
  <2>1. SUFFICES ASSUME j # i - 1 PROVE FALSE
    OBVIOUS
  <2>2. i - 2 \in j..(i - 1) /\ (i - (i - 2)) % 2 = 0
    BY <2>1
  <2> QED  BY <2>2
<1>2. i - 1 \in joined
  <2>1. (i - (i - 1)) % 2 = 1 /\ i - 1 \in 1..(i - 1) /\ \A k \in (i - 1)..(i - 1) : k = i - 1
    OBVIOUS
  <2> QED  BY <2>1
<1>3. Before(text, i, d) = {text[k].value : k \in {j \in joined : (i - j) % 2 = 1}}
  BY DEF Before
<1>4. (i - (i - 1)) % 2 = 1
  OBVIOUS
<1> HIDE DEF joined
<1>5. {j \in joined : (i - j) % 2 = 1} = {i - 1}
  BY <1>1, <1>2, <1>4
<1> QED
  BY <1>3, <1>5

LEMMA TwoBefore ==
  ASSUME NEW text, NEW i \in Nat, i > 3, NEW d, Names(text, i - 1, d), At(text, i - 2) = "join",
         Names(text, i - 3, d), At(text, i - 4) # "join"
  PROVE  Before(text, i, d) = {text[i - 1].value, text[i - 3].value}
<1> DEFINE Fits1(k) == IF (i - k) % 2 = 1 THEN Names(text, k, d) ELSE At(text, k) = "join"
           joined == {j \in 1..(i - 1) : \A k \in j..(i - 1) : Fits1(k)}
<1>1. ASSUME NEW j \in joined PROVE j \in {i - 3, i - 2, i - 1}
  <2>1. SUFFICES ASSUME j < i - 3 PROVE FALSE
    OBVIOUS
  <2>2. i - 4 \in j..(i - 1) /\ (i - (i - 4)) % 2 = 0
    BY <2>1
  <2> QED  BY <2>2
<1>2. (i - (i - 1)) % 2 = 1 /\ (i - (i - 2)) % 2 = 0 /\ (i - (i - 3)) % 2 = 1
  OBVIOUS
<1>3. Fits1(i - 1) /\ Fits1(i - 2) /\ Fits1(i - 3)
  BY <1>2
<1> HIDE DEF Fits1
<1>4. i - 1 \in joined /\ i - 3 \in joined
  <2>1. \A k \in (i - 1)..(i - 1) : k = i - 1
    OBVIOUS
  <2>2. \A k \in (i - 3)..(i - 1) : k = i - 1 \/ k = i - 2 \/ k = i - 3
    OBVIOUS
  <2> QED  BY <1>3, <2>1, <2>2
<1>5. Before(text, i, d) = {text[k].value : k \in {j \in joined : (i - j) % 2 = 1}}
  BY DEF Before, Fits1
<1> HIDE DEF joined
<1>6. {j \in joined : (i - j) % 2 = 1} = {i - 1, i - 3}
  BY <1>1, <1>2, <1>4
<1> QED
  BY <1>5, <1>6

LEMMA FewCounted ==
  ASSUME NEW v, NEW w
  PROVE  /\ ~(Cardinality({}) > 1) /\ ~(Cardinality({v}) > 1)
         /\ v # w => Cardinality({v, w}) > 1
<1>1. Cardinality({}) = 0 /\ IsFiniteSet({v}) /\ Cardinality({v}) = 1
  BY FS_EmptySet, FS_Singleton
<1>2. ASSUME v # w PROVE Cardinality({v, w}) > 1
  <2>1. w \notin {v} /\ {v} \cup {w} = {v, w}
    BY <1>2
  <2>2. Cardinality({v} \cup {w}) = Cardinality({v}) + 1
    BY <1>1, <2>1, FS_AddElement
  <2> QED  BY <1>1, <2>1, <2>2
<1> QED
  BY <1>1, <1>2

AfterIt(text, i) == At(text, i + 1) = "equals" /\ At(text, i + 2) \notin {"end", "of", "text"}
BeforeIt(text, i, d) == IF At(text, i + 1) # "whole" THEN Before(text, i, d) ELSE {}

\* What a naming restricts to, on the words around it.
LEMMA RestrictionIs ==
  ASSUME NEW text, NEW i, NEW d
  PROVE  Restriction(text, i, d)
           = IF \/ Cardinality(BeforeIt(text, i, d)) > 1
                \/ AfterIt(text, i) /\ ~Names(text, i + 2, d)
                \/ At(text, i + 1) # "whole" /\ Undeclared(text, i, d)
             THEN {Unclear}
             ELSE {Only(d, v) : v \in BeforeIt(text, i, d)}
                  \cup (IF AfterIt(text, i) THEN {Only(d, text[i + 2].value)} ELSE {})
  BY DEF Restriction, BeforeIt, AfterIt

\* The restrictions of the forms a phrase with a name may have.
LEMMA NotRestricted ==
  ASSUME NEW text, NEW i \in Nat, NEW d,
         \/ At(text, i + 1) = "whole"
         \/ At(text, i + 1) # "equals" /\ At(text, i - 1) \notin {"noun", "value"}
  PROVE  Restriction(text, i, d) = {}
<1>1. ~AfterIt(text, i)
  BY DEF AfterIt
<1>2. BeforeIt(text, i, d) = {}
  <2>1. CASE At(text, i + 1) = "whole"
    BY <2>1 DEF BeforeIt
  <2>2. CASE At(text, i - 1) \notin {"noun", "value"}
    <3>1. ~Names(text, i - 1, d)
      BY <2>2 DEF Names
    <3> QED  BY <3>1, NoneBefore DEF BeforeIt
  <2> QED  BY <2>1, <2>2
<1>3. ~(At(text, i + 1) # "whole" /\ Undeclared(text, i, d))
  BY DEF Undeclared
<1>4. ~(Cardinality(BeforeIt(text, i, d)) > 1)
  BY <1>2, FewCounted
<1> QED
  BY <1>1, <1>2, <1>3, <1>4, RestrictionIs

\* One value or undeclared word before the name, or behind the equals sign.
LEMMA WordBefore ==
  ASSUME NEW text, NEW i \in Nat, i > 1, NEW d, At(text, i + 1) \notin {"equals", "whole"},
         At(text, i - 1) \in {"noun", "value"}, At(text, i - 2) \in Breaks
  PROVE  Restriction(text, i, d)
           = IF Names(text, i - 1, d) THEN {Only(d, text[i - 1].value)} ELSE {Unclear}
<1>1. ~AfterIt(text, i) /\ At(text, i + 1) # "whole"
  BY DEF AfterIt
<1>2. CASE ~Names(text, i - 1, d)
  <2>1. Undeclared(text, i, d)
    BY <1>2 DEF Undeclared, Breaks
  <2> QED  BY <1>1, <1>2, <2>1, RestrictionIs
<1>3. CASE Names(text, i - 1, d)
  <2>1. ~Undeclared(text, i, d)
    BY <1>3 DEF Undeclared
  <2>2. At(text, i - 2) # "join"
    BY DEF Breaks
  <2>3. BeforeIt(text, i, d) = {text[i - 1].value}
    BY <1>1, <1>3, <2>2, OneBefore DEF BeforeIt
  <2>4. ~(Cardinality(BeforeIt(text, i, d)) > 1)
    BY <2>3, FewCounted
  <2> QED  BY <1>1, <1>3, <2>1, <2>3, <2>4, RestrictionIs
<1> QED
  BY <1>2, <1>3

LEMMA WordAfter ==
  ASSUME NEW text, NEW i \in Nat, NEW d, At(text, i + 1) = "equals",
         At(text, i + 2) \in {"noun", "value"}, At(text, i - 1) \in Breaks
  PROVE  Restriction(text, i, d)
           = IF Names(text, i + 2, d) THEN {Only(d, text[i + 2].value)} ELSE {Unclear}
<1>1. AfterIt(text, i)
  BY DEF AfterIt
<1>2. ~Names(text, i - 1, d) /\ ~Undeclared(text, i, d)
  BY DEF Names, Undeclared, Breaks
<1>3. BeforeIt(text, i, d) = {}
  BY <1>2, NoneBefore DEF BeforeIt
<1>4. ~(Cardinality(BeforeIt(text, i, d)) > 1)
  BY <1>3, FewCounted
<1> QED
  BY <1>1, <1>2, <1>3, <1>4, RestrictionIs

\* Two joined values before the name.
LEMMA TwoWordsBefore ==
  ASSUME NEW text, NEW i \in Nat, i > 3, NEW d, At(text, i + 1) \notin {"equals", "whole"},
         Names(text, i - 1, d), At(text, i - 2) = "join", Names(text, i - 3, d),
         At(text, i - 4) \in Breaks
  PROVE  Restriction(text, i, d)
           = IF text[i - 1].value = text[i - 3].value THEN {Only(d, text[i - 1].value)} ELSE {Unclear}
<1> DEFINE v == text[i - 1].value
           w == text[i - 3].value
<1>1. ~AfterIt(text, i) /\ At(text, i + 1) # "whole"
  BY DEF AfterIt
<1>2. ~Undeclared(text, i, d) /\ At(text, i - 4) # "join"
  BY DEF Undeclared, Breaks
<1>3. BeforeIt(text, i, d) = {v, w}
  BY <1>1, <1>2, TwoBefore DEF BeforeIt
<1> HIDE DEF v, w
<1>4. CASE v = w
  <2>1. BeforeIt(text, i, d) = {v}
    BY <1>3, <1>4
  <2>2. ~(Cardinality(BeforeIt(text, i, d)) > 1)
    BY <2>1, FewCounted
  <2>3. Restriction(text, i, d) = {Only(d, v)}
    BY <1>1, <1>2, <2>1, <2>2, RestrictionIs
  <2> QED  BY <1>4, <2>3 DEF v, w
<1>5. CASE v # w
  <2>1. Cardinality(BeforeIt(text, i, d)) > 1
    BY <1>3, <1>5, FewCounted
  <2>2. Restriction(text, i, d) = {Unclear}
    BY <2>1, RestrictionIs
  <2> QED  BY <1>5, <2>2 DEF v, w
<1> QED
  BY <1>4, <1>5

RestrictedAs(R, ph) ==
  IF Restricting(ph) THEN R = {Unclear} \/ (R = ValuesMeant(ph) /\ One(R)) ELSE R = {}

LEMMA RestrictedToOne ==
  ASSUME NEW R, NEW ph, Restricting(ph), NEW x, R = {x}, x = Unclear \/ ValuesMeant(ph) = {x}
  PROVE  RestrictedAs(R, ph)
<1>1. One(R)
  BY DEF One
<1> QED
  BY <1>1 DEF RestrictedAs

\* A distribution over a dimension restricts nothing.
LEMMA WholeRestricts ==
  ASSUME NEW text, IsSequence(text), NEW ph, IsSequence(ph), WholePhrase(ph),
         NEW a \in Nat, InPlace(text, ph, a), NEW j \in 1..Len(ph), ph[j].is = "name"
  PROVE  ~Restricting(ph) /\ RestrictedAs(Restriction(text, a + j, ph[j].dim), ph)
<1> DEFINE i == a + j
<1>1. \A k \in 1..Len(ph) : /\ a + k \in 1..Len(text) /\ text[a + k] = ph[k]
                            /\ At(text, a + k) = ph[k].is /\ At(ph, k) = ph[k].is
  BY PlacedWords
<1>2. Len(ph) \in Nat
  BY PlacedWords
<1>3. /\ ~Restricting(ph)
      /\ \/ At(text, i + 1) = "whole"
         \/ At(text, i + 1) # "equals" /\ At(text, i - 1) \notin {"noun", "value"}
  <2>1. CASE Form(ph) = <<"name">>
    <3>1. Len(ph) = 1 /\ ph[1].is = "name"
      BY <2>1, WordsOfForms
    <3>2. j = 1 /\ i = a + 1
      BY <3>1
    <3>3. At(text, i + 1) # "equals" /\ At(text, i - 1) \notin {"noun", "value"}
      <4>1. At(text, a + Len(ph) + 1) \notin {"equals", "whole"} /\ At(text, a) \in Breaks
        BY <3>1, BesideNames
      <4>2. At(text, i + 1) # "equals" /\ At(text, i - 1) \in Breaks
        BY <3>1, <3>2, <4>1
      <4> QED  BY <4>2 DEF Breaks
    <3>4. ValuesMeant(ph) = {}
      <4>1. DOMAIN ph = {1} /\ At(ph, 1) = "name"
        BY <1>1, <3>1, KindsAre
      <4>2. {k \in DOMAIN ph : At(ph, k) = "value"} = {}
        BY <4>1
      <4>3. "noun" \notin Kinds(ph)
        BY <3>1, <4>1 DEF Kinds
      <4> QED  BY <4>2, <4>3 DEF ValuesMeant
    <3> QED  BY <3>3, <3>4 DEF Restricting
  <2>2. CASE Form(ph) = <<"name", "whole">>
    <3>1. Len(ph) = 2 /\ ph[1].is = "name" /\ ph[2].is = "whole"
      BY <2>2, WordsOfForms
    <3>2. j = 1 /\ i + 1 = a + 2
      BY <3>1
    <3>3. At(text, i + 1) = "whole"
      BY <1>1, <3>1, <3>2
    <3>4. "whole" \in Kinds(ph)
      BY <3>1, KindsAre
    <3>5. ~Restricting(ph)
      BY <3>4 DEF Restricting
    <3> QED  BY <3>3, <3>5
  <2>3. CASE Form(ph) \in {<<"value", "name", "whole">>, <<"noun", "name", "whole">>}
    <3>1. PICK w \in {"value", "noun"} : Form(ph) = <<w, "name", "whole">>
      BY <2>3
    <3>2. Len(ph) = 3 /\ ph[1].is = w /\ ph[2].is = "name" /\ ph[3].is = "whole"
      BY <3>1, WordsOfForms
    <3>3. j = 2 /\ i + 1 = a + 3
      BY <3>1, <3>2
    <3>4. At(text, i + 1) = "whole"
      BY <1>1, <3>2, <3>3
    <3>5. "whole" \in Kinds(ph)
      BY <3>2, KindsAre
    <3>6. ~Restricting(ph)
      BY <3>5 DEF Restricting
    <3> QED  BY <3>4, <3>6
  <2> QED  BY <2>1, <2>2, <2>3 DEF WholePhrase
<1>4. i \in Nat
  OBVIOUS
<1> HIDE DEF i
<1>5. Restriction(text, i, ph[j].dim) = {}
  BY <1>3, <1>4, NotRestricted
<1> QED
  BY <1>3, <1>5 DEF RestrictedAs, i

\* A split by a dimension restricts nothing.
LEMMA SplitRestricts ==
  ASSUME NEW text, IsSequence(text), NEW ph, IsSequence(ph), SplitPhrase(ph),
         NEW a \in Nat, InPlace(text, ph, a), NEW j \in 1..Len(ph), ph[j].is = "name"
  PROVE  ~Restricting(ph) /\ RestrictedAs(Restriction(text, a + j, ph[j].dim), ph)
<1> DEFINE i == a + j
<1>1. \A k \in 1..Len(ph) : /\ a + k \in 1..Len(text) /\ text[a + k] = ph[k]
                            /\ At(text, a + k) = ph[k].is /\ At(ph, k) = ph[k].is
  BY PlacedWords
<1>2. SaysSplit(ph)
  BY SplitSaid
<1>4. Len(ph) = 2 /\ ph[1].is = "split" /\ ph[2].is = "name"
  <2>1. ASSUME Len(ph) = 1 PROVE j = 1
    BY <2>1
  <2>2. ASSUME Len(ph) = 3 PROVE j = 1 \/ j = 2 \/ j = 3
    BY <2>2
  <2> QED  BY <1>2, <2>1, <2>2 DEF SaysSplit
<1>5. j = 2 /\ At(text, a + Len(ph) + 1) \notin {"equals", "whole"}
  <2>1. j = 2 /\ Len(ph) # 0 /\ ph[Len(ph)].is = "name"
    BY <1>4
  <2> HIDE DEF i
  <2>2. At(text, a + Len(ph) + 1) \notin {"equals", "whole"}
    BY <2>1, BesideNames
  <2> QED  BY <2>1, <2>2
<1>6. At(text, i + 1) \notin {"equals", "whole"} /\ At(text, i - 1) = "split"
  <2>1. i + 1 = a + Len(ph) + 1 /\ i - 1 = a + 1
    BY <1>4, <1>5
  <2> QED  BY <1>1, <1>4, <1>5, <2>1
<1>7. ~Restricting(ph)
  <2>1. "split" \in Kinds(ph)
    BY <1>4, KindsAre
  <2>2. IsSplit(ph)
    BY <2>1 DEF IsSplit
  <2> QED  BY <2>2 DEF Restricting
<1>8. i \in Nat
  OBVIOUS
<1> HIDE DEF i
<1>9. Restriction(text, i, ph[j].dim) = {}
  BY <1>6, <1>8, NotRestricted
<1> QED
  BY <1>7, <1>9 DEF RestrictedAs, i

\* The values a phrase names when it splits nothing and is no distribution.
LEMMA ValueMeant ==
  ASSUME NEW ph, IsSequence(ph), ValuePhrase(ph)
  PROVE  /\ "name" \in Kinds(ph) /\ ~IsSplit(ph) /\ "whole" \notin Kinds(ph)
<1>1. \A j \in 1..Len(ph) : ph[j].is \in ValueWords
  BY ValueForms
<1>2. ~IsSplit(ph)
  <2>1. SUFFICES ASSUME IsSplit(ph) PROVE FALSE
    OBVIOUS
  <2>2. PICK j \in 1..Len(ph) : ph[j].is \in {"grain", "split", "unsupported"}
    BY <2>1, KindsAre DEF IsSplit
  <2> QED  BY <1>1, <2>2 DEF ValueWords
<1>3. "whole" \notin Kinds(ph)
  <2>1. SUFFICES ASSUME "whole" \in Kinds(ph) PROVE FALSE
    OBVIOUS
  <2>2. PICK j \in 1..Len(ph) : ph[j].is = "whole"
    BY <2>1, KindsAre
  <2> QED  BY <1>1, <2>2 DEF ValueWords
<1>4. \E j \in 1..Len(ph) : ph[j].is = "name"
  <2>1. CASE Form(ph) \in {<<"value", "name">>, <<"noun", "name">>}
    <3>1. PICK w \in {"value", "noun"} : Form(ph) = <<w, "name">>
      BY <2>1
    <3>2. Len(ph) = 2 /\ ph[2].is = "name"
      BY <3>1, WordsOfForms
    <3> QED  BY <3>2
  <2>2. CASE Form(ph) \in {<<"name", "equals", "value">>, <<"name", "equals", "noun">>}
    <3>1. PICK w \in {"value", "noun"} : Form(ph) = <<"name", "equals", w>>
      BY <2>2
    <3>2. Len(ph) = 3 /\ ph[1].is = "name"
      BY <3>1, WordsOfForms
    <3> QED  BY <3>2
  <2>3. CASE Form(ph) = <<"value", "join", "value", "name">>
    <3>1. Len(ph) = 4 /\ ph[4].is = "name"
      BY <2>3, WordsOfForms
    <3> QED  BY <3>1
  <2> QED  BY <2>1, <2>2, <2>3 DEF ValuePhrase
<1> QED
  BY <1>2, <1>3, <1>4, KindsAre

ValuesAt(ph, V) == {Only(ph[k].dim, ph[k].value) : k \in V}

\* The values a phrase means, by the places of its words.
LEMMA ValuesMeantAre ==
  ASSUME NEW ph, IsSequence(ph), NEW V, {k \in 1..Len(ph) : ph[k].is = "value"} = V
  PROVE  ValuesMeant(ph)
           = ValuesAt(ph, V) \cup (IF \E k \in 1..Len(ph) : ph[k].is = "noun" THEN {Unclear} ELSE {})
<1>1. DOMAIN ph = 1..Len(ph) /\ \A k \in 1..Len(ph) : At(ph, k) = ph[k].is
  BY KindsAre DEF At
<1>2. {k \in DOMAIN ph : At(ph, k) = "value"} = V
  BY <1>1
<1>3. "noun" \in Kinds(ph) <=> \E k \in 1..Len(ph) : ph[k].is = "noun"
  BY KindsAre
<1> QED
  BY <1>2, <1>3 DEF ValuesMeant, ValuesAt

\* A phrase with one value means it.
LEMMA OneValueMeant ==
  ASSUME NEW ph, IsSequence(ph), NEW j, {k \in 1..Len(ph) : ph[k].is = "value"} = {j},
         ~\E k \in 1..Len(ph) : ph[k].is = "noun"
  PROVE  ValuesMeant(ph) = {Only(ph[j].dim, ph[j].value)}
<1> DEFINE V == {j}
<1>1. ValuesAt(ph, V) = {Only(ph[j].dim, ph[j].value)}
  BY DEF ValuesAt
<1>2. {k \in 1..Len(ph) : ph[k].is = "value"} = V
  OBVIOUS
<1> HIDE DEF V
<1>3. ValuesMeant(ph)
        = ValuesAt(ph, V) \cup (IF \E k \in 1..Len(ph) : ph[k].is = "noun" THEN {Unclear} ELSE {})
  BY <1>2, ValuesMeantAre
<1> QED
  BY <1>1, <1>3

\* A phrase that names a value restricts.
LEMMA IsRestricting ==
  ASSUME NEW ph, IsSequence(ph), ValuePhrase(ph), NEW v \in ValuesMeant(ph)
  PROVE  Restricting(ph)
<1>1. "name" \in Kinds(ph) /\ ~IsSplit(ph) /\ "whole" \notin Kinds(ph)
  BY ValueMeant
<1> QED
  BY <1>1 DEF Restricting

\* What is read of each form is what it means.
LEMMA ValueBeforeName ==
  ASSUME NEW text, IsSequence(text), NEW ph, IsSequence(ph), ValuePhrase(ph),
         NEW a \in Nat, InPlace(text, ph, a), NEW w \in {"value", "noun"}, Form(ph) = <<w, "name">>
  PROVE  Restricting(ph) /\ RestrictedAs(Restriction(text, a + 2, ph[2].dim), ph)
<1> DEFINE i == a + 2
           d == ph[2].dim
<1>1. Len(ph) = 2 /\ ph[1].is = w /\ ph[2].is = "name"
  BY WordsOfForms
<1>2. \A k \in 1..Len(ph) : /\ a + k \in 1..Len(text) /\ text[a + k] = ph[k]
                            /\ At(text, a + k) = ph[k].is /\ At(ph, k) = ph[k].is
  BY PlacedWords
<1>3. At(text, a) \in Breaks /\ At(text, a + Len(ph) + 1) \notin {"equals", "whole"}
  <2>1. Len(ph) # 0 /\ ph[1].is \in {"name", "noun", "value"} /\ ph[Len(ph)].is = "name"
    BY <1>1
  <2> QED  BY <2>1, BesideNames
<1>4. /\ i \in Nat /\ i > 1 /\ At(text, i + 1) \notin {"equals", "whole"} /\ At(text, i - 1) = w
      /\ text[i - 1] = ph[1] /\ At(text, i - 2) \in Breaks
  <2>1. i + 1 = a + Len(ph) + 1 /\ i - 1 = a + 1 /\ i - 2 = a
    BY <1>1
  <2> QED  BY <1>1, <1>2, <1>3, <2>1
<1> HIDE DEF i
<1>5. Restriction(text, i, d) = IF Names(text, i - 1, d) THEN {Only(d, text[i - 1].value)} ELSE {Unclear}
  <2>1. At(text, i - 1) \in {"noun", "value"}
    BY <1>4
  <2> HIDE DEF d
  <2> QED  BY <1>4, <2>1, WordBefore
<1>6. CASE w = "noun"
  <2>1. {k \in 1..Len(ph) : ph[k].is = "value"} = {} /\ \E k \in 1..Len(ph) : ph[k].is = "noun"
    BY <1>1, <1>6
  <2>2. Unclear \in ValuesMeant(ph)
    BY <2>1, ValuesMeantAre
  <2>3. Restricting(ph)
    BY <2>2, IsRestricting
  <2>4. Restriction(text, i, d) = {Unclear}
    BY <1>4, <1>5, <1>6 DEF Names
  <2> QED  BY <2>3, <2>4, RestrictedToOne DEF i
<1>7. CASE w = "value"
  <2> DEFINE x == Only(ph[1].dim, ph[1].value)
  <2>1. {k \in 1..Len(ph) : ph[k].is = "value"} = {1} /\ ~\E k \in 1..Len(ph) : ph[k].is = "noun"
    BY <1>1, <1>7
  <2>2. ValuesMeant(ph) = {Only(ph[1].dim, ph[1].value)}
    BY <2>1, OneValueMeant
  <2>3. ValuesMeant(ph) = {x}
    BY <2>2
  <2> HIDE DEF x
  <2>4. Restricting(ph)
    BY <2>3, IsRestricting
  <2>5. CASE Names(text, i - 1, d)
    <3>1. Restriction(text, i, d) = {x}
      BY <1>4, <1>5, <2>5 DEF Names, x
    <3> QED  BY <2>3, <2>4, <3>1, RestrictedToOne DEF i
  <2>6. CASE ~Names(text, i - 1, d)
    <3>1. Restriction(text, i, d) = {Unclear}
      BY <1>5, <2>6
    <3> QED  BY <2>4, <3>1, RestrictedToOne DEF i
  <2> QED  BY <2>5, <2>6
<1> QED
  BY <1>6, <1>7

LEMMA ValueAfterName ==
  ASSUME NEW text, IsSequence(text), NEW ph, IsSequence(ph), ValuePhrase(ph),
         NEW a \in Nat, InPlace(text, ph, a), NEW w \in {"value", "noun"}, Form(ph) = <<"name", "equals", w>>
  PROVE  Restricting(ph) /\ RestrictedAs(Restriction(text, a + 1, ph[1].dim), ph)
<1> DEFINE i == a + 1
           d == ph[1].dim
<1>1. Len(ph) = 3 /\ ph[1].is = "name" /\ ph[2].is = "equals" /\ ph[3].is = w
  BY WordsOfForms
<1>2. \A k \in 1..Len(ph) : /\ a + k \in 1..Len(text) /\ text[a + k] = ph[k]
                            /\ At(text, a + k) = ph[k].is /\ At(ph, k) = ph[k].is
  BY PlacedWords
<1>3. At(text, a) \in Breaks
  BY <1>1, BesideNames
<1>4. /\ i \in Nat /\ At(text, i + 1) = "equals" /\ At(text, i + 2) = w /\ text[i + 2] = ph[3]
      /\ At(text, i - 1) \in Breaks
  <2>1. i + 1 = a + 2 /\ i + 2 = a + 3 /\ i - 1 = a
    OBVIOUS
  <2> QED  BY <1>1, <1>2, <1>3, <2>1
<1> HIDE DEF i
<1>5. Restriction(text, i, d) = IF Names(text, i + 2, d) THEN {Only(d, text[i + 2].value)} ELSE {Unclear}
  <2>1. At(text, i + 2) \in {"noun", "value"}
    BY <1>4
  <2> HIDE DEF d
  <2> QED  BY <1>4, <2>1, WordAfter
<1>6. CASE w = "noun"
  <2>1. {k \in 1..Len(ph) : ph[k].is = "value"} = {} /\ \E k \in 1..Len(ph) : ph[k].is = "noun"
    BY <1>1, <1>6
  <2>2. Unclear \in ValuesMeant(ph)
    BY <2>1, ValuesMeantAre
  <2>3. Restricting(ph)
    BY <2>2, IsRestricting
  <2>4. Restriction(text, i, d) = {Unclear}
    BY <1>4, <1>5, <1>6 DEF Names
  <2> QED  BY <2>3, <2>4, RestrictedToOne DEF i
<1>7. CASE w = "value"
  <2> DEFINE x == Only(ph[3].dim, ph[3].value)
  <2>1. {k \in 1..Len(ph) : ph[k].is = "value"} = {3} /\ ~\E k \in 1..Len(ph) : ph[k].is = "noun"
    BY <1>1, <1>7
  <2>2. ValuesMeant(ph) = {Only(ph[3].dim, ph[3].value)}
    BY <2>1, OneValueMeant
  <2>3. ValuesMeant(ph) = {x}
    BY <2>2
  <2> HIDE DEF x
  <2>4. Restricting(ph)
    BY <2>3, IsRestricting
  <2>5. CASE Names(text, i + 2, d)
    <3>1. Restriction(text, i, d) = {x}
      BY <1>4, <1>5, <2>5 DEF Names, x
    <3> QED  BY <2>3, <2>4, <3>1, RestrictedToOne DEF i
  <2>6. CASE ~Names(text, i + 2, d)
    <3>1. Restriction(text, i, d) = {Unclear}
      BY <1>5, <2>6
    <3> QED  BY <2>4, <3>1, RestrictedToOne DEF i
  <2> QED  BY <2>5, <2>6
<1> QED
  BY <1>6, <1>7

LEMMA TwoValuesBeforeName ==
  ASSUME NEW text, IsSequence(text), NEW ph, IsSequence(ph), ValuePhrase(ph),
         NEW a \in Nat, InPlace(text, ph, a), Form(ph) = <<"value", "join", "value", "name">>
  PROVE  Restricting(ph) /\ RestrictedAs(Restriction(text, a + 4, ph[4].dim), ph)
<1> DEFINE i == a + 4
           d == ph[4].dim
<1>1. Len(ph) = 4 /\ ph[1].is = "value" /\ ph[2].is = "join" /\ ph[3].is = "value" /\ ph[4].is = "name"
  BY WordsOfForms
<1>2. \A k \in 1..Len(ph) : /\ a + k \in 1..Len(text) /\ text[a + k] = ph[k]
                            /\ At(text, a + k) = ph[k].is /\ At(ph, k) = ph[k].is
  BY PlacedWords
<1>3. At(text, a) \in Breaks /\ At(text, a + Len(ph) + 1) \notin {"equals", "whole"}
  <2>1. Len(ph) # 0 /\ ph[1].is \in {"name", "noun", "value"} /\ ph[Len(ph)].is = "name"
    BY <1>1
  <2> QED  BY <2>1, BesideNames
<1>4. /\ i \in Nat /\ i > 3 /\ At(text, i + 1) \notin {"equals", "whole"} /\ At(text, i - 1) = "value"
      /\ text[i - 1] = ph[3] /\ At(text, i - 2) = "join" /\ At(text, i - 3) = "value"
      /\ text[i - 3] = ph[1] /\ At(text, i - 4) \in Breaks
  <2>1. /\ i + 1 = a + Len(ph) + 1 /\ i - 1 = a + 3 /\ i - 2 = a + 2 /\ i - 3 = a + 1 /\ i - 4 = a
        /\ i \in Nat /\ i > 3
    BY <1>1
  <2> HIDE DEF i
  <2> QED  BY <1>1, <1>2, <1>3, <2>1
<1> HIDE DEF i
<1>5. DOMAIN ph = 1..4
  BY <1>1, KindsAre
<1>6. /\ ph[1].dim = d /\ ph[1].value \in Dims[d].values
      /\ ph[3].dim = d /\ ph[3].value \in Dims[d].values
  <2>1. \A k \in DOMAIN ph : DeclaredValue(ph[k], ph[4].dim)
    BY <1>1, <1>5 DEF ValuePhrase
  <2> QED  BY <1>1, <1>5, <2>1 DEF DeclaredValue
<1>7. Names(text, i - 1, d) /\ Names(text, i - 3, d)
  BY <1>4, <1>6 DEF Names
<1> DEFINE v == ph[3].value
           u == ph[1].value
<1>8. Restriction(text, i, d) = IF v = u THEN {Only(d, v)} ELSE {Unclear}
  <2> HIDE DEF d
  <2>1. text[i - 1].value = v /\ text[i - 3].value = u
    BY <1>4
  <2>2. Restriction(text, i, d)
          = IF text[i - 1].value = text[i - 3].value THEN {Only(d, text[i - 1].value)} ELSE {Unclear}
    BY <1>4, <1>7, TwoWordsBefore
  <2> QED  BY <2>1, <2>2
<1>9. {k \in 1..Len(ph) : ph[k].is = "value"} = {1, 3} /\ ~\E k \in 1..Len(ph) : ph[k].is = "noun"
  BY <1>1
<1>10. ValuesAt(ph, {1, 3}) = {Only(d, v), Only(d, u)}
  BY <1>6 DEF ValuesAt
<1> HIDE DEF d, v, u
<1>11. ValuesMeant(ph) = {Only(d, v), Only(d, u)}
  BY <1>9, <1>10, ValuesMeantAre
<1>12. Restricting(ph)
  BY <1>11, IsRestricting
<1>13. CASE v = u
  <2>1. ValuesMeant(ph) = {Only(d, v)} /\ Restriction(text, i, d) = {Only(d, v)}
    BY <1>8, <1>11, <1>13
  <2> QED  BY <1>12, <2>1, RestrictedToOne DEF i, d
<1>14. CASE v # u
  <2>1. Restriction(text, i, d) = {Unclear}
    BY <1>8, <1>14
  <2> QED  BY <1>12, <2>1, RestrictedToOne DEF i, d
<1> QED
  BY <1>13, <1>14

RestrictingIn(phrases) == {ph \in phrases : Restricting(ph)}
FilterAsMeant(found, phrases) ==
  /\ found = {} => RestrictingIn(phrases) = {}
  /\ found # {} /\ found # {Unclear} =>
       /\ RestrictingIn(phrases) # {}
       /\ \A ph \in RestrictingIn(phrases) : \A v \in found : ValuesMeant(ph) = {v}

\* And so for the phrases that name a value.
LEMMA ValueRestricts ==
  ASSUME NEW text, IsSequence(text), NEW ph, IsSequence(ph), ValuePhrase(ph),
         NEW a \in Nat, InPlace(text, ph, a), NEW j \in 1..Len(ph), ph[j].is = "name"
  PROVE  Restricting(ph) /\ RestrictedAs(Restriction(text, a + j, ph[j].dim), ph)
<1>1. CASE Form(ph) \in {<<"value", "name">>, <<"noun", "name">>}
  <2>1. PICK w \in {"value", "noun"} : Form(ph) = <<w, "name">>
    BY <1>1
  <2>2. Len(ph) = 2 /\ ph[1].is = w
    BY <2>1, WordsOfForms
  <2>3. j = 2
    BY <2>1, <2>2
  <2> QED  BY <2>1, <2>3, ValueBeforeName
<1>2. CASE Form(ph) \in {<<"name", "equals", "value">>, <<"name", "equals", "noun">>}
  <2>1. PICK w \in {"value", "noun"} : Form(ph) = <<"name", "equals", w>>
    BY <1>2
  <2>2. Len(ph) = 3 /\ ph[2].is = "equals" /\ ph[3].is = w
    BY <2>1, WordsOfForms
  <2>3. j = 1
    BY <2>1, <2>2
  <2> QED  BY <2>1, <2>3, ValueAfterName
<1>3. CASE Form(ph) = <<"value", "join", "value", "name">>
  <2>1. Len(ph) = 4 /\ ph[1].is = "value" /\ ph[2].is = "join" /\ ph[3].is = "value"
    BY <1>3, WordsOfForms
  <2>2. j = 4
    BY <2>1
  <2> QED  BY <1>3, <2>2, TwoValuesBeforeName
<1> QED
  BY <1>1, <1>2, <1>3 DEF ValuePhrase

\* A naming restricts only in a phrase that does, and to what that means.
LEMMA PhraseRestricts ==
  ASSUME NEW text, IsSequence(text), NEW ph, PhraseOK(ph),
         NEW a \in Nat, InPlace(text, ph, a), NEW j \in 1..Len(ph), ph[j].is = "name"
  PROVE  /\ RestrictedAs(Restriction(text, a + j, ph[j].dim), ph)
         /\ Restricting(ph) => Dims[ph[j].dim].values # {}
<1>1. IsSequence(ph)
  BY DEF PhraseOK
<1>2. ~TimePhrase(ph)
  BY <1>1, TimeForms DEF TimeWords
<1>3. ~OtherPhrase(ph)
  BY <1>1, KindsAre DEF OtherPhrase
<1>4. CASE ValuePhrase(ph)
  <2>1. RestrictedAs(Restriction(text, a + j, ph[j].dim), ph)
    BY <1>1, <1>4, ValueRestricts
  <2>2. Dims[ph[j].dim].values # {}
    <3>1. j \in DOMAIN ph
      BY <1>1, KindsAre
    <3> QED  BY <1>4, <3>1 DEF ValuePhrase
  <2> QED  BY <2>1, <2>2
<1>5. CASE SplitPhrase(ph)
  <2>1. ~Restricting(ph) /\ RestrictedAs(Restriction(text, a + j, ph[j].dim), ph)
    BY <1>1, <1>5, SplitRestricts
  <2> QED  BY <2>1
<1>6. CASE WholePhrase(ph)
  <2>1. ~Restricting(ph) /\ RestrictedAs(Restriction(text, a + j, ph[j].dim), ph)
    BY <1>1, <1>6, WholeRestricts
  <2> QED  BY <2>1
<1> QED
  BY <1>2, <1>3, <1>4, <1>5, <1>6 DEF PhraseOK

NamedIn(text) == {i \in 1..Len(text) : At(text, i) = "name" /\ Dims[text[i].dim].values # {}}
AtName(text, i) == Restriction(text, i, text[i].dim)
ValuesSaid(text) == UNION {AtName(text, i) : i \in NamedIn(text)}

\* A naming restricts as the phrase it belongs to.
LEMMA NamesBelong ==
  ASSUME NEW text, NEW phrases, Plain(text, phrases), NEW i \in NamedIn(text)
  PROVE  \E ph \in phrases : RestrictedAs(AtName(text, i), ph)
<1>1. IsSequence(text)
  BY DEF Plain, TextOK
<1>2. i \in 1..Len(text) /\ text[i].is = "name"
  BY DEF NamedIn, At
<1>4. PICK ph \in phrases, a \in Nat : \E j \in 1..Len(ph) :
         /\ InPlace(text, ph, a) /\ i = a + j /\ ph[j] = text[i]
         /\ PhraseOK(ph) /\ IsSequence(ph)
  BY <1>2, WordsBelong
<1>5. PICK j \in 1..Len(ph) : /\ InPlace(text, ph, a) /\ i = a + j /\ ph[j] = text[i]
                              /\ PhraseOK(ph) /\ IsSequence(ph)
  BY <1>4
<1>6. RestrictedAs(Restriction(text, a + j, ph[j].dim), ph)
  BY <1>1, <1>2, <1>5, PhraseRestricts
<1>7. RestrictedAs(AtName(text, i), ph)
  BY <1>5, <1>6 DEF AtName
<1> QED
  BY <1>7

\* What a phrase restricts to is among the values said.
LEMMA RestrictingIsFound ==
  ASSUME NEW text, NEW phrases, Plain(text, phrases), NEW ph \in phrases, Restricting(ph)
  PROVE  \E i \in NamedIn(text) : RestrictedAs(AtName(text, i), ph)
<1>1. IsSequence(text)
  BY DEF Plain, TextOK
<1>2. "name" \in Kinds(ph)
  BY DEF Restricting
<1>4. PhraseOK(ph) /\ IsSequence(ph) /\ \E a \in Nat : InPlace(text, ph, a)
  BY PhrasesHavePlaces
<1>5. PICK a \in Nat : InPlace(text, ph, a)
  BY <1>4
<1>6. PICK j \in 1..Len(ph) : ph[j].is = "name"
  BY <1>2, <1>4, KindsAre
<1> DEFINE i == a + j
<1>7. i \in 1..Len(text) /\ text[i] = ph[j] /\ At(text, i) = "name"
  BY <1>1, <1>4, <1>5, <1>6, PlacedWords
<1>8. RestrictedAs(Restriction(text, a + j, ph[j].dim), ph) /\ Dims[ph[j].dim].values # {}
  BY <1>1, <1>4, <1>5, <1>6, PhraseRestricts
<1>9. RestrictedAs(Restriction(text, i, ph[j].dim), ph)
  BY <1>8
<1> HIDE DEF i
<1>10. i \in NamedIn(text) /\ RestrictedAs(AtName(text, i), ph)
  BY <1>7, <1>8, <1>9 DEF NamedIn, AtName
<1> QED
  BY <1>10

\* A naming restricts to one value or to none.
LEMMA RestrictsToFew ==
  ASSUME NEW R, NEW ph, RestrictedAs(R, ph)
  PROVE  R = {} \/ One(R)
<1>1. One({Unclear})
  BY DEF One
<1> QED
  BY <1>1 DEF RestrictedAs

\* A text restricts to finitely many values.
LEMMA FewValuesSaid ==
  ASSUME NEW text, IsSequence(text), \A i \in NamedIn(text) : AtName(text, i) = {} \/ One(AtName(text, i))
  PROVE  IsFiniteSet(ValuesSaid(text))
<1> DEFINE F == {i \in NamedIn(text) : AtName(text, i) # {}}
           h(i) == CHOOSE r : AtName(text, i) = {r}
           g == [i \in F |-> h(i)]
<1>1. IsFiniteSet(F)
  <2>1. IsFiniteSet(1..Len(text))
    BY SequenceIsList, FS_Interval
  <2>2. F \subseteq 1..Len(text)
    BY DEF NamedIn
  <2> HIDE DEF F
  <2> QED  BY <2>1, <2>2, FS_Subset
<1>2. \A i \in F : AtName(text, i) = {h(i)}
  BY DEF One
<1>3. ValuesSaid(text) = UNION {AtName(text, i) : i \in F}
  <2> DEFINE A(i) == AtName(text, i)
             N == NamedIn(text)
  <2> HIDE DEF A, N
  <2>1. UNION {A(i) : i \in N} = UNION {A(i) : i \in {k \in N : A(k) # {}}}
    OBVIOUS
  <2> QED  BY <2>1 DEF A, N, ValuesSaid
<1> HIDE DEF h, F
<1>4. DOMAIN g = F /\ g = [i \in F |-> g[i]] /\ {g[i] : i \in F} = {h(i) : i \in F}
  OBVIOUS
<1> HIDE DEF g
<1>5. IsFiniteSet({h(i) : i \in F})
  BY <1>1, <1>4, FiniteImage
<1>6. ValuesSaid(text) = {h(i) : i \in F}
  BY <1>2, <1>3
<1> QED
  BY <1>5, <1>6

\* The value found in a question is the one every restricting phrase in it
\* means; none is found only if none is named (builder.py:87).
THEOREM FiltersAreReadAsMeant ==
  ASSUME NEW text, NEW phrases, Plain(text, phrases)
  PROVE  FilterAsMeant(FindFilter(text), phrases)
<1> DEFINE found == FindFilter(text)
           M == ValuesSaid(text)
<1>1. IsSequence(text)
  BY DEF Plain, TextOK
<1>2. ASSUME NEW i \in NamedIn(text) PROVE AtName(text, i) = {} \/ One(AtName(text, i))
  BY NamesBelong, RestrictsToFew
<1>3. IsFiniteSet(M)
  BY <1>1, <1>2, FewValuesSaid
<1>4. found = OneOf(M)
  BY DEF FindFilter, ValuesSaid, NamedIn, AtName
<1> HIDE DEF found, M
<1>5. SUFFICES ASSUME found # {Unclear} PROVE FilterAsMeant(found, phrases)
  <2>1. {Unclear} # {}
    OBVIOUS
  <2> QED  BY <2>1 DEF FilterAsMeant, found
<1>6. found = M /\ Unclear \notin M /\ \A v \in M : M = {v}
  BY <1>3, <1>4, <1>5, OneOfIs
<1>7. ASSUME NEW ph \in RestrictingIn(phrases)
      PROVE  found # {} /\ \A v \in found : ValuesMeant(ph) = {v}
  <2>1. ph \in phrases /\ Restricting(ph)
    BY DEF RestrictingIn
  <2>2. PICK i \in NamedIn(text) : RestrictedAs(AtName(text, i), ph)
    BY <2>1, RestrictingIsFound
  <2>3. AtName(text, i) \subseteq M
    BY DEF M, ValuesSaid
  <2>4. AtName(text, i) = ValuesMeant(ph) /\ One(ValuesMeant(ph))
    BY <1>6, <2>1, <2>2, <2>3 DEF RestrictedAs
  <2>5. PICK v : ValuesMeant(ph) = {v}
    BY <2>4 DEF One
  <2>6. M = {v}
    BY <1>6, <2>3, <2>4, <2>5
  <2> QED  BY <1>6, <2>5, <2>6
<1>8. ASSUME found # {} PROVE RestrictingIn(phrases) # {}
  <2>1. PICK i \in NamedIn(text) : AtName(text, i) # {}
    BY <1>6, <1>8 DEF M, ValuesSaid
  <2>2. PICK ph \in phrases : RestrictedAs(AtName(text, i), ph)
    BY NamesBelong
  <2>3. Restricting(ph)
    BY <2>1, <2>2 DEF RestrictedAs
  <2> QED  BY <2>3 DEF RestrictingIn
<1> QED
  BY <1>7, <1>8 DEF FilterAsMeant

-----------------------------------------------------------------------------
(* What a draft takes over from the finders, and keeps of it.                *)

\* What a definition says of a key is what a finder found for it: a value it
\* found, a gap where it refused, nothing where it found nothing.
KeySet(d, key, found, refused) ==
  /\ \A r \in RulesOf(d) : r.key = key => r.value \in found /\ found # {refused}
  /\ found # {} => (\E r \in RulesOf(d) : r.key = key) \/ key \in d.missing
SameKey(d, e, key) ==
  /\ \A r : r.key = key => (r \in RulesOf(e) <=> r \in RulesOf(d))
  /\ key \in d.missing => key \in e.missing

\* What is kept of a key stays what was found.
LEMMA KeySetKept ==
  ASSUME NEW d, NEW e, NEW key, NEW found, NEW refused,
         KeySet(d, key, found, refused), SameKey(d, e, key)
  PROVE  KeySet(e, key, found, refused)
  BY DEF KeySet, SameKey

\* Rules for other keys leave a key as it is.
LEMMA WithRulesKeeps ==
  ASSUME NEW d, IsDef(d), NEW added, IsList(added), NEW key, key \notin KeysIn(added)
  PROVE  SameKey(d, WithRules(d, added), key)
<1> DEFINE e == WithRules(d, added)
<1>1. /\ e.missing = d.missing \ KeysIn(added)
      /\ RulesOf(e) = {r \in RulesOf(d) : r.key \notin KeysIn(added)} \cup ToSet(added)
  BY WithRulesFacts
<1>2. \A r \in ToSet(added) : r.key # key
  BY DEF KeysIn
<1> HIDE DEF e
<1>3. SameKey(d, e, key)
  BY <1>1, <1>2 DEF SameKey
<1> QED
  BY <1>3 DEF e

\* Read sets its own key and leaves the others.
LEMMA ReadSets ==
  ASSUME NEW d, IsDef(d), NEW key, \A r \in RulesOf(d) : r.key # key, NEW found, NEW refused
  PROVE  KeySet(Read(d, key, found, refused), key, found, refused)
<1>1. CASE found = {}
  <2>1. Read(d, key, found, refused) = d
    BY <1>1 DEF Read
  <2> QED  BY <1>1, <2>1 DEF KeySet
<1>2. CASE found = {refused}
  <2> DEFINE e == [d EXCEPT !.missing = d.missing \cup {key}]
  <2>1. Read(d, key, found, refused) = e
    BY <1>2 DEF Read
  <2>2. e.rules = d.rules /\ e.missing = d.missing \cup {key}
    BY DEF IsDef
  <2> HIDE DEF e
  <2>3. RulesOf(e) = RulesOf(d)
    BY <2>2 DEF RulesOf
  <2> QED  BY <2>1, <2>2, <2>3 DEF KeySet
<1>3. CASE found # {} /\ found # {refused}
  <2> DEFINE v == CHOOSE x \in found : TRUE
             r == Rule(key, v, "user", NoRef, {})
             e == WithRules(d, <<r>>)
  <2>1. Read(d, key, found, refused) = e
    BY <1>3 DEF Read
  <2>2. v \in found
    BY <1>3
  <2> HIDE DEF v
  <2>3. r.key = key /\ r.value = v
    BY RuleFields
  <2> HIDE DEF r
  <2>4. IsList(<<r>>) /\ ToSet(<<r>>) = {r}
    BY SingleList
  <2>5. RulesOf(e) = {x \in RulesOf(d) : x.key \notin KeysIn(<<r>>)} \cup {r}
    BY <2>4, WithRulesFacts
  <2> HIDE DEF e
  <2> QED  BY <1>3, <2>1, <2>2, <2>3, <2>5 DEF KeySet
<1> QED
  BY <1>1, <1>2, <1>3

LEMMA ReadKeeps ==
  ASSUME NEW d, IsDef(d), NEW key, NEW found, NEW refused, NEW k, k # key
  PROVE  SameKey(d, Read(d, key, found, refused), k)
<1>1. CASE found = {}
  <2>1. Read(d, key, found, refused) = d
    BY <1>1 DEF Read
  <2> QED  BY <2>1 DEF SameKey
<1>2. CASE found = {refused}
  <2> DEFINE e == [d EXCEPT !.missing = d.missing \cup {key}]
  <2>1. Read(d, key, found, refused) = e
    BY <1>2 DEF Read
  <2>2. e.rules = d.rules /\ e.missing = d.missing \cup {key}
    BY DEF IsDef
  <2> HIDE DEF e
  <2>3. RulesOf(e) = RulesOf(d)
    BY <2>2 DEF RulesOf
  <2> QED  BY <2>1, <2>2, <2>3 DEF SameKey
<1>3. CASE found # {} /\ found # {refused}
  <2> DEFINE r == Rule(key, CHOOSE x \in found : TRUE, "user", NoRef, {})
             added == <<r>>
  <2>1. Read(d, key, found, refused) = WithRules(d, added)
    BY <1>3 DEF Read
  <2>2. r.key = key
    BY RuleFields
  <2> HIDE DEF r
  <2>3. IsList(added) /\ ToSet(added) = {r}
    BY SingleList
  <2> HIDE DEF added
  <2>4. k \notin KeysIn(added)
    BY <2>2, <2>3 DEF KeysIn
  <2> QED  BY <2>1, <2>3, <2>4, WithRulesKeeps
<1> QED
  BY <1>1, <1>2, <1>3

\* The definition read from a question says what the finders found.
LEMMA BaseSets ==
  ASSUME NEW text, TextOK(text), MetricNamed(text) # {}, NEW day \in WorkDays
  PROVE  /\ KeySet(Base(text, day), "period", FindPeriod(text, day), Refused)
         /\ KeySet(Base(text, day), "group_by", FindGrouping(text), Unclear)
         /\ KeySet(Base(text, day), "filter", FindFilter(text), Unclear)
<1> DEFINE m == CHOOSE x \in MetricNamed(text) : TRUE
           d0 == DefinitionFor(m)
           P == FindPeriod(text, day)
           G == FindGrouping(text)
           F == FindFilter(text)
           d1 == Read(d0, "period", P, Refused)
           d2 == Read(d1, "group_by", G, Unclear)
           d3 == Read(d2, "filter", F, Unclear)
<1>1. Base(text, day) = d3
  BY DEF Base
<1>2. m \in DOMAIN Metrics
  <2>1. m \in MetricNamed(text)
    OBVIOUS
  <2>2. DOMAIN text = 1..Len(text) /\ \A i \in 1..Len(text) : WordOK(text[i])
    BY SequenceIsList DEF TextOK
  <2>3. \A i \in 1..Len(text) : At(text, i) = "metric" => text[i].metric \in DOMAIN Metrics
    BY <2>2 DEF At, WordOK
  <2> HIDE DEF m
  <2> QED  BY <2>1, <2>3 DEF MetricNamed
<1> HIDE DEF m
<1>3. BaseOK(d0)
  BY <1>2, FirstDefinition
<1>4. RulesOf(d0) = {}
  <2>1. d0.rules = <<>>
    BY DEF DefinitionFor
  <2> HIDE DEF d0
  <2> QED  BY <2>1, SingleList DEF RulesOf
<1>5. "period" \in OwnRules /\ "group_by" \in OwnRules /\ "filter" \in OwnRules
  BY DEF OwnRules
<1>6. P = {Refused} \/ P \subseteq GoodPeriods
  BY PeriodsAreGood
<1> HIDE DEF d0, P, G, F
<1>7. BaseOK(d1)
  BY <1>3, <1>5, <1>6, ReadIsBase
<1>8. BaseOK(d2)
  <2> HIDE DEF d1
  <2> QED  BY <1>5, <1>7, ReadIsBase
<1>9. IsDef(d0) /\ IsDef(d1) /\ IsDef(d2)
  BY <1>3, <1>7, <1>8 DEF BaseOK, DefOK
<1>10. KeySet(d1, "period", P, Refused)
  BY <1>4, <1>9, ReadSets
<1>11. SameKey(d0, d1, "group_by") /\ SameKey(d0, d1, "filter")
  BY <1>9, ReadKeeps
<1> HIDE DEF d1
<1>12. KeySet(d2, "group_by", G, Unclear)
  <2>1. \A r \in RulesOf(d1) : r.key # "group_by"
    BY <1>4, <1>11 DEF SameKey
  <2> QED  BY <1>9, <2>1, ReadSets
<1>13. SameKey(d1, d2, "period") /\ SameKey(d1, d2, "filter")
  BY <1>9, ReadKeeps
<1> HIDE DEF d2
<1>14. KeySet(d3, "filter", F, Unclear)
  <2>1. \A r \in RulesOf(d2) : r.key # "filter"
    BY <1>4, <1>11, <1>13 DEF SameKey
  <2> QED  BY <1>9, <2>1, ReadSets
<1>15. SameKey(d2, d3, "period") /\ SameKey(d2, d3, "group_by")
  BY <1>9, ReadKeeps
<1> HIDE DEF d3
<1>16. KeySet(d3, "period", P, Refused)
  BY <1>10, <1>13, <1>15, KeySetKept
<1>17. KeySet(d3, "group_by", G, Unclear)
  BY <1>12, <1>15, KeySetKept
<1> QED
  BY <1>1, <1>14, <1>16, <1>17 DEF P, G, F

\* The documents leave what the question said of these keys.
LEMMA DocumentsKeep ==
  ASSUME NEW templates, NEW base, BaseOK(base), NEW X, NEW C,
         SaysTheClaims(templates, base.metric, X, C), \A p \in C : p.key \in AllowedKeys,
         NEW key \in OwnRules
  PROVE  SameKey(base, WithDocuments(base, X), key)
<1> DEFINE d == WithDocuments(base, X)
           added == AgreedRules(base, X)
           agreed == AgreedKeys(base, X)
           disputed == DisputedKeys(X)
           more == DisputedCandidates(X)
<1>1. IsList(X) /\ DOMAIN X = 1..Len(X) /\ Len(X) \in Nat
  BY ListFacts DEF SaysTheClaims
<1>2. /\ \A i \in 1..Len(X) : X[i].key \in AllowedKeys
      /\ \A i \in 1..Len(X) : LastSaying(X, X[i].key, X[i].value).key \in AllowedKeys
  <2>1. \A p \in C : DocRule(templates, base.metric, p).key = p.key
    BY RuleFields DEF DocRule
  <2>2. \A i \in 1..Len(X) : \E p \in C : /\ p.key = X[i].key /\ p.value = X[i].value
                                          /\ LastSaying(X, p.key, p.value) = DocRule(templates, base.metric, p)
    BY <1>1 DEF SaysTheClaims
  <2>3. ASSUME NEW i \in 1..Len(X)
        PROVE  X[i].key \in AllowedKeys /\ LastSaying(X, X[i].key, X[i].value).key \in AllowedKeys
    <3>1. PICK p \in C : /\ p.key = X[i].key /\ p.value = X[i].value
                         /\ LastSaying(X, p.key, p.value) = DocRule(templates, base.metric, p)
      BY <2>2
    <3>2. LastSaying(X, X[i].key, X[i].value) = DocRule(templates, base.metric, p)
      BY <3>1
    <3> QED  BY <2>1, <3>1, <3>2
  <2> QED  BY <2>3
<1>3. key \notin AllowedKeys
  BY DEF OwnRules, AllowedKeys
<1>4. IsList(added) /\ \A r \in ToSet(added) : r.key # key
  <2>1. /\ IsList(added)
        /\ ToSet(added) = {LastSaying(X, X[i].key, X[i].value) : i \in {j \in 1..Len(X) : IsFirst(base, X, j)}}
    BY <1>1, AgreedRulesAre
  <2> HIDE DEF added
  <2> QED  BY <1>2, <1>3, <2>1
<1>5. key \notin agreed
  BY <1>1, <1>2, <1>3 DEF AgreedKeys
<1>6. IsDef(base)
  BY DEF BaseOK, DefOK
<1>7. d = [base EXCEPT !.rules = base.rules \o added,
                       !.missing = (base.missing \ agreed) \cup disputed,
                       !.candidates = base.candidates \cup more]
  BY WithDocumentsIs
<1>8. base = [metric |-> base.metric, rules |-> base.rules, missing |-> base.missing,
              candidates |-> base.candidates] /\ IsList(base.rules)
  BY <1>6 DEF IsDef
<1> HIDE DEF d, added, agreed, disputed, more
<1>9. ToSet(base.rules \o added) = RulesOf(base) \cup ToSet(added)
  BY <1>4, <1>8, Joined DEF RulesOf
<1>10. d.rules = base.rules \o added /\ d.missing = (base.missing \ agreed) \cup disputed
  BY <1>7, <1>8
<1>11. RulesOf(d) = RulesOf(base) \cup ToSet(added)
  BY <1>9, <1>10 DEF RulesOf
<1> QED
  BY <1>4, <1>5, <1>10, <1>11 DEF SameKey, d

\* So does the reading that is preselected.
LEMMA PreselectKeeps ==
  ASSUME NEW d, DefOK(d), NEW key, key # "variant"
  PROVE  SameKey(d, Preselect(d), key)
<1> DEFINE I == {i \in 1..Len(d.rules) : d.rules[i].source = "doc"}
           documented == Picked(d.rules, I)
           one == ConsistentVariant(documented, VariantsOf(d), "doc")
           pending == \E c \in d.candidates :
                         c.implies # {} /\ c.key # "variant" /\ c.key \in d.missing
<1>1. /\ Preselect(d) = IF "variant" \notin d.missing \/ pending THEN d ELSE WithRules(d, one)
  BY DEF Preselect, Where
<1>2. IsDef(d) /\ IsFiniteSet(d.candidates)
  BY DEF DefOK
<1>3. IsList(d.rules) /\ I \in SUBSET (1..Len(d.rules))
  BY <1>2 DEF IsDef
<1>4. IsList(documented)
  <2> HIDE DEF I
  <2> QED  BY <1>3, PickedElements
<1> HIDE DEF I, documented
<1>5. IsFiniteSet(VariantsOf(d))
  BY <1>2, VariantsAreFew
<1>6. \/ one = <<>>
      \/ \E v, ref : one = <<Rule("variant", v, "doc", ref, {})>>
  BY <1>4, <1>5, OneReadingIsLeft
<1> HIDE DEF one
<1>7. IsList(one) /\ key \notin KeysIn(one)
  <2>1. CASE one = <<>>
    BY <2>1, SingleList DEF KeysIn
  <2>2. CASE one # <<>>
    <3>1. PICK v, ref : one = <<Rule("variant", v, "doc", ref, {})>>
      BY <1>6, <2>2
    <3> DEFINE rule == Rule("variant", v, "doc", ref, {})
    <3>2. IsList(one) /\ ToSet(one) = {rule}
      BY <3>1, SingleList
    <3>3. rule.key = "variant"
      BY RuleFields
    <3> HIDE DEF rule
    <3> QED  BY <3>2, <3>3 DEF KeysIn
  <2> QED  BY <2>1, <2>2
<1>8. SameKey(d, WithRules(d, one), key)
  BY <1>2, <1>7, WithRulesKeeps
<1>9. SameKey(d, d, key)
  BY DEF SameKey
<1> QED
  BY <1>1, <1>8, <1>9

\* So a draft begins with what the finders found.
LEMMA BuildSets ==
  ASSUME NEW templates, NEW text, TextOK(text), MetricNamed(text) # {}, NEW day \in WorkDays,
         NEW out, IsSequence(out), NEW gone
  PROVE  LET d == Build(templates, text, day, ShownOf(out, gone))
         IN /\ IsDef(d)
            /\ KeySet(d, "period", FindPeriod(text, day), Refused)
            /\ KeySet(d, "group_by", FindGrouping(text), Unclear)
            /\ KeySet(d, "filter", FindFilter(text), Unclear)
<1> DEFINE base == Base(text, day)
           X == Extracted(templates, base.metric, ShownOf(out, gone))
           C == ClaimsOf(out, gone)
           d == WithDocuments(base, X)
           e == Preselect(d)
           P == FindPeriod(text, day)
           G == FindGrouping(text)
           F == FindFilter(text)
<1>1. Build(templates, text, day, ShownOf(out, gone)) = e
  BY DEF Build, Explained
<1>2. BaseOK(base)
  BY BaseIsRead
<1>3. /\ KeySet(base, "period", P, Refused)
      /\ KeySet(base, "group_by", G, Unclear)
      /\ KeySet(base, "filter", F, Unclear)
  BY BaseSets
<1>4. \A p \in C : p.key \in AllowedKeys
  BY DEF ClaimsOf, CountsIn, Grounded
<1> HIDE DEF base, P, G, F
<1>5. SaysTheClaims(templates, base.metric, X, C)
  BY ExtractedSaysTheClaims
<1> HIDE DEF X, C
<1>6. DefOK(d)
  BY <1>2, <1>4, <1>5, DocumentsAreStated
<1>7. \A key \in OwnRules : SameKey(base, d, key)
  BY <1>2, <1>4, <1>5, DocumentsKeep
<1> HIDE DEF d
<1>8. \A key \in OwnRules : SameKey(d, e, key)
  BY <1>6, PreselectKeeps DEF OwnRules
<1>9. IsDef(e)
  <2> DEFINE built == Build(templates, text, day, ShownOf(out, gone))
  <2>1. DefOK(built)
    BY BuiltIsExplained
  <2> HIDE DEF e
  <2> QED  BY <1>1, <2>1 DEF DefOK
<1> HIDE DEF e
<1>10. KeySet(e, "period", P, Refused)
  BY <1>3, <1>7, <1>8, KeySetKept DEF OwnRules
<1>11. KeySet(e, "group_by", G, Unclear)
  BY <1>3, <1>7, <1>8, KeySetKept DEF OwnRules
<1>12. KeySet(e, "filter", F, Unclear)
  BY <1>3, <1>7, <1>8, KeySetKept DEF OwnRules
<1> QED
  BY <1>1, <1>9, <1>10, <1>11, <1>12 DEF P, G, F

\* Only Prepare changes what a draft began with.
LEMMA DraftsStaySame ==
  ASSUME Sound, [Next]_vars, \A actor \in Subjects, door \in Doors : ~Prepare(actor, door)
  PROVE  /\ questions' = questions
         /\ draft' = draft \/ (draft.status # "none" /\ SameDraft(draft, draft'))
<1>1. draft.status # "none" => DraftShape(draft)
  BY DEF Sound, DraftsOK, DraftOK
<1>2. CASE \/ UNCHANGED vars \/ NextDay \/ Deploy
           \/ (\E t \in DOMAIN Tables : Load(t)) \/ (\E doc \in Docs : Withdraw(doc))
  BY <1>2 DEF NextDay, Deploy, Load, Withdraw, vars
<1>3. CASE \E door \in Doors, a \in Amendments : Amend(door, a)
  <2>1. PICK door \in Doors, a \in Amendments : Amend(door, a)
    BY <1>3
  <2>2. \E d : AmendedTo(draft', runs', d)
    BY <2>1, AmendIs
  <2>3. SameDraft(draft, draft')
    BY <2>2 DEF AmendedTo
  <2>4. draft.status # "none" /\ questions' = questions
    BY <2>1 DEF Amend
  <2> QED  BY <2>3, <2>4
<1>4. CASE Confirm
  <2>1. /\ draft.status # "none" /\ questions' = questions
        /\ draft' = [draft EXCEPT !.status = "confirmed", !.day = today]
    BY <1>4 DEF Confirm
  <2> QED  BY <1>1, <2>1 DEF DraftShape, DraftFields, SameDraft
<1>5. CASE Expire
  <2>1. /\ draft.status # "none" /\ questions' = questions
        /\ draft' = [draft EXCEPT !.status = "expired"]
    BY <1>5 DEF Expire
  <2> QED  BY <1>1, <2>1 DEF DraftShape, DraftFields, SameDraft
<1>6. CASE DateTheData
  <2>1. PICK query, entry, through :
          draft' = [draft EXCEPT !.status = "dated", !.query = query, !.entry = entry, !.through = through]
    BY <1>6 DEF DateTheData
  <2>2. draft.status # "none" /\ questions' = questions
    BY <1>6 DEF DateTheData
  <2> QED  BY <1>1, <2>1, <2>2 DEF DraftShape, DraftFields, SameDraft
<1>7. CASE Finish \/ Fail
  <2>1. draft.status # "none" /\ questions' = questions
    BY <1>7 DEF Finish, Fail
  <2>2. \E status : draft' = [draft EXCEPT !.status = status, !.query = <<>>, !.through = {}, !.entry = {}]
    BY <1>7 DEF Finish, Fail, RunOver
  <2>3. PICK status : draft' = [draft EXCEPT !.status = status, !.query = <<>>, !.through = {}, !.entry = {}]
    BY <2>2
  <2> QED  BY <1>1, <2>1, <2>3 DEF DraftShape, DraftFields, SameDraft
<1> QED
  BY <1>2, <1>3, <1>4, <1>5, <1>6, <1>7 DEF Next

ReadFrom(inner, text, day) ==
  /\ IsDef(inner)
  /\ KeySet(inner, "period", FindPeriod(text, day), Refused)
  /\ KeySet(inner, "group_by", FindGrouping(text), Unclear)
  /\ KeySet(inner, "filter", FindFilter(text), Unclear)
Heard ==
  draft.status # "none" => ReadFrom(draft.inner, FlattenSeq(questions[draft.n].text), draft.asked)

\* Prepare reads the question that is next.
LEMMA HeardPrepare ==
  ASSUME Sound, NEW actor, NEW door \in Doors, Prepare(actor, door)
  PROVE  Heard'
<1> DEFINE asked == questions[draft.n + 1]
           text == FlattenSeq(asked.text)
           inner == Build(Templates, text, today, ShownOf(asked.output, withdrawn))
           d == Offered(actor, door, inner)
<1>1. MetricNamed(text) # {} /\ draft' = NewDraft(actor, door, inner, d) /\ draft.n < Len(questions)
  BY DEF Prepare, Shown, ShownOf
<1>2. TextOK(text) /\ IsSequence(asked.output) /\ today \in WorkDays
  <2>1. questions \in Questions /\ today \in WorkDays
    BY DEF Sound, WorldOK
  <2>2. IsSequence(questions)
    BY <2>1, DefinitionsAssumption
  <2>3. Len(questions) \in Nat /\ DOMAIN questions = 1..Len(questions)
    BY <2>2, SequenceIsList
  <2>4. draft.n \in Nat
    BY DEF Sound, DraftsOK, DraftOK, NoDraft
  <2>5. draft.n + 1 \in DOMAIN questions
    BY <1>1, <2>3, <2>4
  <2> QED  BY <2>1, <2>5, DefinitionsAssumption
<1> HIDE DEF asked
<1>3. ReadFrom(inner, text, today)
  <2> HIDE DEF text
  <2>1. /\ IsDef(inner)
        /\ KeySet(inner, "period", FindPeriod(text, today), Refused)
        /\ KeySet(inner, "group_by", FindGrouping(text), Unclear)
        /\ KeySet(inner, "filter", FindFilter(text), Unclear)
    BY <1>1, <1>2, BuildSets
  <2> HIDE DEF inner
  <2> QED  BY <2>1 DEF ReadFrom
<1> HIDE DEF inner, d
<1>4. draft'.n = draft.n + 1 /\ draft'.asked = today /\ draft'.inner = inner
  BY <1>1, DraftFacts
<1>5. questions' = questions
  BY DEF Prepare
<1> QED
  BY <1>3, <1>4, <1>5 DEF Heard, text, asked

LEMMA HeardNext ==
  ASSUME Sound, Heard, [Next]_vars
  PROVE  Heard'
<1>1. CASE \E actor \in Subjects, door \in Doors : Prepare(actor, door)
  BY <1>1, HeardPrepare
<1>2. CASE \A actor \in Subjects, door \in Doors : ~Prepare(actor, door)
  <2>1. /\ questions' = questions
        /\ draft' = draft \/ (draft.status # "none" /\ SameDraft(draft, draft'))
    BY <1>2, DraftsStaySame
  <2>2. CASE draft' = draft
    BY <2>1, <2>2 DEF Heard
  <2>3. CASE draft.status # "none" /\ SameDraft(draft, draft')
    <3>1. draft'.n = draft.n /\ draft'.inner = draft.inner /\ draft'.asked = draft.asked
      BY <2>3 DEF SameDraft
    <3> QED  BY <2>1, <2>3, <3>1 DEF Heard
  <2> QED  BY <2>1, <2>2, <2>3
<1> QED
  BY <1>1, <1>2

LEMMA HeardInit == Init => Heard
  BY DEF Init, Heard, NoDraft

\* A value of a key is one that was found; what was found is kept or is a gap.
LEMMA SetMeans ==
  ASSUME NEW d, IsDef(d), NEW key, NEW found, NEW refused, KeySet(d, key, found, refused)
  PROVE  /\ HasRule(d, key) => found # {} /\ found # {refused} /\ Value(d, key) \in found
         /\ found # {} => HasRule(d, key) \/ key \in d.missing
<1>1. HasRule(d, key) <=> \E r \in RulesOf(d) : r.key = key
  BY HasRuleMeans
<1>2. ASSUME HasRule(d, key)
      PROVE  found # {} /\ found # {refused} /\ Value(d, key) \in found
  <2> DEFINE r == Head(RuleAt(d, key))
  <2>1. r \in RulesOf(d) /\ r.key = key /\ Value(d, key) = r.value
    BY <1>2, ValueIsOfARule
  <2> HIDE DEF r
  <2> QED  BY <2>1 DEF KeySet
<1>3. found # {} => HasRule(d, key) \/ key \in d.missing
  BY <1>1 DEF KeySet
<1> QED
  BY <1>2, <1>3

\* What was found is what every phrase means, so the draft says it in full.
LEMMA HeardInFull ==
  ASSUME Sound, Heard
  PROVE  QuestionsAreReadInFull
<1> SUFFICES ASSUME draft.status \in {"needs", "awaiting"}, Readable(Asked.text)
             PROVE  ReadInFull(Phrases)
  BY DEF QuestionsAreReadInFull
<1> DEFINE seqs == questions[draft.n].text
           text == FlattenSeq(seqs)
           day == draft.asked
           P == FindPeriod(text, day)
           G == FindGrouping(text)
           F == FindFilter(text)
<1>1. ReadFrom(draft.inner, text, day)
  BY DEF Heard
<1>2. questions \in Questions /\ draft.n \in DOMAIN questions /\ day \in WorkDays
  <2>1. questions \in Questions
    BY DEF Sound, WorldOK
  <2>2. IsSequence(questions)
    BY <2>1, DefinitionsAssumption
  <2>3. DOMAIN questions = 1..Len(questions)
    BY <2>2, SequenceIsList
  <2>4. draft.n \in 1..Len(questions) /\ day \in WorkDays
    BY DEF Sound, DraftsOK, DraftOK
  <2> QED  BY <2>1, <2>3, <2>4
<1>3. TextOK(text)
  BY <1>2, DefinitionsAssumption
<1>4. /\ IsSequence(seqs) /\ \A i \in DOMAIN seqs : PhraseOK(seqs[i])
      /\ \A i \in 1..(Len(seqs) - 1) : Apart(seqs[i][Len(seqs[i])].is, seqs[i + 1][1].is)
  BY DEF Readable, Asked
<1>5. Phrases = {seqs[i] : i \in DOMAIN seqs}
  BY DEF Phrases, Asked
<1> HIDE DEF seqs
<1>6. DOMAIN seqs = 1..Len(seqs)
  BY <1>4, SequenceIsList
<1>7. \A i \in 1..Len(seqs) : IsSequence(seqs[i]) /\ seqs[i] # <<>>
  BY <1>4, <1>6 DEF PhraseOK
<1>8. Phrased(text, {seqs[i] : i \in DOMAIN seqs})
  BY <1>4, <1>7, PhrasesInPlace
<1>9. \A ph \in Phrases : PhraseOK(ph)
  BY <1>4, <1>5
<1> HIDE DEF text, day
<1>10. Plain(text, Phrases)
  BY <1>3, <1>5, <1>8, <1>9 DEF Plain
<1>11. PeriodAsMeant(P, Phrases, day)
  BY <1>2, <1>10, PeriodsAreReadAsMeant
<1>12. GroupingAsMeant(G, Phrases)
  BY <1>10, GroupingsAreReadAsMeant
<1>13. FilterAsMeant(F, Phrases)
  BY <1>10, FiltersAreReadAsMeant
<1>14. /\ IsDef(draft.inner) /\ KeySet(draft.inner, "period", P, Refused)
       /\ KeySet(draft.inner, "group_by", G, Unclear) /\ KeySet(draft.inner, "filter", F, Unclear)
  BY <1>1 DEF ReadFrom
<1> HIDE DEF P, G, F
<1>15. Settled("period", TimesIn(Phrases), LAMBDA ph, v : PeriodMeant(ph, v, draft.asked))
  <2>1. /\ HasRule(draft.inner, "period") =>
             P # {} /\ P # {Refused} /\ Value(draft.inner, "period") \in P
        /\ P # {} => HasRule(draft.inner, "period") \/ "period" \in draft.inner.missing
    BY <1>14, SetMeans
  <2>2. HasRule(draft.inner, "period") =>
          /\ TimesIn(Phrases) # {}
          /\ \A ph \in TimesIn(Phrases) : PeriodMeant(ph, Value(draft.inner, "period"), draft.asked)
    BY <1>11, <2>1 DEF PeriodAsMeant, day
  <2>3. TimesIn(Phrases) # {} => P # {}
    BY <1>11 DEF PeriodAsMeant
  <2> QED  BY <2>1, <2>2, <2>3 DEF Settled
<1>16. Settled("group_by", SplitsIn(Phrases), LAMBDA ph, v : SplitMeant(ph) = {v})
  <2>1. /\ HasRule(draft.inner, "group_by") =>
             G # {} /\ G # {Unclear} /\ Value(draft.inner, "group_by") \in G
        /\ G # {} => HasRule(draft.inner, "group_by") \/ "group_by" \in draft.inner.missing
    BY <1>14, SetMeans
  <2>2. HasRule(draft.inner, "group_by") =>
          /\ SplitsIn(Phrases) # {}
          /\ \A ph \in SplitsIn(Phrases) : SplitMeant(ph) = {Value(draft.inner, "group_by")}
    BY <1>12, <2>1 DEF GroupingAsMeant
  <2>3. SplitsIn(Phrases) # {} => G # {}
    BY <1>12 DEF GroupingAsMeant
  <2> QED  BY <2>1, <2>2, <2>3 DEF Settled
<1>17. Settled("filter", RestrictingIn(Phrases), LAMBDA ph, v : ValuesMeant(ph) = {v})
  <2>1. /\ HasRule(draft.inner, "filter") =>
             F # {} /\ F # {Unclear} /\ Value(draft.inner, "filter") \in F
        /\ F # {} => HasRule(draft.inner, "filter") \/ "filter" \in draft.inner.missing
    BY <1>14, SetMeans
  <2>2. HasRule(draft.inner, "filter") =>
          /\ RestrictingIn(Phrases) # {}
          /\ \A ph \in RestrictingIn(Phrases) : ValuesMeant(ph) = {Value(draft.inner, "filter")}
    BY <1>13, <2>1 DEF FilterAsMeant
  <2>3. RestrictingIn(Phrases) # {} => F # {}
    BY <1>13 DEF FilterAsMeant
  <2> QED  BY <2>1, <2>2, <2>3 DEF Settled
<1> QED
  BY <1>15, <1>16, <1>17 DEF ReadInFull, TimesIn, SplitsIn, RestrictingIn

\* A question is answered as asked or asked about (periods.py:8, builder.py:87),
\* for every course of questions: where a question is in phrases of the forms
\* that are read in full, each apart from the next (Readable), what the draft
\* says of the period, the split and the filter is what each phrase about it
\* means, and a phrase it does not say leaves a gap.
THEOREM QuestionsAreReadInFullAlways == Spec => []QuestionsAreReadInFull
<1>1. Init => Sound /\ Heard
  BY SoundInit, HeardInit
<1>2. Sound /\ Heard /\ [Next]_vars => Sound' /\ Heard'
  BY SoundNext, HeardNext
<1>3. Sound /\ Heard => QuestionsAreReadInFull
  BY HeardInFull
<1> QED
  BY <1>1, <1>2, <1>3, PTL DEF Spec
=============================================================================
