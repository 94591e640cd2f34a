------------------------------ MODULE Periods ------------------------------
(* workflow/periods.py: the time words of a question read as one range of     *)
(* days, or refused.                                                          *)
(*                                                                            *)
(* A day is its proleptic Gregorian ordinal (date.toordinal), a month is      *)
(* counted from year 0 (12 * year + month - 1), a period is the pair of its   *)
(* first and last day.  A text is a sequence of words, each a record whose    *)
(* "is" says what kind of word it is; a regular expression becomes a shape,   *)
(* the sequence of kinds it spans.  A handler that returns None is the empty  *)
(* set; one that raises PeriodError gives a pair whose end comes before its   *)
(* start, the form Period() itself refuses.                                   *)
EXTENDS Sift, FiniteSetsExt, SequencesExt

(***************************** the calendar *****************************)

YearStart(y) == 365 * (y - 1) + (y - 1) \div 4 - (y - 1) \div 100
                + (y - 1) \div 400 + 1
IsLeap(y) == y % 4 = 0 /\ (y % 100 # 0 \/ y % 400 = 0)
DaysBefore == <<0, 31, 59, 90, 120, 151, 181, 212, 243, 273, 304, 334>>

YearMonth(y, m) == 12 * y + m - 1
\* The first day of the month counted k.
FirstOf(k) ==
  LET y == k \div 12
      m == (k % 12) + 1
  IN YearStart(y) + DaysBefore[m] + (IF m > 2 /\ IsLeap(y) THEN 1 ELSE 0)

YearOf(d) ==
  CHOOSE y \in (d \div 366)..(d \div 365 + 1) : YearStart(y) <= d /\ d < YearStart(y + 1)
MonthOf(d) ==
  CHOOSE k \in YearMonth(YearOf(d), 1)..YearMonth(YearOf(d), 12) :
     FirstOf(k) <= d /\ d < FirstOf(k + 1)

\* date(y, m, d), or NoDay where it raises.
NoDay == 0
Date(y, m, d) ==
  IF /\ m \in 1..12
     /\ FirstOf(YearMonth(y, m)) + d - 1 \in
          FirstOf(YearMonth(y, m))..(FirstOf(YearMonth(y, m) + 1) - 1)
  THEN FirstOf(YearMonth(y, m)) + d - 1
  ELSE NoDay

\* day - timedelta(days=day.weekday()): day 1 was a Monday.
Monday(d) == d - ((d - 1) % 7)

Period(from, to) == <<from, to>>
Raises(p) == p[2] < p[1]
Refused == Period(1, 0)
DaysIn(p) == p[1]..p[2]
\* _month and _month_offset.
Month(k) == Period(FirstOf(k), FirstOf(k + 1) - 1)

(**************************** the patterns ****************************)

\* _PATTERNS, most specific first.
Patterns == <<
  <<"iso", "to", "iso">>, <<"year", "month", "day">>, <<"iso">>,
  <<"year", "month">>, <<"isoMonth">>, <<"lastDays">>, <<"lastMonths">>,
  <<"prevMonth">>, <<"thisMonth">>, <<"prevWeek">>, <<"thisWeek">>,
  <<"prevYear">>, <<"thisYear">>, <<"daysAgo">>, <<"month">> >>

\* A bare month is not read straight after a year sign (its lookbehind).
YearWords == {"year", "prevYear", "thisYear"}

OneDay(d) == IF d = NoDay THEN {Refused} ELSE {Period(d, d)}
MonthNamed(y, m) == IF m \in 1..12 THEN {Month(YearMonth(y, m))} ELSE {}
Rolling(n, today, month) == Period(FirstOf(month - (n - 1)), today)
Complete(n, month) == Period(FirstOf(month - n), FirstOf(month) - 1)

\* What the handler of a shape makes of the words it spans.
Reading(shape, w, today, year, month) ==
     CASE shape = <<"iso", "to", "iso">> ->
            IF NoDay \in {w[1].day, w[3].day} THEN {Refused}
            ELSE {Period(w[1].day, w[3].day)}
       [] shape = <<"year", "month", "day">> -> OneDay(Date(w[1].y, w[2].m, w[3].d))
       [] shape = <<"iso">> -> OneDay(w[1].day)
       [] shape = <<"year", "month">> -> MonthNamed(w[1].y, w[2].m)
       [] shape = <<"isoMonth">> -> MonthNamed(w[1].y, w[1].m)
       [] shape = <<"lastDays">> ->
            IF w[1].n = 0 THEN {} ELSE {Period(today - (w[1].n - 1), today)}
       [] shape = <<"lastMonths">> ->
            IF w[1].n = 0 THEN {} ELSE {Rolling(w[1].n, today, month)}
       [] shape = <<"prevMonth">> -> {Month(month - 1)}
       [] shape = <<"thisMonth">> -> {Period(FirstOf(month), today)}
       [] shape = <<"prevWeek">> -> {Period(Monday(today) - 7, Monday(today) - 1)}
       [] shape = <<"thisWeek">> -> {Period(Monday(today), today)}
       [] shape = <<"prevYear">> -> {Period(YearStart(year - 1), YearStart(year) - 1)}
       [] shape = <<"thisYear">> -> {Period(YearStart(year), today)}
       [] shape = <<"daysAgo">> -> {Period(today - w[1].n, today - w[1].n)}
       [] shape = <<"month">> ->
            MonthNamed(IF w[1].m <= (month % 12) + 1 THEN year ELSE year - 1, w[1].m)

Handler(shape, w, today) == Reading(shape, w, today, YearOf(today), MonthOf(today))

Spans(text, shape, i) ==
  /\ i + Len(shape) - 1 <= Len(text)
  /\ \A j \in 1..Len(shape) : text[i + j - 1].is = shape[j]
  /\ shape = <<"month">> /\ i > 1 => text[i - 1].is \notin YearWords

\* Where the patterns match, in the order the code tries them.
Matches(text) ==
  LET n == Len(text)
      tries == [k \in 1..(Len(Patterns) * n) |->
                  <<Patterns[((k - 1) \div n) + 1], ((k - 1) % n) + 1>>]
  IN Where(tries, LAMBDA try : Spans(text, try[1], try[2]))

\* A match that overlaps an earlier one is ignored, and so is one whose
\* handler makes nothing of it; one that raises ends the scan.
AfterTry(acc, try, text, today) ==
  LET last == try[2] + Len(try[1]) - 1
      made == Handler(try[1], SubSeq(text, try[2], last), today)
  IN IF \/ \E p \in acc.found : Raises(p)
        \/ (try[2]..last) \cap acc.taken # {}
        \/ made = {}
     THEN acc
     ELSE [taken |-> acc.taken \cup (try[2]..last), found |-> acc.found \cup made]

Scan(text, today) ==
  LET tries == Matches(text)
      after[n \in 0..Len(tries)] ==
        IF n = 0 THEN [taken |-> {}, found |-> {}]
        ELSE AfterTry(after[n - 1], tries[n], text, today)
  IN after[Len(tries)].found

\* The choices "the last n months" leaves open: the first such words decide.
PeriodAlternatives(text, today) ==
  LET months == {i \in 1..Len(text) : text[i].is = "lastMonths"}
      n == text[Min(months)].n
  IN IF months = {} \/ n = 0 THEN {} ELSE {Rolling(n, today, MonthOf(today)), Complete(n, MonthOf(today))}

\* Mutant: the first of several periods is taken.
FirstOne(periods) ==
  IF \E p \in periods : Raises(p) THEN {Refused}
  ELSE IF periods = {} THEN {} ELSE {CHOOSE p \in periods : TRUE}

AtMostOne(periods) ==
  IF Cardinality(periods) > 1 \/ \E p \in periods : Raises(p) THEN {Refused} ELSE periods

\* {} for no period, {Refused} where PeriodError is raised.
FindPeriod(text, today) ==
  IF PeriodAlternatives(text, today) # {} THEN {Refused} ELSE AtMostOne(Scan(text, today))

\* What is stated on purpose is exactly one thing, or refused.
Stated(found, refused) == IF found = {} THEN {refused} ELSE found
ParsePeriod(text, today) == Stated(FindPeriod(text, today), Refused)
=============================================================================
