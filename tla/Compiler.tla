------------------------------ MODULE Compiler ------------------------------
(* workflow/compiler.py over workflow/mappings.py: a definition turned into a *)
(* statement and the values bound into it, from what a maintainer declared,   *)
(* or refused; and what a data source answers to such a statement.            *)
(*                                                                            *)
(* A definition is a record of its metric, its rules in order (each with key, *)
(* value, source, ref and implies), the keys still missing and the candidate  *)
(* readings.  An entry of the mapping table is a record with whole (written   *)
(* as one statement) or its parts: source, time ("" without a time column),   *)
(* where (the fragments' names) and enforces (rule key -> words).             *)
EXTENDS Splits

CONSTANTS
  Dialect,   \* the connector's: "sqlite", "mysql" or "clickhouse"
  Tables     \* table -> the sequence of its rows in the order they are loaded:
             \* a row has a day, a value in each column, and the fragments it meets

RuleAt(d, key) == Where(d.rules, LAMBDA r : r.key = key)
Keys(d) == {d.rules[i].key : i \in DOMAIN d.rules}
Value(d, key) == Head(RuleAt(d, key)).value
HasRule(d, key) == key \in Keys(d)

\* The entry for the definition's metric and reading: a set of at most one.
Lookup(templates, d) ==
  LET at == <<d.metric, IF HasRule(d, "variant") THEN Value(d, "variant") ELSE "">>
  IN IF at \in DOMAIN templates THEN {templates[at]} ELSE {}

\* What the rules ask of the statement: {} where they ask nothing.
PeriodOf(d) == IF HasRule(d, "period") THEN {Value(d, "period")} ELSE {}
SettingOf(d, key) == IF HasRule(d, key) THEN {Value(d, key)} \ {None} ELSE {}
GroupingOf(d) == SettingOf(d, "group_by")
FilterOf(d) == SettingOf(d, "filter")

ColumnsOf(dim, source) ==
  IF dim \in DOMAIN Dims /\ source \in DOMAIN Dims[dim].columns
  THEN {Dims[dim].columns[source]} ELSE {}

\* A confirmed period, split or value is applied or refused, never dropped.
CanApply(entry, d) ==
  IF entry.whole
  THEN PeriodOf(d) = {} /\ GroupingOf(d) = {} /\ FilterOf(d) = {}
  ELSE /\ PeriodOf(d) # {} \/ GroupingOf(d) \cap TimeGrains # {} => entry.time # ""
       /\ \A g \in GroupingOf(d) \ TimeGrains : ColumnsOf(g[2], entry.source) # {}
       /\ \A f \in FilterOf(d) : /\ ColumnsOf(f[2], entry.source) # {}
                                 /\ f[3] \in Dims[f[2]].values

ColumnOf(dim, source) == CHOOSE c \in ColumnsOf(dim, source) : TRUE

\* The conditions and, in the same order, the values bound into them.
PeriodConditions(entry, d) ==
  IF PeriodOf(d) = {} THEN <<>> ELSE <<<<entry.time, ">=">>, <<entry.time, "<">>>>
\* Mutant: the last day bound as if the end were included.
InclusiveParams(d) == IF PeriodOf(d) = {} THEN <<>> ELSE Value(d, "period")
PeriodParams(d) ==
  IF PeriodOf(d) = {} THEN <<>>
  ELSE LET p == Value(d, "period") IN <<p[1], p[2] + 1>>
FilterConditions(entry, d) ==
  IF FilterOf(d) = {} THEN <<>>
  ELSE <<<<ColumnOf(Value(d, "filter")[2], entry.source), "=">>>>
FilterParams(d) == IF FilterOf(d) = {} THEN <<>> ELSE <<Value(d, "filter")[3]>>

Compose(entry, d) ==
  [source |-> entry.source, where |-> entry.where,
   conditions |-> PeriodConditions(entry, d) \o FilterConditions(entry, d),
   params |-> PeriodParams(d) \o FilterParams(d),
   key |-> IF GroupingOf(d) = {} THEN <<>>
           ELSE LET g == Value(d, "group_by")
                IN IF g \in TimeGrains THEN <<entry.time, g>>
                   ELSE <<ColumnOf(g[2], entry.source)>>]

\* {} where the compiler raises.  A whole statement runs as written.
Compile(templates, d) ==
  {Compose(e, d) : e \in {x \in Lookup(templates, d) : CanApply(x, d)}}

\* The table and time column whose newest record dates the data: the chosen
\* reading's, or every reading's while none is chosen.
FreshnessTargets(templates, d) ==
  LET entries == IF Lookup(templates, d) # {} THEN Lookup(templates, d)
                 ELSE {templates[k] : k \in {x \in DOMAIN templates : x[1] = d.metric}}
  IN {<<e.source, e.time>> : e \in {x \in entries : ~x.whole /\ x.time # ""}}

\* mapping_fingerprint: every field counts.
Fingerprint(templates, d) == Lookup(templates, d)

(************************** the data source **************************)

\* _GRAIN_SQL: SQLite steps back six days, then forward to a Monday.
GrainSql(d, grain) ==
  CASE grain = <<"week">> -> IF Dialect = "sqlite"
                             THEN CHOOSE m \in (d - 6)..d : (m - 1) % 7 = 0
                             ELSE d - ((d - 1) % 7)
    [] grain = <<"month">> -> d - (d - FirstOf(MonthOf(d)))
    [] OTHER -> d

Holds(row, condition, param) ==
  CASE condition[2] = ">=" -> row[condition[1]] >= param
    [] condition[2] = "<" -> row[condition[1]] < param
    [] OTHER -> row[condition[1]] = param

Selected(query, loaded) ==
  {i \in 1..loaded[query.source] :
     LET row == Tables[query.source][i]
     IN /\ query.where \subseteq row.meets
        /\ \A c \in DOMAIN query.conditions :
             Holds(row, query.conditions[c], query.params[c])}

\* The rows of the result: one count, or one for each group that has a row.
Execute(query, loaded) ==
  LET rows == Selected(query, loaded)
      KeyOf(i) == LET row == Tables[query.source][i]
                  IN IF Len(query.key) = 2 THEN GrainSql(row[query.key[1]], query.key[2])
                     ELSE row[query.key[1]]
  IN IF query.key = <<>> THEN {<<Cardinality(rows)>>}
     ELSE {<<KeyOf(i), Cardinality({j \in rows : KeyOf(j) = KeyOf(i)})>> : i \in rows}

\* SELECT MAX(time): the newest record's day, or {} for an empty table.
Newest(target, loaded) ==
  LET days == {Tables[target[1]][i][target[2]] : i \in 1..loaded[target[1]]}
  IN IF days = {} THEN {} ELSE {Max(days)}

\* Mutant: a newest record on the last day taken for a whole period.
CoverageOfTheLastDay(period, latest, probed) ==
  CASE ~probed -> "nothing"
    [] probed /\ latest = {} -> "unknown"
    [] OTHER -> IF \A p \in period, day \in latest : day >= p[2] THEN "covered" ELSE "partial"

\* workflow/coverage.py: what the result says of the data's reach.
Coverage(period, latest, probed) ==
  CASE ~probed -> "nothing"
    [] probed /\ latest = {} -> "unknown"
    [] probed /\ latest # {} /\ period = {} -> "all to date"
    [] OTHER -> LET p == CHOOSE x \in period : TRUE
                    day == CHOOSE x \in latest : TRUE
                IN CASE day < p[1] -> "no data"
                     [] p[1] <= day /\ day < p[2] -> "partial"
                     [] day = p[2] -> "to the last day"
                     [] OTHER -> "covered"
=============================================================================
