---------------------------- MODULE MCEvalBatch -----------------------------
(* Instances of EvalBatch for TLC: four cases over two databases.            *)
EXTENDS EvalBatch

Cell(n) == [type |-> "int", value |-> n]
Statement(text, rows, wasError) ==
  [text |-> text, rows |-> rows, truncated |-> FALSE, fails |-> wasError,
   failsAgain |-> wasError, wasError |-> wasError]
Right == Statement("right", <<<<Cell(1)>>, <<Cell(2)>>>>, FALSE)
Other == Statement("other", <<<<Cell(1)>>, <<Cell(1)>>>>, FALSE)
Wrong == Statement("wrong", <<>>, TRUE)

SomeSuite == <<<<"c1", "c2", "c3">>, <<"c4">>>>
SomeCases == [id \in {"c1", "c2", "c3", "c4"} |->
  [id |-> id, kind |-> "simple", metrics |-> {}, expected |-> Right]]

Ran(executed, raised) ==
  [executed |-> executed, answered |-> raised = "none", clarify |-> "none",
   error |-> FALSE, names |-> {}, raised |-> raised]
\* Repaired and right at the last statement, no answer from a provider that is
\* away, and one that refuses the account.
SomeRuns == {Ran(<<Wrong, Other, Right>>, "none"),
             Ran(<<>>, "transport"), Ran(<<>>, "http402")}
=============================================================================
