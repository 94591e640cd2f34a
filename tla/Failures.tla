------------------------------ MODULE Failures ------------------------------
(***************************************************************************)
(* What can go wrong in one command, and the two readings of it: the exit  *)
(* code the shell sees (cli._explain) and whether a failed model call left *)
(* a case unmeasured (errors.blocks_measurement).                          *)
(***************************************************************************)

\* How one HTTP request to the model's provider fails.
HttpFailures ==
  {"transport", "http429", "http5xx", "http401", "http402", "http400", "garbled"}

\* What else a command raises: a connector that is no QueryError, a value no
\* setting allows, a refusal of the workflow, a budget with a full slot and one
\* that is spent, a document that is gone, a driver that is not installed.
OtherFailures ==
  {"connector", "value", "answer", "refused", "slot_full", "spent", "no_file",
   "no_driver", "defect"}

Raised == HttpFailures \cup OtherFailures

\* The provider, not the request, is why the call failed.
IsTransient(f) == f \in {"transport", "http429", "http5xx"}

\* No answer came back that could be scored; 402 stands for 402, 403 and 404.
BlocksMeasurement(f) == IsTransient(f) \/ f \in {"http401", "http402"}

OK == 0
UserError == 2
EvalFailed == 3
Defect == 70
Temporary == 75
Interrupted == 130

\* The order of _explain's questions: a 401 is asked about before what is
\* temporary, and a reply that is no JSON is a ValueError like any setting.
ExitCode(f) ==
  CASE f \in {"no_driver", "no_file", "spent", "refused", "http401"} -> UserError
    [] f = "slot_full" \/ IsTransient(f) -> Temporary
    [] f \in {"answer", "value", "garbled", "connector"} -> UserError
    [] OTHER -> Defect
=============================================================================
