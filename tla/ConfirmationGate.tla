-------------------------- MODULE ConfirmationGate --------------------------
(***************************************************************************)
(* What the confirmation gate promises, whatever doors, processes and      *)
(* tables provide it: a run is claimed only under something a person       *)
(* approved, and each key once; the business database is asked for a run   *)
(* only after its claim, only what was approved, and each thing once; and  *)
(* anything else it is asked is advice for a sheet.                        *)
(*                                                                         *)
(* An approval is the whole of what was on the sheet: whose, which draft,  *)
(* which version, and the definition itself.  What approvals and keys are  *)
(* is left to the implementation: a step names them by what it adds.       *)
(* Claims and questions are sequences, so a repetition is a step to be     *)
(* judged and not a stutter.                                               *)
(***************************************************************************)
EXTENDS Integers, Sequences

VARIABLES approved,    \* the approvals people have given
          claims,      \* the runs: each a key and the approval it runs under
          asked        \* what the database was asked: each a kind, and the
                       \* claim it is asked for unless it is an advisory

vars == <<approved, claims, asked>>

Init == approved = {} /\ claims = <<>> /\ asked = <<>>

Approve ==
  /\ \E what \in approved' : approved' = approved \cup {what}
  /\ UNCHANGED <<claims, asked>>

\* Approval comes first, and a key is taken once.
Claim ==
  /\ \E n \in DOMAIN claims' :
       /\ claims' = Append(claims, claims'[n])
       /\ claims'[n].what \in approved
       /\ \A m \in DOMAIN claims : claims[m].key # claims'[n].key
  /\ UNCHANGED <<approved, asked>>

\* What has been asked for a claim, by kind.
Asked(claim) ==
  {asked[i].kind : i \in {j \in DOMAIN asked : /\ asked[j].kind # "advisory"
                                             /\ asked[j].claim = claim}}

\* A claim asks its query once, and may date its data once before it.
Ask ==
  /\ \E n \in DOMAIN asked' :
       /\ asked' = Append(asked, asked'[n])
       /\ asked'[n].kind \in {"probe", "query"}
       /\ \E m \in DOMAIN claims : asked'[n].claim = claims[m]
       /\ Asked(asked'[n].claim) \cap {"query", asked'[n].kind} = {}
  /\ UNCHANGED <<approved, claims>>

\* A sheet may be dated at any time, and asks nothing of any claim.
Advise ==
  /\ asked' = Append(asked, [kind |-> "advisory"])
  /\ UNCHANGED <<approved, claims>>

Next == Approve \/ Claim \/ Ask \/ Advise

Spec == Init /\ [][Next]_vars
=============================================================================
