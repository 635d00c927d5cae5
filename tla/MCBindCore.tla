----------------------------- MODULE MCBindCore -----------------------------
(***************************************************************************)
(* Evidence that reaches every outcome of the gate.                        *)
(***************************************************************************)
EXTENDS BindCore, TLC

Lenient == [drift_required |-> TRUE, ttl_required |-> FALSE,
            approval_freshness_required |-> FALSE, missing_signal |-> "escalate"]

Good == [authority |-> "true", constraints |-> "true", risk |-> "true",
         drift |-> "same", ttl |-> "missing", approval |-> "valid",
         severity |-> 1, boundary |-> "commit", policy |-> Lenient]

\* A missing authority signal escalates, a malformed approval expiry raises.
MCEvidence ==
  {Good, [Good EXCEPT !.authority = "missing"],
   [Good EXCEPT !.approval = "malformed"]}

\* Every signal is good: only drift can stop a call.
MCGoodEvidence == {Good}

\* Workers are alike.
Symmetric == Permutations(Workers)
=============================================================================
