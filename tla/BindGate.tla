------------------------------ MODULE BindGate ------------------------------
(***************************************************************************)
(* The bind-time gate of execute_bind_adjudication as a pure function: the *)
(* five checks of evaluate_bind_admissibility, the precedence over the     *)
(* decisions carried by the intent (core/decision_semantics.py) and the    *)
(* regulated commit boundary (governance/commit_boundary.py).              *)
(***************************************************************************)
EXTENDS Naturals

Signals    == {"true", "missing", "false"}
Drifts     == {"same", "missing", "differs"}
Expiries   == {"valid", "missing", "expired"}
Approvals  == Expiries \union {"malformed"}
Severities == 0 .. 3  \* 0: the intent carries no decision value
Boundaries == {"none", "commit", "escalate", "refuse", "block", "error"}

\* _resolve_bind_policy_config
Policies ==
  [drift_required : BOOLEAN, ttl_required : BOOLEAN,
   approval_freshness_required : BOOLEAN, missing_signal : {"escalate", "block"}]

(***************************************************************************)
(* constraints: missing also when the map is empty, false when any         *)
(* constraint is.  severity: the highest of the decision values; a value   *)
(* outside the vocabulary has severity 3.  boundary: none when no action   *)
(* contract is declared, error when its evaluation raises.                 *)
(***************************************************************************)
Inputs ==
  [authority : Signals, constraints : Signals, risk : Signals, drift : Drifts,
   ttl : Expiries, approval : Approvals, severity : Severities,
   boundary : Boundaries, policy : Policies]

-----------------------------------------------------------------------------
(* evaluate_bind_admissibility *)

MissingStatus(in) ==
  IF in.policy.missing_signal = "escalate" THEN "escalate" ELSE "fail"

SignalCheck(in, signal) ==
  CASE signal = "missing" -> MissingStatus(in)
    [] signal = "false"   -> "fail"
    [] signal = "true"    -> "pass"

\* Mutant: an absent fingerprint counts as no drift.
DriftCheckOpen(in) ==
  IF in.policy.drift_required /\ in.drift = "differs" THEN "fail" ELSE "pass"

DriftCheck(in) ==
  CASE ~in.policy.drift_required -> "pass"
    [] in.policy.drift_required /\ in.drift = "missing" -> MissingStatus(in)
    [] in.policy.drift_required /\ in.drift = "differs" -> "fail"
    [] in.policy.drift_required /\ in.drift = "same"    -> "pass"

RequiredMissing(in) ==
  \/ in.policy.ttl_required /\ in.ttl = "missing"
  \/ in.policy.approval_freshness_required /\ in.approval = "missing"

\* A malformed approval_expires_at is parsed only after the required signals
\* are found present, and raises.
FreshnessRaises(in) == ~RequiredMissing(in) /\ in.approval = "malformed"

FreshnessCheck(in) ==
  CASE RequiredMissing(in) -> MissingStatus(in)
    [] ~RequiredMissing(in) /\ "expired" \in {in.ttl, in.approval} -> "escalate"
    [] ~RequiredMissing(in) /\ "expired" \notin {in.ttl, in.approval} -> "pass"

Checks(in) ==
  {SignalCheck(in, in.authority), SignalCheck(in, in.constraints),
   DriftCheck(in), SignalCheck(in, in.risk), FreshnessCheck(in)}

\* Mutant: escalation is looked at before failure.
AdmissibilityEscalates(in) ==
  CASE "escalate" \in Checks(in) -> "escalate"
    [] "escalate" \notin Checks(in) /\ "fail" \in Checks(in) -> "block"
    [] OTHER -> "eligible_to_commit"

Admissibility(in) ==
  CASE "fail" \in Checks(in) -> "block"
    [] "fail" \notin Checks(in) /\ "escalate" \in Checks(in) -> "escalate"
    [] "fail" \notin Checks(in) /\ "escalate" \notin Checks(in) ->
         "eligible_to_commit"

-----------------------------------------------------------------------------
(* The gate in front of adapter.apply *)

\* resolve_decision_precedence(..., output="bind")
BindDecision(in) ==
  CASE in.severity = 3 -> "block"
    [] in.severity = 2 -> "escalate"
    [] in.severity \in {0, 1} -> "eligible_to_commit"

BoundaryGate(in) ==
  CASE in.boundary \in {"none", "commit"} -> "apply"
    [] in.boundary = "escalate" -> "ESCALATED"
    [] in.boundary \in {"block", "refuse"} -> "BLOCKED"
    [] in.boundary = "error" -> "raise"

\* raise: an exception leaves execute_bind_adjudication without a receipt.
Gate(in) ==
  CASE FreshnessRaises(in) -> "raise"
    [] /\ ~FreshnessRaises(in)
       /\ Admissibility(in) # "eligible_to_commit" ->
         IF Admissibility(in) = "escalate" /\ BindDecision(in) # "block"
           THEN "ESCALATED" ELSE "BLOCKED"
    [] /\ ~FreshnessRaises(in)
       /\ Admissibility(in) = "eligible_to_commit"
       /\ BindDecision(in) # "eligible_to_commit" ->
         IF BindDecision(in) = "escalate" THEN "ESCALATED" ELSE "BLOCKED"
    [] /\ ~FreshnessRaises(in)
       /\ Admissibility(in) = "eligible_to_commit"
       /\ BindDecision(in) = "eligible_to_commit" ->
         BoundaryGate(in)
=============================================================================
