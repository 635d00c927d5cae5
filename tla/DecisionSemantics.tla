------------------------- MODULE DecisionSemantics -------------------------
(***************************************************************************)
(* What the answer of /v1/decide says: the public gate decision, the       *)
(* business decision and the actionability that core/decision_semantics.py *)
(* and core/pipeline/pipeline_response.py derive from what the components  *)
(* said, the evidence that is missing and the flags of the request.        *)
(*                                                                         *)
(* Risk is in basis points: 10000 is a risk of 1.0.                        *)
(***************************************************************************)
EXTENDS Integers, FiniteSets, Optional

CONSTANTS
  KnownKeys,          \* canonical keys of the required-evidence taxonomy
  Alias,              \* its aliases: a function from alias to canonical key
  ProfileRequired,    \* the aml_kyc profile: keys it requires
  ProfileSensitive,   \* keys whose absence escalates
  ProfileAnchors      \* AML_KYC_PROFILE_ENFORCEMENT_KEYS

\* ALLOWED_CONTEXT_STOP_REASONS
StopReasons ==
  {"rollback_not_supported", "irreversible_action", "audit_trail_incomplete",
   "secure_prod_controls_missing", "required_evidence_missing", "high_risk_ambiguity",
   "approval_boundary_unknown", "rule_undefined", "secure_controls_missing",
   "sanctions_partial_match", "unknown_required_evidence_key",
   "required_evidence_profile_miss", "escalation_sensitive_evidence_missing"}

-----------------------------------------------------------------------------
(* Restrictive precedence *)

Holding ==
  {"hold", "review", "review_required", "human_review_required", "needs_human_review",
   "allow_with_warning", "escalate", "escalated", "modify", "abstain",
   "evidence_required", "policy_definition_required"}

Allowing ==
  {"proceed", "allow", "allowed", "approve", "approved", "eligible_to_commit", "committed"}

\* decision_severity: what is not known blocks.
Severity(d) == IF d \in Allowing THEN 1 ELSE IF d \in Holding THEN 2 ELSE 3

\* resolve_decision_precedence(..., output="gate")
Resolve(ds) ==
  IF ds = {} \/ \E d \in ds : Severity(d) = 3 THEN "block"
  ELSE IF \E d \in ds : Severity(d) = 2 THEN "hold"
  ELSE "proceed"

-----------------------------------------------------------------------------
(* Required evidence *)

Canonical(keys) == {IF k \in DOMAIN Alias THEN Alias[k] ELSE k : k \in keys}

\* _resolve_required_evidence_mode
StrictMode(r) == r.strict /\ r.domain = "aml_kyc"

\* _should_enforce_aml_kyc_profile
EnforceProfile(r) ==
  /\ r.domain = "aml_kyc"
  /\ ProfileRequired # {}
  /\ StrictMode(r) \/ r.template \/ ProfileAnchors \intersect Canonical(r.required) # {}

\* What the gate stage misses: the keys that the caller declared.
DeclaredMissing(r) == Canonical(r.required) \ Canonical(r.satisfied)

\* What the answer misses: those of the domain's profile too.
MissingEvidence(r) ==
  (Canonical(r.required) \union (IF EnforceProfile(r) THEN ProfileRequired ELSE {}))
    \ Canonical(r.satisfied)

UnknownKeys(r) == Canonical(r.required \union r.satisfied) \ KnownKeys

ProfileMissingKeys(r) ==
  IF EnforceProfile(r) THEN ProfileRequired \ Canonical(r.required) ELSE {}

SensitiveMissing(r) ==
  IF r.domain = "aml_kyc" THEN ProfileSensitive \ Canonical(r.satisfied) ELSE {}

\* Mutant: a sensitive key is looked at in strict mode only.
EvidenceReviewStrict(r) ==
  StrictMode(r) /\ (UnknownKeys(r) # {} \/ ProfileMissingKeys(r) # {} \/ SensitiveMissing(r) # {})

\* Evidence findings that ask for a human whatever the gate says.
EvidenceReview(r) ==
  \/ StrictMode(r) /\ (UnknownKeys(r) # {} \/ ProfileMissingKeys(r) # {})
  \/ SensitiveMissing(r) # {}

\* _extract_stop_reasons. The audit flag may be a word such as "missing",
\* which counts as incomplete here and as true in the gate stage.
ExtractStopReasons(r) ==
  {f \in r.flags \intersect StopReasons : f # "high_risk_ambiguity"}
    \union r.stops
    \union (IF MissingEvidence(r) # {} THEN {"required_evidence_missing"} ELSE {})
    \union (IF r.audit # "complete" THEN {"audit_trail_incomplete"} ELSE {})
    \union (IF r.secure /\ "production_controls_missing" \in r.flags
            THEN {"secure_prod_controls_missing"} ELSE {})
    \union (IF "high_risk_ambiguity" \in r.flags
               \/ ("ambiguity_detected" \in r.flags /\ r.score # None /\ r.score >= 8000)
            THEN {"high_risk_ambiguity"} ELSE {})

-----------------------------------------------------------------------------
(* The gate *)

\* Mutant: missing evidence is looked at before what must block.
DeriveGateEvidenceFirst(reasons, rawGate, status, risk, review) ==
  IF "required_evidence_missing" \in reasons THEN [gate |-> "hold", review |-> review]
  ELSE IF Resolve({rawGate}) = "block" \/ Resolve({status}) = "block"
  THEN [gate |-> "block", review |-> review]
  ELSE IF review THEN [gate |-> "human_review_required", review |-> TRUE]
  ELSE IF Resolve({rawGate}) = "hold" \/ Resolve({status}) = "hold"
  THEN [gate |-> "hold", review |-> review]
  ELSE [gate |-> "proceed", review |-> review]

\* derive_gate_decision_from_stop_reasons: the first that applies.
DeriveGate(reasons, rawGate, status, risk, review) ==
  IF \/ "rollback_not_supported" \in reasons
     \/ {"irreversible_action", "audit_trail_incomplete"} \subseteq reasons
     \/ "secure_prod_controls_missing" \in reasons
     \/ Resolve({rawGate}) = "block"
     \/ Resolve({status}) = "block"
  THEN [gate |-> "block", review |-> review]
  ELSE IF {"required_evidence_missing", "sanctions_partial_match"} \intersect reasons # {}
  THEN [gate |-> "hold", review |-> review]
  ELSE IF \/ "high_risk_ambiguity" \in reasons /\ risk >= 8000
          \/ "approval_boundary_unknown" \in reasons
          \/ review
  THEN [gate |-> "human_review_required", review |-> TRUE]
  ELSE IF \/ {"rule_undefined", "audit_trail_incomplete", "secure_controls_missing"}
               \intersect reasons # {}
          \/ Resolve({rawGate}) = "hold"
          \/ Resolve({status}) = "hold"
  THEN [gate |-> "hold", review |-> review]
  ELSE [gate |-> "proceed", review |-> review]

\* _business_decision_requires_review
ReviewAsked(business) == business \in {"review", "review_required", "escalate"}

\* _decision_value_requires_review
RequiresReview(d) ==
  d \in {"human_review_required", "needs_human_review", "review_required", "review", "escalate"}

\* The business decision of the caller joins the gate.
MergeBusiness(derived, business) ==
  LET resolved == Resolve({derived.gate} \union (IF business = None THEN {} ELSE {business}))
  IN
  CASE resolved = "block"   -> [gate |-> "block", review |-> derived.review]
    [] resolved = "hold"    ->
         IF ReviewAsked(business) THEN [gate |-> "human_review_required", review |-> TRUE]
         ELSE [gate |-> IF derived.gate = "human_review_required"
                        THEN "human_review_required" ELSE "hold",
               review |-> derived.review]
    [] resolved = "proceed" ->
         [gate |-> IF derived.review THEN "human_review_required" ELSE "proceed",
          review |-> derived.review]

BusinessDecision(gate, business, missing) ==
  IF gate = "block" /\ (ReviewAsked(business) \/ missing = {}) THEN "DENY"
  ELSE IF gate = "block" THEN "EVIDENCE_REQUIRED"
  ELSE IF ReviewAsked(business) THEN "REVIEW_REQUIRED"
  ELSE IF missing # {} THEN "EVIDENCE_REQUIRED"
  ELSE IF gate = "human_review_required" THEN "REVIEW_REQUIRED"
  ELSE IF gate = "hold" THEN "HOLD"
  ELSE "APPROVE"

\* validate_gate_business_combination does not raise.
ValidCombination(gate, business, review) ==
  /\ <<gate, business>> \notin {<<"block", "APPROVE">>, <<"hold", "APPROVE">>,
                                 <<"proceed", "DENY">>}
  /\ gate = "human_review_required" => review
  /\ gate = "proceed" => ~review
  /\ business = "REVIEW_REQUIRED" => review
  /\ business = "REVIEW_REQUIRED" <=> gate = "human_review_required"
  /\ business = "APPROVE" => ~review

\* _derive_actionability_fields, for a kernel that returns no bind fields. The
\* action that ranks first executes only under the gate "proceed".
Actionability(gate, business, review) ==
  IF gate = "block" \/ business = "DENY" THEN "blocked"
  ELSE IF review \/ gate = "human_review_required" THEN "human_review_required"
  ELSE IF gate = "proceed" \/ business = "APPROVE" THEN "bind_required_before_execution"
  ELSE "reviewable_only"

\* _derive_business_fields. v: what the components said, with kernel (FUJI's
\* decision_status in the kernel's result, or None), status (fuji["status"]),
\* decision (ctx.decision_status), risk (fuji["risk"]) and review
\* (context["human_review_required"] after the gate stage).
RawGate(v) == OrElse(v.kernel, v.status)

DeriveBusinessFields(r, v) ==
  LET reasons == ExtractStopReasons(r)
      review == \/ v.review
                \/ \E d \in {RawGate(v), v.status, v.kernel, v.decision} : RequiresReview(d)
                \/ EvidenceReview(r)
      derived == DeriveGate(reasons, RawGate(v), v.decision,
                            OrElse(r.score, v.risk), review)
      merged == MergeBusiness(derived, r.business)
      business == BusinessDecision(merged.gate, r.business, MissingEvidence(r))
      act == Actionability(merged.gate, business, merged.review)
  IN [gate |-> merged.gate, business |-> business, review |-> merged.review,
      actionability |-> act, decision |-> v.decision]

-----------------------------------------------------------------------------
(* Pre-bind formation lineage. A level of a signal is its severity. *)

SeverityOf(signal) ==
  signal.narrowing + signal.counterfactual + signal.headroom + signal.openness

Levels(signal) ==
  <<signal.narrowing, signal.counterfactual, signal.headroom, signal.openness>>

\* participation_detection._classify_state: the average is at least 2.25.
DecisionShaping(signal) ==
  /\ SeverityOf(signal) >= 9
  /\ \E i \in 1 .. 4 : Levels(signal)[i] >= 3
  /\ \E i, j \in 1 .. 4 : i # j /\ Levels(signal)[i] >= 2 /\ Levels(signal)[j] >= 2

\* _derive_counterfactual_recovery_possible
RecoveryPossible(signal) ==
  signal.counterfactual < 3 /\ ~(signal.counterfactual = 2 /\ signal.narrowing >= 2)

\* preservation_evaluator._classify_preservation_state
Collapsed(signal) ==
  \/ signal.headroom = 3
  \/ signal.openness = 3
  \/ DecisionShaping(signal) /\ signal.headroom >= 2 /\ ~RecoveryPossible(signal)

\* evaluate_lineage_promotability
NonPromotable(signal) == signal # None /\ DecisionShaping(signal) /\ Collapsed(signal)

\* _apply_structural_transition_refusal_actionability: the gate decision stays.
Refuse(fields) ==
  [fields EXCEPT !.actionability = "formation_transition_refused", !.business = "HOLD",
                 !.review = TRUE]
=============================================================================
