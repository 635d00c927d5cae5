-------------------------- MODULE DecisionHandoff --------------------------
(***************************************************************************)
(* policy/canonical_decision_handoff.py: what                              *)
(* validate_canonical_decision_handoff says of a handoff document, the     *)
(* context of independently obtained assertions and an evaluation time,    *)
(* with the checks in the code's order.                                    *)
(*                                                                         *)
(* A handoff is a record. None stands for a field that is absent or blank; *)
(* `schema' is FALSE for a document that is malformed. An identity stands  *)
(* for the id, hash and timestamp that belong to it. A target is a record  *)
(* of system and resource; an approval names the resource only. `trusted'  *)
(* is the validation context.                                              *)
(***************************************************************************)
EXTENDS Integers, FiniteSets, Optional

\* The paths that must carry verified provenance, in the order of the check.
Mandatory ==
  <<"source_decision.request_id", "source_decision.canonical_decision_id",
   "source_decision.canonical_decision_hash", "source_decision.canonical_decision_ts",
   "candidate.actor_identity", "candidate.target_system", "candidate.target_resource",
   "candidate.canonical_action", "candidate_hash", "trustlog_lineage", "replay_lineage",
   "policy_lineage", "authority_requirement", "authority_evidence",
   "human_approval_requirement", "human_approval_evidence", "expected_state">>

\* Action, actor and target are given, so that evidence can be compared.
Comparable(h) ==
  h.candidate.contract # None /\ h.candidate.actor # None /\ h.candidate.target # None

\* evaluated > expires, issued > expires or issued > evaluated
OutOfForce(e, when) == when > e.expires \/ e.issued > e.expires \/ e.issued > when

\* The decision, TrustLog and replay lineages and the target name one decision.
LineageMismatch(h) ==
  \/ h.decision.id # h.lineage.id \/ h.lineage.bound
  \/ h.decision.request # h.trustlog.request \/ h.decision.request # h.replay.request
  \/ /\ h.replay.v1
     /\ \/ h.replay.original # h.decision.id
        \/ h.replay.replayRequest = h.decision.request
        \/ h.replay.replayDecision = h.decision.id
  \/ /\ h.candidate.target # None
     /\ h.candidate.target # h.context.target \/ ~h.context.canonical

AuthorityInvalid(h, when) ==
  /\ h.authority # None
  /\ Comparable(h)
  /\ \/ h.authority.actor # h.candidate.actor \/ h.authority.contract # h.candidate.contract
     \/ h.authority.target # h.candidate.target \/ ~h.authority.valid
     \/ OutOfForce(h.authority, when)

\* Mutant: an expired approval is not looked for.
ApprovalInvalidLate(h, when) ==
  /\ h.approval # None
  /\ Comparable(h)
  /\ \/ h.approval.candidate # h.candidate.id \/ h.approval.contract # h.candidate.contract
     \/ h.approval.resource # h.candidate.target.resource \/ ~h.approval.valid
     \/ h.approval.issued > when

ApprovalInvalid(h, when) ==
  /\ h.approval # None
  /\ Comparable(h)
  /\ \/ h.approval.candidate # h.candidate.id \/ h.approval.contract # h.candidate.contract
     \/ h.approval.resource # h.candidate.target.resource \/ ~h.approval.valid
     \/ OutOfForce(h.approval, when)

PolicyStale(h, when) ==
  /\ h.policy # None
  /\ h.policy.superseded \/ ~h.policy.named \/ OutOfForce(h.policy, when)

\* The contradictions found before the policy is looked at, and after it.
Contradicted(h, when) ==
  LineageMismatch(h) \/ AuthorityInvalid(h, when) \/ ApprovalInvalid(h, when)

StateInvalid(h, when) == h.expected # None /\ (h.expected.observed > when \/ ~h.expected.named)

\* What makes the handoff incomplete; target and action make it invalid.
Unspecified(h) == h.candidate.target = None \/ h.candidate.contract = None

Incomplete(h) ==
  \/ h.decision.id = None \/ h.candidate.actor = None \/ Unspecified(h)
  \/ h.needsAuthority = "unresolved" \/ (h.needsAuthority = "yes" /\ h.authority = None)
  \/ h.policy = None \/ h.expected = None
  \/ ~h.trustlog.verified \/ ~h.replay.verified

\* Times and identities whose absence or contradiction is a schema error.
Malformed(h, when) ==
  \/ h.decision.id # None /\ h.decision.ts > when
  \/ h.hash = None
  \/ h.approval # None /\ h.candidate.id = None
  \/ h.created > when
  \/ h.expires # None /\ (h.created > h.expires \/ when > h.expires)

\* CandidateHashBindingAssertion: in time, and of this candidate and hash.
BindingTrusted(h, when) == h.trusted.binding # None /\ h.trusted.binding.at <= when

BindingMatches(h) ==
  h.trusted.binding.candidate = h.candidate /\ h.trusted.binding.hash = h.hash

\* AuthorityRequirementBindingAssertion, needed when authority is required.
AuthorityBindingTrusted(h, when) == h.trusted.authority # None /\ h.trusted.authority.at <= when

AuthorityBindingMatches(h) == h.trusted.authority.evidence = h.authority

\* A path has a verified record of an admitted class and one assertion in time.
PathVerified(h, path, when) ==
  /\ path \in h.trusted.recorded
  /\ Cardinality(h.trusted.asserted[path]) = 1
  /\ \A a \in h.trusted.asserted[path] :
       /\ a.at <= when
       /\ path = "human_approval_evidence" /\ h.needsApproval = "yes" => a.exact

PathMatches(h, path) == \A a \in h.trusted.asserted[path] : a.matches

\* The first path that fails decides.
Provenance(h, when) ==
  LET failing == {i \in DOMAIN Mandatory :
                    ~PathVerified(h, Mandatory[i], when) \/ ~PathMatches(h, Mandatory[i])}
      first == CHOOSE i \in failing : \A j \in failing : i <= j
  IN IF failing = {} THEN "READY_FOR_GUARDED_PROMOTION"
     ELSE IF PathVerified(h, Mandatory[first], when) THEN "INVALID" ELSE "INCOMPLETE"

\* validate_canonical_decision_handoff
Validate(h, when) ==
  IF ~h.schema THEN "INVALID"
  ELSE IF ~h.promotable THEN "STRUCTURALLY_REFUSED"
  ELSE IF h.decision.request = None \/ Contradicted(h, when) THEN "INVALID"
  ELSE IF PolicyStale(h, when) THEN "REVIEW_REQUIRED"
  ELSE IF StateInvalid(h, when) THEN "INVALID"
  ELSE IF h.needsApproval = "unresolved" THEN "INCOMPLETE"
  ELSE IF h.needsApproval = "yes" /\ h.approval = None THEN "REVIEW_REQUIRED"
  ELSE IF Malformed(h, when) THEN "INVALID"
  ELSE IF Incomplete(h) THEN IF Unspecified(h) THEN "INVALID" ELSE "INCOMPLETE"
  ELSE IF ~BindingTrusted(h, when) THEN "INCOMPLETE"
  ELSE IF ~BindingMatches(h) THEN "INVALID"
  ELSE IF h.needsAuthority = "yes" /\ ~AuthorityBindingTrusted(h, when) THEN "INCOMPLETE"
  ELSE IF h.needsAuthority = "yes" /\ ~AuthorityBindingMatches(h) THEN "INVALID"
  ELSE Provenance(h, when)
=============================================================================
