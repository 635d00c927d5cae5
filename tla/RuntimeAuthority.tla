-------------------------- MODULE RuntimeAuthority --------------------------
(***************************************************************************)
(* The authority and the human approval behind a regulated action: how     *)
(* signed artefacts become proofs (governance/authority_evidence.py,       *)
(* human_approval_receipt.py), and what the runtime validator and the      *)
(* commit boundary make of them (runtime_authority.py, commit_boundary.py) *)
(* while the clock runs, authority is revoked, signing keys are withdrawn  *)
(* and the process restarts.                                               *)
(*                                                                         *)
(* A digest is equal when its content is: a version stands for the digest  *)
(* of a contract, the set of allowed keys for the hash of a signer policy. *)
(* Artefacts are as their signers signed them; a broken one is refused     *)
(* before it becomes a proof and changes nothing.                          *)
(***************************************************************************)
EXTENDS Integers, FiniteSets

CONSTANTS
  None,         \* an argument that is not given
  Evidence,     \* signed authority evidence
  Receipts,     \* signed human approvals
  Requests,     \* what callers ask for, see RequestOK
  Keys,         \* signing keys
  Verifiers,    \* ids of signature verifiers
  Approved,     \* those the deployment's verifier policies approve
  Production,   \* those at the trust level "production"
  Postures,     \* the values VERITAS_POSTURE may have
  MaxAge,       \* max_age_seconds of the revocation policy
  MaxRevoked,   \* bound: authorities revoked
  MaxTime       \* bound: the clock

\* declared: what unsigned evidence says of itself; readable: its timestamps
\* can be parsed.
EvidenceOK(e) ==
  /\ DOMAIN e = {"id", "from", "until", "grants", "limits", "snapshot", "version",
                 "actor", "key", "declared", "readable"}
  /\ e.from \in Nat
  /\ e.until \in Nat
  /\ e.declared \in BOOLEAN
  /\ e.readable \in BOOLEAN

ReceiptOK(r) ==
  /\ DOMAIN r = {"approved", "expires", "scope", "snapshot", "class", "intent",
                 "authority", "key"}
  /\ r.expires \in Nat
  /\ r.approved \in BOOLEAN

\* An execution intent (intent, actor, snapshot, class), the action contract
\* it falls under, the scope it asks for, and what the caller says about the
\* required evidence (meta) and the bind context. exact: the caller passes the
\* id of its intent to the validator.
RequestOK(q) ==
  /\ DOMAIN q = {"intent", "actor", "snapshot", "class", "contract", "scope", "meta",
                 "context", "exact"}
  /\ q.contract # None =>
       DOMAIN q.contract = {"version", "class", "allowed", "prohibited", "evidence",
                            "boundary", "needsApproval", "escalates"}

Outcomes == {"commit", "block", "escalate", "refuse"}

ASSUME ConstantsAssumption ==
  /\ None \notin Evidence \union Receipts \union Nat \union Outcomes
  /\ \A e \in Evidence : EvidenceOK(e)
  /\ \A r \in Receipts : ReceiptOK(r)
  /\ \A q \in Requests : RequestOK(q)
  /\ Approved \subseteq Verifiers
  /\ Production \subseteq Verifiers
  /\ Postures \subseteq {"dev", "secure", "prod"}
  /\ MaxAge \in Nat
  /\ MaxRevoked \in Nat
  /\ MaxTime \in Nat

Ids == {e.id : e \in Evidence}

VARIABLES
  posture,       \* VERITAS_POSTURE of the deployment
  verifier,      \* the signature verifier it configured
  now,
  signers,       \* keys the signer policies in force allow
  revoked,       \* when an authority was revoked at its source, or None
  proof,         \* the VerifiedAuthorityEvidence a caller holds
  approval,      \* the VerifiedHumanApprovalReceipt a caller holds
  state,         \* a caller holds a human_approval_state
  outcome,       \* of the evaluation that just ended
  last           \* what it was given, if the outcome is "commit"

held == <<proof, approval, state>>
vars == <<posture, verifier, now, signers, revoked, held, outcome, last>>

\* registered: the object is in the process's registry of verified objects.
Proof == [evidence : Evidence, signers : SUBSET Keys, verifier : Verifiers,
          checkedAt : Nat, registered : BOOLEAN]

ApprovalProof == [receipt : Receipts, verifier : Verifiers, registered : BOOLEAN]

Strict == posture \in {"secure", "prod"}

Init ==
  /\ posture \in Postures
  /\ verifier \in Verifiers
  /\ now = 0
  /\ signers = Keys
  /\ revoked = [id \in Ids |-> None]
  /\ proof = None
  /\ approval = None
  /\ state = FALSE
  /\ outcome = None
  /\ last = None

-----------------------------------------------------------------------------
(* The world around the runtime *)

\* No evaluation is under way; one takes no time.
Idle == outcome = None /\ UNCHANGED <<posture, verifier, outcome, last>>

Tick ==
  /\ Idle
  /\ now < MaxTime
  /\ now' = now + 1
  /\ UNCHANGED <<signers, revoked, held>>

Revoke(id) ==
  /\ Idle
  /\ revoked[id] = None
  /\ Cardinality({i \in Ids : revoked[i] # None}) < MaxRevoked
  /\ revoked' = [revoked EXCEPT ![id] = now]
  /\ UNCHANGED <<now, signers, held>>

\* The deployment withdraws a key: its signer policies change, and the
\* verifier policy that pins their hash with them.
WithdrawKey(k) ==
  /\ Idle
  /\ k \in signers
  /\ signers' = signers \ {k}
  /\ UNCHANGED <<now, revoked, held>>

\* The registries are dictionaries of the process. A caller that stored its
\* objects builds them again, with the same content.
Restart ==
  /\ Idle
  /\ proof' = IF proof = None THEN None ELSE [proof EXCEPT !.registered = FALSE]
  /\ approval' = IF approval = None THEN None ELSE [approval EXCEPT !.registered = FALSE]
  /\ UNCHANGED <<now, signers, revoked, state>>

-----------------------------------------------------------------------------
(* authority_evidence.py *)

\* validate_authority_evidence
InWindow(e) == e.readable /\ e.from <= now /\ now < e.until

Grants(e, scope) == scope \subseteq e.grants /\ scope \intersect e.limits = {}

\* Mutant: the age of the revocation status is not looked at.
StatusFreshAlways(checkedAt) == checkedAt <= now

\* _revocation_failure: neither in the future nor older than the policy allows.
StatusFresh(checkedAt) == checkedAt <= now /\ now - checkedAt <= MaxAge

\* What the checker reports is true of the instant it reports as checked_at.
NotRevokedAt(id, t) == revoked[id] # None => t < revoked[id]

\* _validate_signer_policy; the signer policy of authority evidence likewise.
SignerAllowed(key) == key \in signers

\* verify_authority_evidence_artifact_to_proof
VerifyAuthority(e, q) ==
  /\ Idle
  /\ q.contract # None /\ q.snapshot # None
  /\ SignerAllowed(e.key)
  /\ e.version = q.contract.version
  /\ e.actor = q.actor
  /\ e.snapshot = q.snapshot
  /\ Grants(e, q.scope)
  /\ q.scope \intersect q.contract.prohibited = {}
  /\ InWindow(e)
  /\ \E t \in 0 .. now :
       /\ NotRevokedAt(e.id, t)
       /\ StatusFresh(t)
       /\ proof' = [evidence |-> e, signers |-> signers, verifier |-> verifier,
                    checkedAt |-> t, registered |-> TRUE]
  /\ UNCHANGED <<now, signers, revoked, approval, state>>

\* Mutant: the signer policy the proof was made under is not compared.
PolicyPinnedNever(p) == p.verifier \in Approved

\* The verifier is approved, for the signer policy that is in force now.
PolicyPinned(p) ==
  /\ p.verifier \in Approved
  /\ p.signers = signers
  /\ posture = "prod" => p.verifier \in Production

\* validate_verified_authority_evidence
ProofHolds(p, q) ==
  /\ p.registered
  /\ p.evidence.version = q.contract.version
  /\ p.evidence.actor = q.actor
  /\ p.evidence.snapshot = q.snapshot
  /\ Grants(p.evidence, q.scope)
  /\ PolicyPinned(p)
  /\ StatusFresh(p.checkedAt)
  /\ InWindow(p.evidence)

-----------------------------------------------------------------------------
(* human_approval_receipt.py *)

\* Mutant: an approval never expires.
ReceiptValidForever(r, q) ==
  /\ r.approved
  /\ q.scope \subseteq r.scope
  /\ q.snapshot # None => r.snapshot = q.snapshot
  /\ q.contract # None => r.class = q.contract.class

\* validate_human_approval_receipt: a class or a snapshot that is None is not
\* compared.
ReceiptValid(r, q) ==
  /\ r.approved
  /\ now < r.expires
  /\ q.scope \subseteq r.scope
  /\ q.snapshot # None => r.snapshot = q.snapshot
  /\ q.contract # None => r.class = q.contract.class

\* validate_human_approval_context_binding compares what it is given: the
\* intent only when the caller passes it (exact), the authority if any.
Bound(r, q, e) ==
  /\ q.exact => r.intent = q.intent
  /\ q.contract # None => r.class = q.contract.class
  /\ q.snapshot # None => r.snapshot = q.snapshot
  /\ e # None => r.authority = e.id

ProductionVerifier(v) == v \in Approved \intersect Production

\* verify_human_approval_receipt_artifact_to_proof
ReceiptVerifies(r, q, production) ==
  /\ production => ProductionVerifier(verifier)
  /\ SignerAllowed(r.key)
  /\ ReceiptValid(r, q)

\* A caller verifies an approval beforehand and keeps the proof; it need not
\* ask for a production verifier.
VerifyApproval(r, q) ==
  /\ Idle
  /\ ReceiptVerifies(r, q, FALSE)
  /\ approval' = [receipt |-> r, verifier |-> verifier, registered |-> TRUE]
  /\ UNCHANGED <<now, signers, revoked, proof, state>>

\* build_human_approval_state, called by whoever keeps the dictionary.
BuildState(r, q) ==
  /\ Idle
  /\ ReceiptValid(r, q)
  /\ state' = TRUE
  /\ UNCHANGED <<now, signers, revoked, proof, approval>>

-----------------------------------------------------------------------------
(* RuntimeAuthorityValidator *)

(***************************************************************************)
(* What one evaluation is given: a request, unsigned evidence or the proof *)
(* held, and an approval in one of its forms. The bind core passes no      *)
(* proof, and neither it nor the commit boundary an approval other than    *)
(* the dictionary; a direct caller of the validator passes anything.       *)
(***************************************************************************)
Entries == {"core", "boundary", "validator"}

AuthorityGiven(entry) ==
  [useProof : {FALSE}, evidence : Evidence \union {None}] \union
  IF proof = None \/ entry = "core" THEN {}
  ELSE {[useProof |-> TRUE, evidence |-> proof.evidence]}

ApprovalGiven(entry) ==
  {[form |-> "none", receipt |-> None]} \union
  (IF state THEN {[form |-> "state", receipt |-> None]} ELSE {}) \union
  IF entry # "validator" THEN {}
  ELSE [form : {"receipt", "artifact"}, receipt : Receipts] \union
       IF approval = None THEN {} ELSE {[form |-> "proof", receipt |-> approval.receipt]}

Authority(x) == x.authority.evidence

ProvenanceVerified(x) ==
  /\ x.authority.useProof
  /\ x.request.contract # None
  /\ x.request.actor # None
  /\ ProofHolds(proof, x.request)

\* Outside strict posture unsigned evidence counts as it declares itself; the
\* evidence inside a proof declares itself indeterminate.
AuthorityValid(x) ==
  \/ ProvenanceVerified(x)
  \/ /\ ~Strict
     /\ ~x.authority.useProof /\ Authority(x) # None /\ x.request.contract # None
     /\ Authority(x).declared
     /\ Authority(x).version = x.request.contract.version
     /\ Grants(Authority(x), x.request.scope)

\* has_verified_human_approval_artifact_provenance
Registered(r) == approval # None /\ approval.receipt = r /\ approval.registered

\* Mutant: the dictionary is good in every posture.
StateOKAlways == TRUE

\* _validated_human_approval_state finds nothing in the dictionary that ends:
\* in dev it is good for ever.
StateOK == ~Strict

\* Context binding, then the state built from the receipt.
ApprovalGood(r, q, e) == Bound(r, q, e) /\ ReceiptValid(r, q)

\* _validated_human_approval_proof: no registry, and no signer policy.
ApprovalProofOK(q, e) ==
  /\ posture = "prod" => ProductionVerifier(approval.verifier)
  /\ ApprovalGood(approval.receipt, q, e)

\* _validated_human_approval takes the strongest form it is given.
ApprovalOK(x) ==
  LET q    == x.request
      r    == x.approval.receipt
      Good == ApprovalGood(r, q, Authority(x))
  IN CASE x.approval.form = "proof" -> ApprovalProofOK(q, Authority(x))
       [] x.approval.form = "artifact" -> ReceiptVerifies(r, q, posture = "prod") /\ Good
       [] x.approval.form = "receipt" -> posture # "prod" /\ (Strict => Registered(r)) /\ Good
       [] x.approval.form = "state" -> StateOK
       [] OTHER -> FALSE

\* _requires_human_approval
NeedsApproval(c) == c # None /\ c.needsApproval

\* _merge_evidence_metadata: freshness metadata goes before required metadata.
Fresh(x, k) ==
  LET item == x.request.meta[k] IN
    IF x.entry # "validator" /\ item.freshness # None THEN item.freshness
    ELSE IF item.fresh # None THEN item.fresh ELSE "no"

Required(c) == IF c = None THEN {} ELSE c.evidence

EvidenceFresh(x) ==
  CASE \A k \in Required(x.request.contract) : Fresh(x, k) = "yes" -> "pass"
    [] \E k \in Required(x.request.contract) : Fresh(x, k) = "unknown" -> "indeterminate"
    [] OTHER -> "stale"

SnapshotResolved(q, e) ==
  /\ q.snapshot # None
  /\ (e # None /\ e.snapshot # None) => e.snapshot = q.snapshot

Pass(holds, otherwise) == IF holds THEN "pass" ELSE otherwise

(***************************************************************************)
(* The statuses of the predicates of validate: contract present and valid, *)
(* authority present, of verified provenance, valid, not expired.          *)
(***************************************************************************)
AuthorityStatuses(x) ==
  LET c == x.request.contract
      e == Authority(x)
  IN {Pass(c # None, "missing"), Pass(c # None, "fail"), Pass(e # None, "missing"),
      Pass(ProvenanceVerified(x) \/ ~Strict, "fail"), Pass(AuthorityValid(x), "fail"),
      Pass(e # None /\ now < e.until, "fail")}

(***************************************************************************)
(* Actor resolved, scope allowed and not prohibited, evidence present and  *)
(* fresh, policy snapshot resolved, boundary defined, human approval       *)
(* present, bind context valid.                                            *)
(***************************************************************************)
ActionStatuses(x) ==
  LET q == x.request
      c == q.contract
  IN {Pass(q.actor # None, "missing"),
      Pass(c # None /\ q.scope \subseteq c.allowed, "fail"),
      Pass(c # None /\ q.scope \intersect c.prohibited = {}, "fail"),
      Pass(\A k \in Required(c) : q.meta[k].present, "missing"),
      EvidenceFresh(x),
      Pass(SnapshotResolved(q, Authority(x)), "fail"),
      Pass(c # None /\ c.boundary, "fail"),
      Pass(NeedsApproval(c) => ApprovalOK(x), "missing"),
      Pass(q.context, "fail")}

\* _build_result
Recommended(x) ==
  LET c        == x.request.contract
      statuses == AuthorityStatuses(x) \union ActionStatuses(x)
  IN IF "indeterminate" \in statuses THEN "refuse"
     ELSE IF "stale" \in statuses
       THEN IF c # None /\ c.escalates THEN "escalate" ELSE "block"
     ELSE IF statuses = {"pass"} THEN "commit"
     ELSE "block"

\* is_expired raises on a timestamp it cannot read; validate catches that.
Raises(x) == Authority(x) # None /\ ~Authority(x).readable

\* _is_action_admissible
Admissible(q) == q.class # None => q.class = q.contract.class

\* validate, then _resolve_outcome: the validator on its own only recommends.
Outcome(x) ==
  LET recommended == IF Raises(x) THEN "block" ELSE Recommended(x) IN
    IF recommended = "commit" /\ x.entry # "validator" /\ ~Admissible(x.request)
      THEN "refuse"
      ELSE recommended

Evaluate(x) ==
  LET o == Outcome(x) IN
    /\ outcome = None
    /\ outcome' = o
    /\ last' = IF o # "commit" THEN None
               ELSE [at |-> now, entry |-> x.entry, request |-> x.request,
                     evidence |-> Authority(x), signers |-> signers,
                     receipt |-> x.approval.receipt]
    /\ UNCHANGED <<posture, verifier, now, signers, revoked, held>>

Answer ==
  /\ outcome # None
  /\ outcome' = None
  /\ last' = None
  /\ UNCHANGED <<posture, verifier, now, signers, revoked, held>>

Next ==
  \/ Tick
  \/ Restart
  \/ \E id \in Ids : Revoke(id)
  \/ \E k \in Keys : WithdrawKey(k)
  \/ \E e \in Evidence, q \in Requests : VerifyAuthority(e, q)
  \/ \E r \in Receipts, q \in Requests : VerifyApproval(r, q)
  \/ \E r \in Receipts, q \in Requests : BuildState(r, q)
  \/ \E entry \in Entries, q \in Requests :
       \E a \in AuthorityGiven(entry), h \in ApprovalGiven(entry) :
         Evaluate([entry |-> entry, request |-> q, authority |-> a, approval |-> h])
  \/ Answer

Spec == Init /\ [][Next]_vars

-----------------------------------------------------------------------------
(* Properties *)

Evaluation ==
  [at : Nat, entry : Entries, request : Requests,
   evidence : Evidence, signers : SUBSET Keys, receipt : Receipts \union {None}]

TypeOK ==
  /\ posture \in Postures
  /\ verifier \in Verifiers
  /\ now \in Nat
  /\ signers \subseteq Keys
  /\ revoked \in [Ids -> Nat \union {None}]
  /\ proof \in Proof \union {None}
  /\ approval \in ApprovalProof \union {None}
  /\ state \in BOOLEAN
  /\ outcome \in Outcomes \union {None}
  /\ last \in Evaluation \union {None}

Committed == outcome = "commit"

\* A revoked authority is good for at most MaxAge longer in secure and prod:
\* a proof carries the revocation status of the moment it was made, and the
\* validator only looks at its age.
RevocationWindow ==
  Strict /\ Committed =>
    LET t == revoked[last.evidence.id] IN t # None => last.at <= t + MaxAge

\* An action that may be committed in secure and prod has an authority that
\* is in its window, of this actor, for this scope, contract and policy, and
\* signed with a key that is still allowed, whatever expired, was replaced or
\* was withdrawn since the proof was made.
AuthorityInForce ==
  Strict /\ Committed =>
    LET e == last.evidence
        q == last.request
    IN /\ e.from <= last.at /\ last.at < e.until
       /\ e.actor = q.actor
       /\ e.snapshot = q.snapshot
       /\ e.version = q.contract.version
       /\ q.scope \subseteq e.grants \ e.limits
       /\ e.key \in last.signers

\* When the contract asks for a human approval, there is one in secure and
\* prod that has not expired, covers the scope, and was given for this class,
\* this policy and the very authority that is used; for this intent too if
\* the caller says which it is.
ApprovalInForce ==
  Strict /\ Committed /\ last.request.contract.needsApproval =>
    LET r == last.receipt
        q == last.request
    IN /\ r # None
       /\ r.approved /\ last.at < r.expires
       /\ q.scope \subseteq r.scope
       /\ r.class = q.contract.class
       /\ r.snapshot = q.snapshot
       /\ r.authority = last.evidence.id
       /\ q.exact => r.intent = q.intent

\* The bind core hands the commit boundary unsigned evidence and a dictionary,
\* so in secure and prod it never gets a regulated action through, and the
\* commit boundary none that needs a human approval.
BoundaryClosed ==
  Strict /\ Committed =>
    /\ last.entry # "core"
    /\ last.entry = "boundary" => ~last.request.contract.needsApproval

\* In every posture: what may be committed is allowed by its contract, was
\* granted for the policy snapshot the intent was formed under, and the
\* evidence had not expired.
WithinContract ==
  Committed =>
    LET e == last.evidence
        q == last.request
    IN /\ q.scope \subseteq q.contract.allowed \ q.contract.prohibited
       /\ q.scope \subseteq e.grants \ e.limits
       /\ last.at < e.until
       /\ e.snapshot \in {q.snapshot, None}
       /\ \A k \in q.contract.evidence : q.meta[k].present
=============================================================================
