----------------------- MODULE RuntimeAuthorityProofs -----------------------
(***************************************************************************)
(* Theorems about runtime authority: for every set of evidence, receipts,  *)
(* requests, keys and verifiers, every posture and every length of time.   *)
(***************************************************************************)
EXTENDS RuntimeAuthority, TLAPS

\* A proof was made of an authority that was not yet revoked when its status
\* was checked, and under a signer policy that allowed its key.
ProofSound ==
  proof # None =>
    /\ proof.checkedAt <= now
    /\ revoked[proof.evidence.id] # None => proof.checkedAt <= revoked[proof.evidence.id]
    /\ proof.evidence.key \in proof.signers

InForce ==
  /\ RevocationWindow
  /\ AuthorityInForce
  /\ ApprovalInForce
  /\ BoundaryClosed
  /\ WithinContract

Inv == TypeOK /\ ProofSound /\ InForce

\* What one evaluation may be given.
Given(x) ==
  /\ DOMAIN x = {"entry", "request", "authority", "approval"}
  /\ x.entry \in Entries
  /\ x.request \in Requests
  /\ x.authority \in AuthorityGiven(x.entry)
  /\ x.approval \in ApprovalGiven(x.entry)

-----------------------------------------------------------------------------
(* What "commit" says *)

\* A predicate that passes holds.
LEMMA PassHolds ==
  ASSUME NEW holds \in BOOLEAN, NEW otherwise, otherwise # "pass",
         Pass(holds, otherwise) = "pass"
  PROVE  holds
BY DEF Pass

\* The outcome is commit only if every predicate passes.
LEMMA CommitPasses ==
  ASSUME NEW x, Outcome(x) = "commit"
  PROVE  \A s \in AuthorityStatuses(x) \union ActionStatuses(x) : s = "pass"
<1>1. Recommended(x) = "commit"
  BY DEF Outcome
<1>2. AuthorityStatuses(x) \union ActionStatuses(x) = {"pass"}
  BY <1>1 DEF Recommended
<1>3. QED
  BY <1>2

\* The predicates about the authority.
LEMMA CommitAuthority ==
  ASSUME NEW x, Outcome(x) = "commit"
  PROVE  /\ x.request.contract # None
         /\ Authority(x) # None
         /\ ProvenanceVerified(x) \/ ~Strict
         /\ AuthorityValid(x)
         /\ now < Authority(x).until
<1>1. \A s \in AuthorityStatuses(x) : s = "pass"
  BY CommitPasses
<1>2. /\ Pass(x.request.contract # None, "missing") = "pass"
      /\ Pass(Authority(x) # None, "missing") = "pass"
      /\ Pass(ProvenanceVerified(x) \/ ~Strict, "fail") = "pass"
      /\ Pass(AuthorityValid(x), "fail") = "pass"
      /\ Pass(Authority(x) # None /\ now < Authority(x).until, "fail") = "pass"
  BY <1>1 DEF AuthorityStatuses
<1>3. QED
  BY <1>2 DEF Pass

\* The predicates about the action.
LEMMA CommitAction ==
  ASSUME NEW x, Outcome(x) = "commit"
  PROVE  /\ x.request.scope \subseteq x.request.contract.allowed
         /\ x.request.scope \intersect x.request.contract.prohibited = {}
         /\ \A k \in Required(x.request.contract) : x.request.meta[k].present
         /\ SnapshotResolved(x.request, Authority(x))
         /\ NeedsApproval(x.request.contract) => ApprovalOK(x)
<1>1. \A s \in ActionStatuses(x) : s = "pass"
  BY CommitPasses
<1> DEFINE q == x.request
           c == q.contract
<1>2. /\ Pass(c # None /\ q.scope \subseteq c.allowed, "fail") = "pass"
      /\ Pass(c # None /\ q.scope \intersect c.prohibited = {}, "fail") = "pass"
      /\ Pass(\A k \in Required(c) : q.meta[k].present, "missing") = "pass"
      /\ Pass(SnapshotResolved(q, Authority(x)), "fail") = "pass"
      /\ Pass(NeedsApproval(c) => ApprovalOK(x), "missing") = "pass"
  BY <1>1 DEF ActionStatuses
<1>3. QED
  BY <1>2 DEF Pass

\* The forms in which authority and approval come.
LEMMA GivenForms ==
  ASSUME TypeOK, NEW x, Given(x)
  PROVE  /\ Authority(x) \in Evidence \union {None}
         /\ x.authority.useProof => /\ proof # None /\ Authority(x) = proof.evidence
                                    /\ x.entry # "core"
         /\ x.approval.receipt \in Receipts \union {None}
         /\ x.approval.form = "proof" =>
              approval # None /\ x.approval.receipt = approval.receipt
         /\ x.approval.form \in {"proof", "receipt", "artifact"} =>
              x.approval.receipt \in Receipts /\ x.entry = "validator"
<1>1. x.authority \in AuthorityGiven(x.entry) /\ x.approval \in ApprovalGiven(x.entry)
  BY DEF Given
<1>2. \/ x.authority \in [useProof : {FALSE}, evidence : Evidence \union {None}]
      \/ /\ proof # None /\ x.entry # "core"
         /\ x.authority = [useProof |-> TRUE, evidence |-> proof.evidence]
  BY <1>1 DEF AuthorityGiven
<1>3. /\ Authority(x) \in Evidence \union {None}
      /\ x.authority.useProof => /\ proof # None /\ Authority(x) = proof.evidence
                                 /\ x.entry # "core"
  <2>1. CASE x.authority \in [useProof : {FALSE}, evidence : Evidence \union {None}]
    BY <2>1 DEF Authority
  <2>2. CASE /\ proof # None /\ x.entry # "core"
             /\ x.authority = [useProof |-> TRUE, evidence |-> proof.evidence]
    <3>1. proof.evidence \in Evidence
      BY <2>2 DEF TypeOK, Proof
    <3>2. x.authority.evidence = proof.evidence
      BY <2>2
    <3>3. QED
      BY <2>2, <3>1, <3>2 DEF Authority
  <2>3. QED
    BY <1>2, <2>1, <2>2
<1>4. approval # None => approval.receipt \in Receipts
  BY DEF TypeOK, ApprovalProof
<1>5. QED
  BY <1>1, <1>3, <1>4 DEF ApprovalGiven

\* In secure and prod the proof stands behind a commit.
LEMMA StrictProof ==
  ASSUME TypeOK, ProofSound, NEW x, Given(x), Outcome(x) = "commit", Strict
  PROVE  /\ x.entry # "core"
         /\ proof \in Proof /\ proof # None /\ Authority(x) = proof.evidence
         /\ ProofHolds(proof, x.request)
<1>1. ProvenanceVerified(x)
  BY CommitAuthority
<1>2. x.authority.useProof /\ ProofHolds(proof, x.request)
  BY <1>1 DEF ProvenanceVerified
<1>3. QED
  BY <1>2, GivenForms DEF TypeOK

\* In secure and prod the approval a contract needs is a receipt that is good.
LEMMA StrictApproval ==
  ASSUME TypeOK, NEW x, Given(x), Outcome(x) = "commit", Strict,
         x.request.contract.needsApproval
  PROVE  /\ x.entry = "validator"
         /\ x.approval.receipt \in Receipts
         /\ ApprovalGood(x.approval.receipt, x.request, Authority(x))
<1>1. NeedsApproval(x.request.contract)
  BY CommitAuthority DEF NeedsApproval
<1>2. ApprovalOK(x)
  BY <1>1, CommitAction
<1>3. x.approval.form \in {"proof", "receipt", "artifact"}
  BY <1>2 DEF ApprovalOK, StateOK
<1>4. x.entry = "validator" /\ x.approval.receipt \in Receipts
  BY <1>3, GivenForms
<1>5. CASE x.approval.form = "proof"
  <2>1. ApprovalProofOK(x.request, Authority(x))
    BY <1>2, <1>5 DEF ApprovalOK
  <2>2. x.approval.receipt = approval.receipt
    BY <1>5, GivenForms
  <2>3. QED
    BY <1>4, <2>1, <2>2 DEF ApprovalProofOK
<1>6. CASE x.approval.form \in {"receipt", "artifact"}
  BY <1>2, <1>4, <1>6 DEF ApprovalOK
<1>7. QED
  BY <1>3, <1>5, <1>6

-----------------------------------------------------------------------------
(* Evaluate *)

\* What an evaluation leaves behind is well typed.
LEMMA EvaluateType ==
  ASSUME TypeOK, NEW x, Given(x), Evaluate(x)
  PROVE  TypeOK'
<1>1. UNCHANGED <<posture, verifier, now, signers, revoked, proof, approval, state>>
  BY DEF Evaluate, held
<1>2. outcome' \in Outcomes /\ outcome' = Outcome(x)
  BY DEF Evaluate, Outcome, Recommended, Outcomes
<1>3. last' \in Evaluation \union {None}
  <2>1. CASE Outcome(x) # "commit"
    BY <2>1 DEF Evaluate
  <2>2. CASE Outcome(x) = "commit"
    <3>1. Authority(x) \in Evidence /\ x.approval.receipt \in Receipts \union {None}
      BY <2>2, GivenForms, CommitAuthority
    <3>2. last' = [at |-> now, entry |-> x.entry, request |-> x.request,
                   evidence |-> Authority(x), signers |-> signers,
                   receipt |-> x.approval.receipt]
      BY <2>2 DEF Evaluate
    <3>3. now \in Nat /\ signers \in SUBSET Keys /\ x.entry \in Entries /\ x.request \in Requests
      BY DEF TypeOK, Given
    <3>4. QED
      BY <3>1, <3>2, <3>3 DEF Evaluation
  <2>3. QED
    BY <2>1, <2>2
<1>4. QED
  BY <1>1, <1>2, <1>3 DEF TypeOK

\* An evaluation that recommends to commit does so on what is in force.
LEMMA EvaluateInForce ==
  ASSUME TypeOK, ProofSound, NEW x, Given(x), Evaluate(x)
  PROVE  InForce'
<1>1. /\ UNCHANGED <<posture, verifier, now, signers, revoked, proof, approval, state>>
      /\ outcome' = Outcome(x)
  BY DEF Evaluate, held
<1>2. CASE Outcome(x) # "commit"
  BY <1>1, <1>2 DEF InForce, RevocationWindow, AuthorityInForce, ApprovalInForce,
     BoundaryClosed, WithinContract, Committed
<1>3. CASE Outcome(x) = "commit"
  <2> DEFINE q == x.request
             e == Authority(x)
  <2>1. /\ last'.at = now /\ last'.entry = x.entry /\ last'.request = q
        /\ last'.evidence = e /\ last'.signers = signers
        /\ last'.receipt = x.approval.receipt
    <3>1. last' = [at |-> now, entry |-> x.entry, request |-> q, evidence |-> e,
                   signers |-> signers, receipt |-> x.approval.receipt]
      BY <1>3 DEF Evaluate
    <3>2. QED
      BY <3>1
  <2>2. /\ q.contract # None /\ e # None /\ AuthorityValid(x) /\ now < e.until
        /\ q.scope \subseteq q.contract.allowed
        /\ q.scope \intersect q.contract.prohibited = {}
        /\ \A k \in Required(q.contract) : q.meta[k].present
        /\ SnapshotResolved(q, e)
    BY <1>3, CommitAuthority, CommitAction
  <2>3. e \in Evidence
    BY <2>2, GivenForms
  <2>4. Strict => /\ x.entry # "core"
                  /\ proof \in Proof /\ proof # None /\ e = proof.evidence
                  /\ ProofHolds(proof, q)
    BY <1>3, StrictProof
  <2>5. (Strict /\ q.contract.needsApproval) =>
          /\ x.entry = "validator"
          /\ x.approval.receipt \in Receipts
          /\ ApprovalGood(x.approval.receipt, q, e)
    BY <1>3, StrictApproval
  <2>6. Strict' = Strict
    BY <1>1 DEF Strict
  <2>7. e.id \in Ids /\ e.from \in Nat /\ e.until \in Nat
    BY <2>3, ConstantsAssumption DEF Ids, EvidenceOK
  <2>8. RevocationWindow'
    <3>1. SUFFICES ASSUME Strict, revoked[e.id] # None
                   PROVE  now <= revoked[e.id] + MaxAge
      BY <1>1, <2>1, <2>6 DEF RevocationWindow
    <3>2. /\ proof.checkedAt \in Nat /\ now - proof.checkedAt <= MaxAge
          /\ proof.checkedAt <= revoked[e.id]
      BY <2>4, <3>1 DEF ProofHolds, StatusFresh, ProofSound, Proof
    <3>3. revoked[e.id] \in Nat /\ now \in Nat /\ MaxAge \in Nat
      BY <2>7, <3>1, ConstantsAssumption DEF TypeOK
    <3>4. QED
      BY <3>2, <3>3
  <2>9. AuthorityInForce'
    <3>1. SUFFICES ASSUME Strict
                   PROVE  /\ e.from <= now /\ now < e.until
                          /\ e.actor = q.actor
                          /\ e.snapshot = q.snapshot
                          /\ e.version = q.contract.version
                          /\ q.scope \subseteq e.grants \ e.limits
                          /\ e.key \in signers
      BY <2>1, <2>6 DEF AuthorityInForce
    <3>2. ProofHolds(proof, q) /\ e = proof.evidence /\ proof # None
      BY <2>4, <3>1
    <3>3. /\ e.from <= now /\ now < e.until /\ e.actor = q.actor /\ e.snapshot = q.snapshot
          /\ e.version = q.contract.version /\ Grants(e, q.scope)
      BY <3>2 DEF ProofHolds, InWindow
    <3>4. e.key \in signers
      BY <3>2 DEF ProofHolds, PolicyPinned, ProofSound
    <3>5. QED
      BY <3>3, <3>4 DEF Grants
  <2>10. ApprovalInForce'
    <3> DEFINE r == x.approval.receipt
    <3>1. SUFFICES ASSUME Strict, q.contract.needsApproval
                   PROVE  /\ r # None
                          /\ r.approved /\ now < r.expires
                          /\ q.scope \subseteq r.scope
                          /\ r.class = q.contract.class
                          /\ r.snapshot = q.snapshot
                          /\ r.authority = e.id
                          /\ q.exact => r.intent = q.intent
      BY <2>1, <2>6 DEF ApprovalInForce
    <3>2. r \in Receipts /\ Bound(r, q, e) /\ ReceiptValid(r, q)
      BY <2>5, <3>1 DEF ApprovalGood
    <3>3. r # None
      BY <3>2, ConstantsAssumption
    <3>4. q.snapshot # None
      BY <2>2 DEF SnapshotResolved
    <3>5. QED
      BY <2>2, <3>2, <3>3, <3>4 DEF Bound, ReceiptValid
  <2>11. BoundaryClosed'
    <3>1. Strict => x.entry # "core"
      BY <2>4
    <3>2. (Strict /\ x.entry = "boundary") => ~q.contract.needsApproval
      BY <2>5
    <3>3. QED
      BY <2>1, <2>6, <3>1, <3>2 DEF BoundaryClosed
  <2>12. WithinContract'
    <3>1. Grants(e, q.scope)
      <4>1. CASE ProvenanceVerified(x)
        <5>1. x.authority.useProof /\ ProofHolds(proof, q)
          BY <4>1 DEF ProvenanceVerified
        <5>2. e = proof.evidence
          BY <5>1, GivenForms
        <5>3. QED
          BY <5>1, <5>2 DEF ProofHolds
      <4>2. CASE ~ProvenanceVerified(x)
        BY <2>2, <4>2 DEF AuthorityValid
      <4>3. QED
        BY <4>1, <4>2
    <3>2. q.scope \subseteq e.grants \ e.limits
      BY <3>1 DEF Grants
    <3>3. q.scope \subseteq q.contract.allowed \ q.contract.prohibited
      BY <2>2
    <3>4. e.snapshot \in {q.snapshot, None}
      BY <2>2 DEF SnapshotResolved
    <3>5. \A k \in q.contract.evidence : q.meta[k].present
      BY <2>2 DEF Required
    <3>6. QED
      BY <2>1, <2>2, <3>2, <3>3, <3>4, <3>5 DEF WithinContract
  <2>13. QED
    BY <2>8, <2>9, <2>10, <2>11, <2>12 DEF InForce
<1>4. QED
  BY <1>2, <1>3

-----------------------------------------------------------------------------
(* The invariant *)

\* Between evaluations nothing is committed.
LEMMA NothingCommitted ==
  ASSUME outcome' = None
  PROVE  InForce'
<1>1. ~Committed'
  BY ConstantsAssumption DEF Committed, Outcomes
<1>2. QED
  BY <1>1 DEF InForce, RevocationWindow, AuthorityInForce, ApprovalInForce, BoundaryClosed,
     WithinContract

\* The world, the callers and the answer change no verdict.
LEMMA WorldKeeps ==
  ASSUME Inv, Tick \/ Restart \/ (\E id \in Ids : Revoke(id)) \/ (\E k \in Keys : WithdrawKey(k))
  PROVE  TypeOK' /\ ProofSound' /\ outcome' = None
<1>0. TypeOK /\ ProofSound
  BY DEF Inv
<1>1. outcome' = None /\ UNCHANGED <<posture, verifier, last>>
  BY DEF Tick, Restart, Revoke, WithdrawKey, Idle
<1>2. CASE Tick
  <2>1. now \in Nat /\ now' = now + 1 /\ UNCHANGED <<signers, revoked, proof, approval, state>>
    BY <1>0, <1>2 DEF Tick, TypeOK, held
  <2>2. TypeOK'
    BY <1>0, <1>1, <2>1 DEF TypeOK
  <2>3. proof # None => proof.checkedAt \in Nat
    BY <1>0 DEF TypeOK, Proof
  <2>4. QED
    BY <1>0, <1>1, <2>1, <2>2, <2>3 DEF ProofSound
<1>3. CASE Restart
  <2>1. /\ UNCHANGED <<now, signers, revoked, state>>
        /\ proof' = IF proof = None THEN None ELSE [proof EXCEPT !.registered = FALSE]
        /\ approval' = IF approval = None THEN None ELSE [approval EXCEPT !.registered = FALSE]
    BY <1>3 DEF Restart
  <2>2. proof # None => /\ proof' \in Proof /\ proof'.evidence = proof.evidence
                        /\ proof'.checkedAt = proof.checkedAt /\ proof'.signers = proof.signers
    BY <1>0, <2>1 DEF TypeOK, Proof
  <2>3. approval' \in ApprovalProof \union {None}
    BY <1>0, <2>1 DEF TypeOK, ApprovalProof
  <2>4. TypeOK'
    BY <1>0, <1>1, <2>1, <2>2, <2>3 DEF TypeOK
  <2>5. ProofSound'
    BY <1>0, <2>1, <2>2 DEF ProofSound
  <2>6. QED
    BY <1>1, <2>4, <2>5
<1>4. ASSUME NEW id \in Ids, Revoke(id)
      PROVE  TypeOK' /\ ProofSound'
  <2>1. /\ revoked[id] = None /\ revoked' = [revoked EXCEPT ![id] = now]
        /\ UNCHANGED <<now, signers, proof, approval, state>>
    BY <1>4 DEF Revoke, held
  <2>2. TypeOK'
    BY <1>0, <1>1, <2>1 DEF TypeOK
  <2>3. ProofSound'
    BY <1>0, <2>1 DEF TypeOK, ProofSound
  <2>4. QED
    BY <2>2, <2>3
<1>5. ASSUME NEW k \in Keys, WithdrawKey(k)
      PROVE  TypeOK' /\ ProofSound'
  <2>1. signers' = signers \ {k} /\ UNCHANGED <<now, revoked, proof, approval, state>>
    BY <1>5 DEF WithdrawKey, held
  <2>2. TypeOK'
    BY <1>0, <1>1, <2>1 DEF TypeOK
  <2>3. ProofSound'
    BY <1>0, <2>1 DEF ProofSound
  <2>4. QED
    BY <2>2, <2>3
<1>6. QED
  BY <1>1, <1>2, <1>3, <1>4, <1>5

\* Verified artefacts.
LEMMA VerifyKeeps ==
  ASSUME Inv, NEW q \in Requests,
         \/ \E e \in Evidence : VerifyAuthority(e, q)
         \/ \E r \in Receipts : VerifyApproval(r, q) \/ BuildState(r, q)
  PROVE  TypeOK' /\ ProofSound' /\ outcome' = None
<1>0. TypeOK /\ ProofSound
  BY DEF Inv
<1>1. outcome' = None /\ UNCHANGED <<posture, verifier, last, now, signers, revoked>>
  BY DEF VerifyAuthority, VerifyApproval, BuildState, Idle
<1>2. ASSUME NEW e \in Evidence, VerifyAuthority(e, q)
      PROVE  TypeOK' /\ ProofSound'
  <2>1. PICK t \in 0 .. now :
          /\ NotRevokedAt(e.id, t)
          /\ proof' = [evidence |-> e, signers |-> signers, verifier |-> verifier,
                       checkedAt |-> t, registered |-> TRUE]
    BY <1>2 DEF VerifyAuthority
  <2>2. e.key \in signers /\ UNCHANGED <<approval, state>>
    BY <1>2 DEF VerifyAuthority, SignerAllowed
  <2>3. now \in Nat /\ t \in Nat /\ t <= now
    BY <1>0 DEF TypeOK
  <2>4. proof' \in Proof
    BY <1>0, <2>1, <2>3 DEF TypeOK, Proof
  <2>5. /\ proof'.checkedAt = t /\ proof'.evidence = e /\ proof'.signers = signers
    BY <2>1
  <2>6. TypeOK'
    BY <1>0, <1>1, <2>2, <2>4 DEF TypeOK
  <2>7. revoked[e.id] # None => t <= revoked[e.id]
    <3>1. e.id \in Ids
      BY DEF Ids
    <3>2. revoked[e.id] # None => revoked[e.id] \in Nat
      BY <1>0, <3>1 DEF TypeOK
    <3>3. QED
      BY <2>1, <2>3, <3>2 DEF NotRevokedAt
  <2>8. ProofSound'
    BY <1>1, <2>2, <2>3, <2>5, <2>7 DEF ProofSound
  <2>9. QED
    BY <2>6, <2>8
<1>3. ASSUME NEW r \in Receipts, VerifyApproval(r, q) \/ BuildState(r, q)
      PROVE  TypeOK' /\ ProofSound'
  <2>1. proof' = proof /\ state' \in BOOLEAN
    BY <1>0, <1>3 DEF VerifyApproval, BuildState, TypeOK
  <2>2. approval' \in ApprovalProof \union {None}
    <3>1. verifier \in Verifiers /\ approval \in ApprovalProof \union {None}
      BY <1>0 DEF TypeOK
    <3>2. [receipt |-> r, verifier |-> verifier, registered |-> TRUE] \in ApprovalProof
      BY <3>1 DEF ApprovalProof
    <3>3. QED
      BY <1>3, <3>1, <3>2 DEF VerifyApproval, BuildState
  <2>3. QED
    BY <1>0, <1>1, <2>1, <2>2 DEF TypeOK, ProofSound
<1>4. QED
  BY <1>1, <1>2, <1>3

LEMMA InitInv ==
  Init => Inv
<1>1. SUFFICES ASSUME Init PROVE Inv
  OBVIOUS
<1>2. TypeOK
  BY <1>1 DEF Init, TypeOK
<1>3. ProofSound
  BY <1>1 DEF Init, ProofSound
<1>4. ~Committed
  BY <1>1, ConstantsAssumption DEF Init, Committed, Outcomes
<1>5. InForce
  BY <1>4 DEF InForce, RevocationWindow, AuthorityInForce, ApprovalInForce, BoundaryClosed,
     WithinContract
<1>6. QED
  BY <1>2, <1>3, <1>5 DEF Inv

LEMMA NextInv ==
  Inv /\ [Next]_vars => Inv'
<1>1. SUFFICES ASSUME Inv, [Next]_vars PROVE Inv'
  OBVIOUS
<1>2. CASE UNCHANGED vars
  <2>1. UNCHANGED <<posture, verifier, now, signers, revoked, proof, approval, state,
                    outcome, last>>
    BY <1>2 DEF vars, held
  <2>2. TypeOK' /\ ProofSound'
    BY <1>1, <2>1 DEF Inv, TypeOK, ProofSound
  <2>3. InForce'
    BY <1>1, <2>1 DEF Inv, InForce, RevocationWindow, AuthorityInForce, ApprovalInForce,
       BoundaryClosed, WithinContract, Committed, Strict
  <2>4. QED
    BY <2>2, <2>3 DEF Inv
<1>3. CASE Tick \/ Restart \/ (\E id \in Ids : Revoke(id)) \/ (\E k \in Keys : WithdrawKey(k))
  <2>1. TypeOK' /\ ProofSound' /\ outcome' = None
    BY <1>1, <1>3, WorldKeeps
  <2>2. QED
    BY <2>1, NothingCommitted DEF Inv
<1>4. ASSUME NEW q \in Requests,
             \/ \E e \in Evidence : VerifyAuthority(e, q)
             \/ \E r \in Receipts : VerifyApproval(r, q) \/ BuildState(r, q)
      PROVE  Inv'
  <2>1. TypeOK' /\ ProofSound' /\ outcome' = None
    BY <1>1, <1>4, VerifyKeeps
  <2>2. QED
    BY <2>1, NothingCommitted DEF Inv
<1>5. ASSUME NEW entry \in Entries, NEW q \in Requests, NEW a \in AuthorityGiven(entry),
             NEW h \in ApprovalGiven(entry),
             Evaluate([entry |-> entry, request |-> q, authority |-> a, approval |-> h])
      PROVE  Inv'
  <2> DEFINE x == [entry |-> entry, request |-> q, authority |-> a, approval |-> h]
  <2>1. Given(x) /\ Evaluate(x)
    BY <1>5 DEF Given
  <2>2. TypeOK /\ ProofSound
    BY <1>1 DEF Inv
  <2>3. proof' = proof /\ now' = now /\ revoked' = revoked
    BY <2>1 DEF Evaluate, held
  <2> HIDE DEF x
  <2>4. TypeOK' /\ InForce'
    BY <2>1, <2>2, EvaluateType, EvaluateInForce
  <2>5. ProofSound'
    BY <2>2, <2>3 DEF ProofSound
  <2>6. QED
    BY <2>4, <2>5 DEF Inv
<1>6. CASE Answer
  <2>1. /\ outcome' = None /\ last' = None
        /\ UNCHANGED <<posture, verifier, now, signers, revoked, proof, approval, state>>
    BY <1>6 DEF Answer, held
  <2>2. TypeOK' /\ ProofSound'
    BY <1>1, <2>1 DEF Inv, TypeOK, ProofSound
  <2>3. QED
    BY <2>1, <2>2, NothingCommitted DEF Inv
<1>7. QED
  BY <1>1, <1>2, <1>3, <1>4, <1>5, <1>6 DEF Next

LEMMA Invariant ==
  Spec => []Inv
<1>1. QED
  BY InitInv, NextInv, PTL DEF Spec

-----------------------------------------------------------------------------
(* Theorems *)

\* The variables keep their types, and validate always ends in one of the four
\* outcomes.
THEOREM TypeCorrect ==
  Spec => []TypeOK
<1>1. Inv => TypeOK
  BY DEF Inv
<1>2. QED
  BY <1>1, Invariant, PTL

\* In secure and prod a revoked authority is good for MaxAge longer at most.
THEOREM RevocationBounded ==
  Spec => []RevocationWindow
<1>1. Inv => RevocationWindow
  BY DEF Inv, InForce
<1>2. QED
  BY <1>1, Invariant, PTL

\* In secure and prod what may be committed has an authority in force.
THEOREM AuthorityIsInForce ==
  Spec => []AuthorityInForce
<1>1. Inv => AuthorityInForce
  BY DEF Inv, InForce
<1>2. QED
  BY <1>1, Invariant, PTL

\* In secure and prod what needs a human approval has one that is bound to it.
THEOREM ApprovalIsInForce ==
  Spec => []ApprovalInForce
<1>1. Inv => ApprovalInForce
  BY DEF Inv, InForce
<1>2. QED
  BY <1>1, Invariant, PTL

\* In secure and prod the bind core gets no regulated action through.
THEOREM BoundaryIsClosed ==
  Spec => []BoundaryClosed
<1>1. Inv => BoundaryClosed
  BY DEF Inv, InForce
<1>2. QED
  BY <1>1, Invariant, PTL

\* In every posture what may be committed stays within its contract.
THEOREM ContractIsKept ==
  Spec => []WithinContract
<1>1. Inv => WithinContract
  BY DEF Inv, InForce
<1>2. QED
  BY <1>1, Invariant, PTL
=============================================================================
