-------------------------- MODULE PromotionPackets --------------------------
(***************************************************************************)
(* The packets that carry a decision from its handoff to the review of the *)
(* bind authorization gate (policy/guarded_promotion_eligibility.py to     *)
(* policy/live_adapter_dry_run_bind_authorization_gate_review.py). Each    *)
(* packet embeds the one it is built from, so that a chain c of packets is *)
(* its last one; c[k] is the packet of the k-th stage.                     *)
(*                                                                         *)
(* A packet holds                                                          *)
(*   at      the time its builder was given                                *)
(*   input   the documents its builder was given                           *)
(*   result  what the stage derives: identities, the intent, an outcome    *)
(*   copied  what COPIED_FIELDS repeat of the source, by slot              *)
(*   sealed  its summary of the source and all its digests are those of    *)
(*           the content it embeds                                         *)
(* Fixed values (checks, requirements, scope limitations, effect flags)    *)
(* are compared with constants of the code and left out.                   *)
(*                                                                         *)
(* Handoffs and adapter contracts are content addressed: their name stands *)
(* for the digest of the document.                                         *)
(***************************************************************************)
EXTENDS DecisionHandoff, Sequences

CONSTANTS
  Handoffs,       \* handoff documents by digest
  Descriptors     \* adapter contract descriptors by digest

Source(c) == c[Len(c)]

-----------------------------------------------------------------------------
(* What a packet repeats of its source *)

\* What the packet of the last stage of c adds to the copied fields.
Adds(c) ==
  LET p == Source(c) IN
  CASE Len(c) = 1 -> [identity |-> p.result.identity]
    [] Len(c) = 2 -> [mapping |-> p.result]
    [] Len(c) = 3 -> [intent |-> p.result]
    [] Len(c) = 6 -> [contract |-> p.input]
    [] Len(c) = 8 -> [fixtures |-> p.input]
    [] Len(c) = 9 -> [rehearsal |-> p.result]
    [] Len(c) = 11 -> [request |-> p.result]
    [] Len(c) = 13 -> [endpoint |-> p.input.candidate]
    [] Len(c) = 14 -> [credential |-> p.input.reference]
    [] Len(c) = 15 -> [operator |-> p.input]
    [] Len(c) = 16 -> [predispatch |-> p.input]
    [] Len(c) = 17 -> [authority |-> p.input]
    [] Len(c) = 18 -> [approval |-> p.input]
    [] Len(c) = 19 -> [final |-> p.result]
    [] OTHER -> <<>>

\* Rehearsals are repeated up to the request, reviews up to the linkages.
Dropped(k) ==
  (IF k >= 12 THEN {"fixtures", "rehearsal"} ELSE {})
    \union (IF k >= 19 THEN {"operator", "predispatch"} ELSE {})

\* The copied fields of a packet built on c.
Copied(c) ==
  IF c = <<>> THEN <<>>
  ELSE LET old == Source(c).copied
           new == Adds(c)
       IN [s \in (DOMAIN old \union DOMAIN new) \ Dropped(Len(c) + 1) |->
             IF s \in DOMAIN old THEN old[s] ELSE new[s]]

Packet(c, at, input, result) ==
  [at |-> at, input |-> input, result |-> result, copied |-> Copied(c), sealed |-> TRUE]

\* Digests and copied fields are those of the source; every verify starts so.
Bound(c, p) == p.sealed /\ p.copied = Copied(c)

NotBefore(c, at) == at >= Source(c).at

-----------------------------------------------------------------------------
(* 1. Guarded promotion eligibility *)

Identities(h) ==
  [candidate |-> h.candidate, authority |-> h.authority, approval |-> h.approval,
   policy |-> h.policy, replay |-> h.replay]

EligibilityResult(input) ==
  [status |-> Validate(Handoffs[input.handoff], input.evaluated),
   identity |-> Identities(Handoffs[input.handoff])]

\* _identities subscripts both kinds of evidence: without them it raises.
HasEvidence(input) ==
  Handoffs[input.handoff].authority # None /\ Handoffs[input.handoff].approval # None

\* The replay has the identity of what it replays.
Collapsed(replay) ==
  /\ replay.originalRequest # None
  /\ replay.originalRequest = replay.replayRequest \/ replay.original = replay.replayDecision

BuildEligibility(c, at, input) ==
  /\ at >= input.evaluated
  /\ EligibilityResult(input).status = "READY_FOR_GUARDED_PROMOTION"
  /\ HasEvidence(input)

VerifyEligibility(c, p) ==
  /\ Bound(c, p)
  /\ p.at >= p.input.evaluated
  /\ EligibilityResult(p.input).status = "READY_FOR_GUARDED_PROMOTION"
  /\ HasEvidence(p.input)
  /\ p.result = EligibilityResult(p.input)
  /\ ~Collapsed(p.result.identity.replay)

-----------------------------------------------------------------------------
(* 2. Formation readiness *)

Mapping(identity) ==
  [actor |-> identity.candidate.actor, target |-> identity.candidate.target,
   action |-> identity.candidate.contract, policy |-> identity.policy,
   evidence |-> {identity.authority, identity.approval}]

\* _require_source_fields
FieldsPresent(identity) ==
  /\ identity.candidate.actor # None /\ identity.candidate.target # None
  /\ identity.candidate.contract # None
  /\ ~Collapsed(identity.replay)

BuildReadiness(c, at, input) ==
  /\ Source(c).result.status = "READY_FOR_GUARDED_PROMOTION"
  /\ FieldsPresent(Source(c).result.identity)
  /\ NotBefore(c, at)

ReadinessResult(c) == Mapping(Source(c).result.identity)

VerifyReadiness(c, p) ==
  /\ Source(c).result.status = "READY_FOR_GUARDED_PROMOTION"
  /\ FieldsPresent(Source(c).result.identity)
  /\ NotBefore(c, p.at)
  /\ Bound(c, p)
  /\ p.result = ReadinessResult(c)

-----------------------------------------------------------------------------
(* 3. Execution intent formation *)

\* The id is a digest of the readiness packet, and so of all it embeds.
IntentId(c) == [handoff |-> c[1].input, issued |-> c[1].at, checked |-> c[2].at,
                mapping |-> c[2].result]

FormationResult(c) == [id |-> IntentId(c), fields |-> Source(c).result]

BuildFormation(c, at, input) == NotBefore(c, at)

VerifyFormation(c, p) ==
  NotBefore(c, p.at) /\ Bound(c, p) /\ p.result = FormationResult(c)

-----------------------------------------------------------------------------
(* 4. Pre-bind validation, 5. bind preflight adjudication *)

\* _reconstruct_intent: the copied intent is well formed.
WellFormed(intent) ==
  intent.fields.actor # None /\ intent.fields.target # None /\ intent.fields.action # None
    /\ intent.fields.evidence # {}

BuildPreBind(c, at, input) == NotBefore(c, at)

VerifyPreBind(c, p) ==
  NotBefore(c, p.at) /\ Bound(c, p) /\ WellFormed(p.copied.intent)

BuildPreflight(c, at, input) == NotBefore(c, at)

\* Mutant: the copied fields are not compared with the source's.
VerifyPreflightUnbound(c, p) == NotBefore(c, p.at) /\ p.sealed

VerifyPreflight(c, p) ==
  NotBefore(c, p.at) /\ Bound(c, p) /\ p.copied.intent.fields.evidence # {}

-----------------------------------------------------------------------------
(* 6. Adapter contract selection, 7. dry-run plan *)

\* _descriptor: methods and effect profile as required, for the intent's target.
Selectable(name, intent) ==
  Descriptors[name].conforming /\ Descriptors[name].target = intent.fields.target

ForTarget(name, intent) == Descriptors[name].target = intent.fields.target

BuildSelection(c, at, input) ==
  NotBefore(c, at) /\ Selectable(input, Source(c).copied.intent)

VerifySelection(c, p) ==
  NotBefore(c, p.at) /\ Bound(c, p) /\ Selectable(p.input, p.copied.intent)

BuildPlan(c, at, input) ==
  NotBefore(c, at) /\ ForTarget(Source(c).input, Source(c).copied.intent)

VerifyPlan(c, p) == NotBefore(c, p.at) /\ Bound(c, p)

-----------------------------------------------------------------------------
(* 8. Fixture results, 9. rehearsal in memory *)

\* _fixture_results: one for each planned step, and nothing but fixtures.
FixtureResults(input) == input = "fixture for every step"

BuildFixtureResult(c, at, input) ==
  /\ NotBefore(c, at)
  /\ ForTarget(Source(c).copied.contract, Source(c).copied.intent)
  /\ FixtureResults(input)

VerifyFixtureResult(c, p) ==
  /\ NotBefore(c, p.at)
  /\ Bound(c, p)
  /\ ForTarget(p.copied.contract, p.copied.intent)
  /\ FixtureResults(p.input)

\* The reference adapter answers with digests of the source's intent and of the
\* fixture it is given, which is not kept, and with the intent's target.
RehearsalResult(c, fixture) ==
  LET intent == Source(c).copied.intent IN
  [output |-> [intent |-> intent, target |-> intent.fields.target, fixture |-> fixture],
   effect |-> FALSE]

BuildRehearsal(c, at, input) ==
  NotBefore(c, at) /\ ForTarget(Source(c).copied.contract, Source(c).copied.intent)

\* The output is compared with its own digest only, not with the intent or the
\* target; of the flags none may tell of an effect.
VerifyRehearsal(c, p) ==
  /\ Bound(c, p)
  /\ NotBefore(c, p.at)
  /\ ForTarget(p.copied.contract, p.copied.intent)
  /\ ~p.result.effect

-----------------------------------------------------------------------------
(* 10. Live readiness, 11. request, 12. dispatch readiness *)

\* _validate_source of the readiness packet
RehearsedWithoutEffect(c) ==
  ForTarget(Source(c).copied.contract, Source(c).copied.intent) /\ ~Source(c).result.effect

BuildLiveReadiness(c, at, input) == RehearsedWithoutEffect(c) /\ NotBefore(c, at)

VerifyLiveReadiness(c, p) == RehearsedWithoutEffect(c) /\ NotBefore(c, p.at) /\ Bound(c, p)

\* _build_expected_request_descriptor
RequestResult(c) ==
  [intent |-> Source(c).copied.intent.id, contract |-> Source(c).copied.contract]

BuildRequest(c, at, input) ==
  NotBefore(c, at) /\ ForTarget(Source(c).copied.contract, Source(c).copied.intent)

VerifyRequest(c, p) ==
  /\ ForTarget(Source(c).copied.contract, Source(c).copied.intent)
  /\ NotBefore(c, p.at)
  /\ Bound(c, p)
  /\ p.result = RequestResult(c)

BuildDispatchReadiness(c, at, input) == NotBefore(c, at)

VerifyDispatchReadiness(c, p) == Bound(c, p) /\ NotBefore(c, p.at)

-----------------------------------------------------------------------------
(* 13. Endpoint allowlist, 14. credential authorization *)

\* _evaluation: an active entry whose exact fields all match.
Matched(input) ==
  \E e \in input.snapshot :
    /\ e.active
    /\ e.address = input.candidate.address
    /\ input.candidate.contract \in e.contracts
    /\ input.candidate.target.system \in e.systems
    /\ input.candidate.target.resource \in e.resources
    /\ input.candidate.purpose \in e.purposes

BuildAllowlist(c, at, input) == NotBefore(c, at)

VerifyAllowlist(c, p) == Bound(c, p) /\ p.result = Matched(p.input) /\ NotBefore(c, p.at)

\* _evaluation: the same for the reference; its kind stands for the kind,
\* provider type, scope and environment.
Authorized(input) ==
  \E e \in input.policy :
    /\ e.active
    /\ e.kind = input.reference.kind
    /\ input.reference.contract \in e.contracts
    /\ input.reference.endpoint \in e.endpoints
    /\ input.reference.target.system \in e.systems
    /\ input.reference.target.resource \in e.resources
    /\ input.reference.purpose \in e.purposes

\* The reference is for the chain's contract and endpoint: asked by build only.
BuildCredential(c, at, input) ==
  /\ Source(c).result
  /\ input.reference.contract = Source(c).copied.contract
  /\ input.reference.endpoint = Source(c).input.candidate.id
  /\ NotBefore(c, at)

VerifyCredential(c, p) ==
  Source(c).result /\ Bound(c, p) /\ p.result = Authorized(p.input) /\ NotBefore(c, p.at)

-----------------------------------------------------------------------------
(* 15. Operator review, 16. bind pre-dispatch review *)

\* _validate_decision: the review names what the source is about.
Reviews(c, d) ==
  /\ d.endpoint = Source(c).copied.endpoint.id
  /\ d.contract = Source(c).copied.contract
  /\ d.credential = Source(c).input.reference.id
  /\ d.target = Source(c).input.reference.target

Approves(d) == d.decision = "APPROVE_FOR_BIND_PRE_DISPATCH_REVIEW"

BuildOperatorReview(c, at, input) ==
  Source(c).result /\ Reviews(c, input) /\ at >= input.reviewed

VerifyOperatorReview(c, p) ==
  /\ Source(c).result
  /\ Bound(c, p)
  /\ Reviews(c, p.input)
  /\ p.at >= p.input.reviewed
  /\ p.result = Approves(p.input)

Accepts(d) == d.accept

\* _validate_source: not fail_closed, and the decision itself approves.
OperatorApproved(c) == Source(c).result /\ Approves(Source(c).input)

BuildPreDispatch(c, at, input) == OperatorApproved(c) /\ at >= input.reviewed

VerifyPreDispatch(c, p) ==
  OperatorApproved(c) /\ Bound(c, p) /\ p.at >= p.input.reviewed /\ p.result = Accepts(p.input)

-----------------------------------------------------------------------------
(* 17. Authority evidence linkage, 18. human approval linkage *)

\* _bundle: references with distinct ids that cover the bundle's scope, each
\* declared to be linkable and in force when the linkage is recorded.
Bundle(b, when) ==
  /\ b.references # {}
  /\ \A r, s \in b.references : r.id = s.id => r = s
  /\ b.scope \subseteq {r.scope : r \in b.references}
  /\ \A r \in b.references :
       r.declared /\ r.expires > when /\ r.issued <= when /\ r.expires > r.issued

\* _matrix: the operation that a reference must name.
Names(r, copied) ==
  /\ r.intent = copied.intent.id
  /\ r.contract = copied.contract
  /\ r.endpoint = copied.endpoint.id
  /\ r.credential = copied.credential.id
  /\ r.target = copied.credential.target
  /\ r.purpose = copied.credential.purpose

\* Claims supplied with the bundle: each says truly whether its values match,
\* and is about a reference of the bundle.
ClaimsValid(b) ==
  \A m \in b.claims :
    m.matched = (m.expected = m.actual) /\ m.reference \in {r.id : r \in b.references}

BuildAuthority(c, at, input) ==
  /\ Source(c).result
  /\ Bundle(input, at) /\ ClaimsValid(input)
  /\ \A r \in input.references : Names(r, Source(c).copied)

VerifyAuthority(c, p) ==
  /\ Source(c).result /\ Bound(c, p) /\ p.result
  /\ Bundle(p.input, p.at) /\ ClaimsValid(p.input)
  /\ \A r \in p.input.references : Names(r, Source(c).copied)

\* An approval names exactly the authority references of the source's bundle.
NamesAuthority(c, r) == r.authorities = {a.id : a \in Source(c).input.references}

BuildApproval(c, at, input) ==
  /\ Source(c).result
  /\ Bundle(input, at) /\ ClaimsValid(input)
  /\ \A r \in input.references : Names(r, Source(c).copied) /\ NamesAuthority(c, r)

\* Mutant: the approved intent is not compared.
VerifyApprovalAnyIntent(c, p) ==
  /\ Source(c).result /\ Bound(c, p) /\ p.result
  /\ Bundle(p.input, p.at) /\ ClaimsValid(p.input)
  /\ \A r \in p.input.references :
       Names([r EXCEPT !.intent = p.copied.intent.id], Source(c).copied) /\ NamesAuthority(c, r)

VerifyApproval(c, p) ==
  /\ Source(c).result /\ Bound(c, p) /\ p.result
  /\ Bundle(p.input, p.at) /\ ClaimsValid(p.input)
  /\ \A r \in p.input.references : Names(r, Source(c).copied) /\ NamesAuthority(c, r)

-----------------------------------------------------------------------------
(* 19. Final readiness, 20. gate review: no time is compared *)

\* _validate_source: both linkages, and the pre-dispatch review below them.
Linked(c) == \A k \in Len(c) - 2 .. Len(c) : c[k].result

BuildFinalReadiness(c, at, input) == Linked(c) /\ input.acknowledged

VerifyFinalReadiness(c, p) ==
  Linked(c) /\ Bound(c, p) /\ p.input.acknowledged /\ p.result = Accepts(p.input)

BuildGateReview(c, at, input) == Source(c).result /\ input.acknowledged

VerifyGateReview(c, p) ==
  Source(c).result /\ Bound(c, p) /\ p.input.acknowledged /\ p.result = Accepts(p.input)
=============================================================================
