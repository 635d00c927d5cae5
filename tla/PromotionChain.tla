--------------------------- MODULE PromotionChain ---------------------------
(***************************************************************************)
(* The chain of promotion packets as it grows, one builder after another,  *)
(* by callers that supply times, documents and decisions, and as it is     *)
(* changed between two builders: the packets are JSON documents that pass  *)
(* through the hands of those who build, review and approve. Every builder *)
(* verifies the chain it is given and the packet it makes.                 *)
(***************************************************************************)
EXTENDS PromotionPackets

CONSTANTS
  Times,            \* times that callers supply
  Timed,            \* bound: stages whose time may differ from the source's
  EditAt,           \* bound: lengths at which a chain is edited
  FixtureInputs,    \* results for the planned steps
  Fixtures,         \* fixtures of a rehearsal
  Candidates,       \* endpoint candidates with the snapshot they are compared with
  References,       \* credential references with the policy
  Decisions,        \* operator decisions
  Outcomes,         \* outcomes of the later reviews
  Authorities,      \* bundles of authority references
  Approvals         \* bundles of approval references

\* Times are integers, also those of the evidence and of the references.
ASSUME TimesAssumption ==
  /\ Times \subseteq Int
  /\ \A n \in DOMAIN Handoffs :
       \A e \in {Handoffs[n].authority, Handoffs[n].approval, Handoffs[n].policy} :
         e # None => e.issued \in Int /\ e.expires \in Int
  /\ \A b \in Authorities \union Approvals :
       \A r \in b.references : r.issued \in Int /\ r.expires \in Int

VARIABLES
  chain,            \* the packets, each embedding those before it
  edited            \* a document was changed by hand

vars == <<chain, edited>>

Init == chain = <<>> /\ edited = FALSE

-----------------------------------------------------------------------------
(* Verification *)

\* The verify function of the stage that p has on c.
Verify(c, p) ==
  LET k == Len(c) + 1 IN
  CASE k = 1 -> VerifyEligibility(c, p)
    [] k = 2 -> VerifyReadiness(c, p)
    [] k = 3 -> VerifyFormation(c, p)
    [] k = 4 -> VerifyPreBind(c, p)
    [] k = 5 -> VerifyPreflight(c, p)
    [] k = 6 -> VerifySelection(c, p)
    [] k = 7 -> VerifyPlan(c, p)
    [] k = 8 -> VerifyFixtureResult(c, p)
    [] k = 9 -> VerifyRehearsal(c, p)
    [] k = 10 -> VerifyLiveReadiness(c, p)
    [] k = 11 -> VerifyRequest(c, p)
    [] k = 12 -> VerifyDispatchReadiness(c, p)
    [] k = 13 -> VerifyAllowlist(c, p)
    [] k = 14 -> VerifyCredential(c, p)
    [] k = 15 -> VerifyOperatorReview(c, p)
    [] k = 16 -> VerifyPreDispatch(c, p)
    [] k = 17 -> VerifyAuthority(c, p)
    [] k = 18 -> VerifyApproval(c, p)
    [] k = 19 -> VerifyFinalReadiness(c, p)
    [] k = 20 -> VerifyGateReview(c, p)

Prefix(c, k) == SubSeq(c, 1, k)

\* Each verify function verifies the packet it embeds first.
Verified(c) == \A k \in DOMAIN c : Verify(Prefix(c, k - 1), c[k])

\* What the stage of the packet after c derives.
Derived(c, input) ==
  LET k == Len(c) + 1 IN
  CASE k = 1 -> EligibilityResult(input)
    [] k = 2 -> ReadinessResult(c)
    [] k = 3 -> FormationResult(c)
    [] k = 11 -> RequestResult(c)
    [] k = 13 -> Matched(input)
    [] k = 14 -> Authorized(input)
    [] k = 15 -> Approves(input)
    [] k \in {17, 18} -> TRUE
    [] k \in {16, 19, 20} -> Accepts(input)
    [] OTHER -> None

-----------------------------------------------------------------------------
(* Builders *)

\* What the builder of the packet after c asks of its arguments.
Admits(c, at, input) ==
  LET k == Len(c) + 1 IN
  CASE k = 1 -> BuildEligibility(c, at, input)
    [] k = 2 -> BuildReadiness(c, at, input)
    [] k = 3 -> BuildFormation(c, at, input)
    [] k = 4 -> BuildPreBind(c, at, input)
    [] k = 5 -> BuildPreflight(c, at, input)
    [] k = 6 -> BuildSelection(c, at, input)
    [] k = 7 -> BuildPlan(c, at, input)
    [] k = 8 -> BuildFixtureResult(c, at, input)
    [] k = 9 -> BuildRehearsal(c, at, input)
    [] k = 10 -> BuildLiveReadiness(c, at, input)
    [] k = 11 -> BuildRequest(c, at, input)
    [] k = 12 -> BuildDispatchReadiness(c, at, input)
    [] k = 13 -> BuildAllowlist(c, at, input)
    [] k = 14 -> BuildCredential(c, at, input)
    [] k = 15 -> BuildOperatorReview(c, at, input)
    [] k = 16 -> BuildPreDispatch(c, at, input)
    [] k = 17 -> BuildAuthority(c, at, input)
    [] k = 18 -> BuildApproval(c, at, input)
    [] k = 19 -> BuildFinalReadiness(c, at, input)
    [] k = 20 -> BuildGateReview(c, at, input)

\* The times a caller may give.
At == IF chain = <<>> \/ Len(chain) + 1 \in Timed THEN Times ELSE {Source(chain).at}

\* A builder verifies its source, makes the packet and verifies it.
Build(k, at, input, result) ==
  /\ Len(chain) = k - 1
  /\ Verified(chain)
  /\ Admits(chain, at, input)
  /\ LET p == Packet(chain, at, input, result)
     IN Verify(chain, p) /\ chain' = Append(chain, p)
  /\ UNCHANGED edited

Eligibility ==
  \E at \in At, h \in DOMAIN Handoffs, e \in Times :
    LET input == [handoff |-> h, evaluated |-> e]
    IN Build(1, at, input, EligibilityResult(input))

Readiness == \E at \in At : Build(2, at, None, ReadinessResult(chain))

Formation == \E at \in At : Build(3, at, None, FormationResult(chain))

PreBind == \E at \in At : Build(4, at, None, None)

Preflight == \E at \in At : Build(5, at, None, None)

Selection == \E at \in At, d \in DOMAIN Descriptors : Build(6, at, d, None)

Plan == \E at \in At : Build(7, at, None, None)

FixtureResult == \E at \in At, f \in FixtureInputs : Build(8, at, f, None)

Rehearsal == \E at \in At, f \in Fixtures : Build(9, at, None, RehearsalResult(chain, f))

LiveReadiness == \E at \in At : Build(10, at, None, None)

Request == \E at \in At : Build(11, at, None, RequestResult(chain))

DispatchReadiness == \E at \in At : Build(12, at, None, None)

Allowlist == \E at \in At, i \in Candidates : Build(13, at, i, Matched(i))

Credential == \E at \in At, i \in References : Build(14, at, i, Authorized(i))

OperatorReview == \E at \in At, d \in Decisions : Build(15, at, d, Approves(d))

PreDispatch == \E at \in At, d \in Outcomes : Build(16, at, d, Accepts(d))

Authority == \E at \in At, b \in Authorities : Build(17, at, b, TRUE)

Approval == \E at \in At, b \in Approvals : Build(18, at, b, TRUE)

FinalReadiness == \E at \in At, d \in Outcomes : Build(19, at, d, Accepts(d))

GateReview == \E at \in At, d \in Outcomes : Build(20, at, d, Accepts(d))

-----------------------------------------------------------------------------
(* Changes by hand *)

\* The inputs that the k-th builder may be given.
Inputs(k) ==
  CASE k = 1 -> [handoff : DOMAIN Handoffs, evaluated : Times]
    [] k = 6 -> DOMAIN Descriptors
    [] k = 8 -> FixtureInputs
    [] k = 13 -> Candidates
    [] k = 14 -> References
    [] k = 15 -> Decisions
    [] k \in {16, 19, 20} -> Outcomes
    [] k = 17 -> Authorities
    [] k = 18 -> Approvals
    [] OTHER -> {None}

\* Other values of a copied field: the intent of another readiness packet,
\* another contract, endpoint or credential.
Others(c, s) ==
  CASE s = "intent" -> {[c[3].result EXCEPT !.id.issued = t] : t \in Times}
    [] s = "contract" -> DOMAIN Descriptors
    [] s = "endpoint" -> {i.candidate : i \in Candidates}
    [] s = "credential" -> {i.reference : i \in References}
    [] OTHER -> {}

\* Other values that the k-th packet might state as its result.
Results(c, k) ==
  CASE k \in {13, 14, 15, 16, 17, 18, 19, 20} -> BOOLEAN
    [] k = 9 -> [output : [intent : Others(c, "intent"),
                           target : {Descriptors[d].target : d \in DOMAIN Descriptors},
                           fixture : Fixtures],
                 effect : BOOLEAN]
    [] k \in {1, 2, 3, 11} -> {Derived(Prefix(c, k - 1), i) : i \in Inputs(k)}
    [] OTHER -> {None}

\* The k-th packet of c with one field changed, or with another input and
\* what follows from it.
Changes(c, k) ==
  LET inputs == Inputs(k) \ {c[k].input}
      again(i) == Derived(Prefix(c, k - 1), i)
  IN {[c[k] EXCEPT !.at = t] : t \in Times}
       \union {[c[k] EXCEPT !.input = i] : i \in inputs}
       \union {[c[k] EXCEPT !.input = i, !.result = again(i)] : i \in inputs}
       \union {[c[k] EXCEPT !.result = r] : r \in Results(c, k)}
       \union UNION {{[c[k] EXCEPT !.copied = [@ EXCEPT ![s] = v]] : v \in Others(c, s)} :
                      s \in DOMAIN c[k].copied}

\* The packet p on d instead, with its time and its input: what it repeats and
\* derives, and its digests, computed again. A rehearsal keeps the output that
\* it states. Whoever writes the document need not ask what the builder asks.
Again(d, p) ==
  Append(d, Packet(d, p.at, p.input, IF Len(d) = 8 THEN p.result ELSE Derived(d, p.input)))

\* Packets computed again on c, one on the other.
Remade(c, packets) ==
  LET made[n \in 0 .. Len(packets)] ==
        IF n = 0 THEN c ELSE Again(made[n - 1], packets[n])
  IN made[Len(packets)]

\* A packet is changed and sealed again; the digests of the later packets stay
\* as they were, or the digests or the later packets are computed again.
Edit ==
  /\ ~edited
  /\ Len(chain) \in EditAt
  /\ \E k \in DOMAIN chain : \E p \in Changes(chain, k) \ {chain[k]} :
       LET all == [chain EXCEPT ![k] = p]
           one == [j \in DOMAIN chain |-> IF j > k THEN [chain[j] EXCEPT !.sealed = FALSE]
                                         ELSE all[j]]
       IN chain' \in {one, all, Remade(Prefix(all, k), SubSeq(chain, k + 1, Len(chain)))}
  /\ edited' = TRUE

Next ==
  \/ Eligibility \/ Readiness \/ Formation \/ PreBind \/ Preflight
  \/ Selection \/ Plan \/ FixtureResult \/ Rehearsal
  \/ LiveReadiness \/ Request \/ DispatchReadiness \/ Allowlist \/ Credential
  \/ OperatorReview \/ PreDispatch \/ Authority \/ Approval
  \/ FinalReadiness \/ GateReview
  \/ Edit

Spec == Init /\ [][Next]_vars

-----------------------------------------------------------------------------
(* Properties *)

\* The operation that the chain began with: read off the documents that were
\* supplied, not off what later packets repeat.
Concerns(r) ==
  /\ r.contract = chain[6].input
  /\ r.endpoint = chain[13].input.candidate.id
  /\ r.credential = chain[14].input.reference.id
  /\ r.target = chain[14].input.reference.target

About(r) ==
  r.intent = IntentId(chain) /\ Concerns(r) /\ r.purpose = chain[14].input.reference.purpose

\* What was reviewed and approved on the way is one operation. In a chain that
\* verifies the handoff's authority names its actor, action and target, its
\* approval the candidate, the action and the target's resource (not its
\* system: canonical_decision_handoff.py asks for no more); the adapter contract
\* is for that target; and the operator's review, the authority references and
\* the approvals name the intent, contract, endpoint and credential of this
\* chain, the approvals exactly its authority references: an approval given for
\* another chain, or for this one before a document in it was replaced and the
\* rest computed again, is not accepted (the verify functions and _matrix of
\* the linkages). Two things the builders alone see to, so that they hold while
\* nobody has changed a document: the rehearsal was of this intent and target,
\* and the credential reference is for this contract and endpoint.
OneOperation ==
  Verified(chain) =>
    /\ Len(chain) >= 1 =>
         LET h == Handoffs[chain[1].input.handoff] IN
         /\ h.authority.actor = h.candidate.actor
         /\ h.authority.contract = h.candidate.contract
         /\ {h.authority.target, h.context.target} = {h.candidate.target}
         /\ h.approval.candidate = h.candidate.id
         /\ h.approval.contract = h.candidate.contract
         /\ h.approval.resource = h.candidate.target.resource
         /\ Len(chain) >= 6 => Descriptors[chain[6].input].target = h.candidate.target
    /\ ~edited /\ Len(chain) >= 9 =>
         LET output == chain[9].result.output IN
         output.intent = chain[3].result /\ output.target = chain[3].result.fields.target
    /\ ~edited /\ Len(chain) >= 14 =>
         LET reference == chain[14].input.reference IN
         /\ reference.contract = chain[6].input
         /\ reference.endpoint = chain[13].input.candidate.id
    /\ Len(chain) >= 15 => Concerns(chain[15].input)
    /\ Len(chain) >= 17 => \A r \in chain[17].input.references : About(r)
    /\ Len(chain) >= 18 =>
         \A r \in chain[18].input.references :
           About(r) /\ r.authorities = {a.id : a \in chain[17].input.references}

InForce(e, when) == e.issued <= when /\ when <= e.expires

\* No refusal and no expired evidence is passed over. In a chain that verifies
\* the handoff was promotable, with all its evidence in force when it was
\* evaluated and a replay that is not the decision itself; every stage but the
\* last had its positive outcome, as its inputs give it; times do not run
\* backwards up to the credential authorization; and the references of a linkage
\* were in force when it was recorded.
NothingRefused ==
  Verified(chain) =>
    /\ \A k \in 2 .. Len(chain) : k <= 14 => chain[k - 1].at <= chain[k].at
    /\ Len(chain) >= 1 =>
         LET h == Handoffs[chain[1].input.handoff]
             when == chain[1].input.evaluated
         IN /\ h.promotable /\ when <= chain[1].at
            /\ \A e \in {h.authority, h.approval, h.policy} : InForce(e, when)
            /\ ~Collapsed(h.replay)
            /\ h.replay.v1 => h.replay.replayDecision # h.decision.id
    /\ Len(chain) >= 9 => ~chain[9].result.effect
    /\ Len(chain) >= 14 => Matched(chain[13].input)
    /\ Len(chain) >= 15 => Authorized(chain[14].input)
    /\ Len(chain) >= 16 => Approves(chain[15].input)
    /\ Len(chain) >= 17 => Accepts(chain[16].input)
    /\ \A k \in {17, 18} \intersect DOMAIN chain :
         \A r \in chain[k].input.references : InForce(r, chain[k].at) /\ chain[k].at # r.expires
    /\ Len(chain) >= 20 => Accepts(chain[19].input)

\* A chain that verifies could have been built. Its documents, its times and the
\* output that its rehearsal states determine everything else in it: nothing
\* that a packet repeats or derives can be changed and the digests be computed
\* again, at any stage, so that all verify functions accept it. And every
\* builder would take those documents and times, the credential's excepted: it
\* asks that the reference be for the chain's contract and endpoint, which no
\* verify function asks again.
Replayable ==
  Verified(chain) =>
    /\ chain = Remade(<<>>, chain)
    /\ \A k \in DOMAIN chain :
         k # 14 => Admits(Prefix(chain, k - 1), chain[k].at, chain[k].input)
=============================================================================
