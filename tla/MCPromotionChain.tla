-------------------------- MODULE MCPromotionChain --------------------------
(***************************************************************************)
(* Handoffs, contracts, endpoints, credentials and references for model    *)
(* checking. Three handoffs can become ready: one whose evidence lasts,    *)
(* one whose approval expires and one for another target; each of the      *)
(* others has one defect.                                                  *)
(***************************************************************************)
EXTENDS PromotionChain, TLC

AllPaths == {Mandatory[i] : i \in DOMAIN Mandatory}

Assertion(t) == [at |-> t, matches |-> TRUE, exact |-> TRUE]

\* The target, and the same resource in another system.
Here == [system |-> "s1", resource |-> "res"]

There == [system |-> "s2", resource |-> "res"]

Person == [id |-> "cand", actor |-> "actor", target |-> Here, contract |-> "act"]

Evidence(t) ==
  [actor |-> "actor", contract |-> "act", target |-> t, valid |-> TRUE,
   issued |-> 1, expires |-> 2]

Receipt ==
  [candidate |-> "cand", contract |-> "act", resource |-> "res", valid |-> TRUE,
   issued |-> 1, expires |-> 2]

Base ==
  [schema |-> TRUE, promotable |-> TRUE,
   decision |-> [id |-> "d", request |-> "r", ts |-> 1],
   lineage |-> [id |-> "d", bound |-> FALSE],
   trustlog |-> [request |-> "r", verified |-> TRUE],
   replay |-> [v1 |-> TRUE, request |-> "r", originalRequest |-> "r", original |-> "d",
               replayRequest |-> "rr", replayDecision |-> "rd", verified |-> TRUE],
   candidate |-> Person, hash |-> "h", context |-> [target |-> Here, canonical |-> TRUE],
   authority |-> Evidence(Here), approval |-> Receipt,
   needsAuthority |-> "yes", needsApproval |-> "yes",
   policy |-> [superseded |-> FALSE, named |-> TRUE, issued |-> 1, expires |-> 2],
   expected |-> [observed |-> 1, named |-> TRUE], created |-> 1, expires |-> 2,
   trusted |-> [binding |-> [at |-> 1, candidate |-> Person, hash |-> "h"],
                authority |-> [at |-> 1, evidence |-> Evidence(Here)],
                recorded |-> AllPaths,
                asserted |-> [path \in AllPaths |-> {Assertion(1)}]]]

Elsewhere == [Person EXCEPT !.target = There]

Asserted(path, as) == [Base EXCEPT !.trusted.asserted[path] = as]

MCHandoffs ==
  [lasting |-> Base,
   brief |-> [Base EXCEPT !.approval.expires = 1],
   elsewhere |-> [Base EXCEPT !.candidate = Elsewhere, !.context.target = There,
                    !.authority = Evidence(There),
                    !.trusted.binding.candidate = Elsewhere,
                    !.trusted.authority.evidence = Evidence(There)],
   \* ready, but without the evidence that the packet summarises
   unattended |-> [Base EXCEPT !.approval = None, !.needsApproval = "no"],
   malformed |-> [Base EXCEPT !.schema = FALSE],
   refused |-> [Base EXCEPT !.promotable = FALSE],
   otherDecision |-> [Base EXCEPT !.lineage.id = "d0"],
   otherRequest |-> [Base EXCEPT !.trustlog.request = "r0"],
   selfReplay |-> [Base EXCEPT !.replay.replayDecision = "d"],
   otherTarget |-> [Base EXCEPT !.context.target = There],
   otherActor |-> [Base EXCEPT !.authority.actor = "nobody"],
   otherApproval |-> [Base EXCEPT !.approval.candidate = "other"],
   otherResource |-> [Base EXCEPT !.approval.resource = "other"],
   \* a replay that is its original, in a format that the validator lets pass
   collapsed |-> [Base EXCEPT !.replay.v1 = FALSE, !.replay.replayRequest = "r"],
   superseded |-> [Base EXCEPT !.policy.superseded = TRUE],
   observedLate |-> [Base EXCEPT !.expected.observed = 2],
   unresolved |-> [Base EXCEPT !.needsApproval = "unresolved"],
   unapproved |-> [Base EXCEPT !.approval = None],
   createdLate |-> [Base EXCEPT !.created = 2],
   noTarget |-> [Base EXCEPT !.candidate.target = None, !.trusted.binding.candidate.target = None],
   noPolicy |-> [Base EXCEPT !.policy = None],
   unbound |-> [Base EXCEPT !.trusted.binding = None],
   boundLate |-> [Base EXCEPT !.trusted.binding.at = 2],
   boundElse |-> [Base EXCEPT !.trusted.binding.candidate = Elsewhere],
   unauthorized |-> [Base EXCEPT !.trusted.authority = None],
   otherAuthority |-> [Base EXCEPT !.trusted.authority.evidence = Evidence(There)],
   unasserted |-> Asserted("policy_lineage", {}),
   twiceAsserted |-> Asserted("candidate_hash", {Assertion(1), Assertion(2)}),
   contradicted |-> Asserted("expected_state", {[Assertion(1) EXCEPT !.matches = FALSE]}),
   inexact |-> Asserted("human_approval_evidence", {[Assertion(1) EXCEPT !.exact = FALSE]})]

MCDescriptors ==
  [c1 |-> [target |-> Here, conforming |-> TRUE],
   c2 |-> [target |-> There, conforming |-> TRUE],
   c3 |-> [target |-> Here, conforming |-> FALSE]]

Snapshot(active) ==
  {[active |-> active, address |-> "host", contracts |-> {"c1", "c2"}, systems |-> {"s1"},
    resources |-> {"res"}, purposes |-> {"p"}]}

Endpoint(id) ==
  [id |-> id, address |-> "host", contract |-> "c1", target |-> Here, purpose |-> "p"]

MCCandidates ==
  {[candidate |-> Endpoint("e1"), snapshot |-> Snapshot(TRUE)],
   [candidate |-> Endpoint("e2"), snapshot |-> Snapshot(TRUE)],
   [candidate |-> Endpoint("e1"), snapshot |-> Snapshot(FALSE)]}

Policy(active) ==
  {[active |-> active, kind |-> "key", contracts |-> {"c1"}, endpoints |-> {"e1", "e2"},
    systems |-> {"s1"}, resources |-> {"res"}, purposes |-> {"p"}]}

Reference(id, e) ==
  [id |-> id, kind |-> "key", contract |-> "c1", endpoint |-> e, target |-> Here,
   purpose |-> "p"]

MCReferences ==
  {[reference |-> Reference("k1", "e1"), policy |-> Policy(TRUE)],
   [reference |-> Reference("k2", "e1"), policy |-> Policy(TRUE)],
   [reference |-> Reference("k1", "e2"), policy |-> Policy(TRUE)],
   [reference |-> Reference("k1", "e1"), policy |-> Policy(FALSE)]}

MCDecisions ==
  {[decision |-> d, endpoint |-> "e1", contract |-> "c1", credential |-> k, target |-> Here,
    reviewed |-> t] :
     d \in {"APPROVE_FOR_BIND_PRE_DISPATCH_REVIEW", "REJECT"}, k \in {"k1", "k2"}, t \in {1, 3}}

MCOutcomes ==
  {[accept |-> a, acknowledged |-> k, reviewed |-> 1] : a \in BOOLEAN, k \in BOOLEAN}

Intents ==
  {[handoff |-> [handoff |-> "lasting", evaluated |-> 1], issued |-> i, checked |-> i,
    mapping |-> Mapping(Identities(Base))] : i \in {1, 2}}

\* An authority reference; it expires at the second time or after it.
Refer(i, until) ==
  [id |-> "a1", intent |-> i, contract |-> "c1", endpoint |-> "e1", credential |-> "k1",
   target |-> Here, purpose |-> "p", scope |-> "s", issued |-> 1, expires |-> until,
   declared |-> TRUE]

Bundled(refs) == [references |-> refs, scope |-> {"s"}, claims |-> {}]

\* A claim that two values match, about a reference.
Claim(id, value) == [reference |-> id, expected |-> "v", actual |-> value, matched |-> TRUE]

Claimed(refs, claims) == [Bundled(refs) EXCEPT !.claims = claims]

MCAuthorities ==
  {Bundled({Refer(i, u)}) : i \in Intents, u \in {2, 3}}
    \union {Bundled({Refer(i, 3), [Refer(i, 3) EXCEPT !.id = "a2"]}) : i \in Intents}
    \union UNION {{Bundled({[Refer(i, 3) EXCEPT !.credential = "k2"]}),
                   Bundled({[Refer(i, 3) EXCEPT !.declared = FALSE]}),
                   Bundled({[Refer(i, 3) EXCEPT !.scope = "other"]}),
                   Bundled({[Refer(i, 3) EXCEPT !.purpose = "other"]}),
                   Claimed({Refer(i, 3)}, {Claim("a1", "v"), Claim("a1", "w")}),
                   Claimed({Refer(i, 3)}, {Claim("a9", "v")})} : i \in Intents}
    \union {Bundled({})}

Approve(i, until, as) == Refer(i, until) @@ [authorities |-> as]

MCApprovals ==
  {Bundled({Approve(i, u, {"a1"})}) : i \in Intents, u \in {2, 3}}
    \union {Bundled({Approve(i, 3, {"a1", "a2"})}) : i \in Intents}
=============================================================================
