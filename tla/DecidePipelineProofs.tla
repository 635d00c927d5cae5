------------------------ MODULE DecidePipelineProofs ------------------------
(***************************************************************************)
(* Theorems about the decision pipeline for all requests, LLM answers,     *)
(* policies and bundles, any budget of retries and any number of           *)
(* submissions and crashes.                                                *)
(***************************************************************************)
EXTENDS DecidePipeline, TLAPS

-----------------------------------------------------------------------------
(* What the derivation of the answer keeps *)

\* What blocks, blocks whatever else is said; what holds is not overridden.
LEMMA ResolveRestrictive ==
  ASSUME NEW ds
  PROVE  /\ Resolve(ds) \in {"block", "hold", "proceed"}
         /\ \A d \in ds : Severity(d) = 3 => Resolve(ds) = "block"
         /\ \A d \in ds : Severity(d) = 2 => Resolve(ds) \in {"block", "hold"}
BY DEF Resolve

LEMMA Severities ==
  /\ Severity("block") = 3 /\ Severity("rejected") = 3 /\ Severity("deny") = 3
  /\ Severity("hold") = 2 /\ Severity("human_review_required") = 2
  /\ \A b : ReviewAsked(b) => Severity(b) = 2
BY DEF Severity, Allowing, Holding, ReviewAsked

\* The gate that the stop reasons give, and its review flag.
LEMMA DeriveGateShape ==
  ASSUME NEW reasons, NEW rawGate, NEW status, NEW risk, NEW review \in BOOLEAN,
         NEW d, d = DeriveGate(reasons, rawGate, status, risk, review)
  PROVE  /\ d.gate \in Gates /\ d.review \in BOOLEAN
         /\ review => d.review
         /\ d.gate = "human_review_required" => d.review
         /\ d.gate = "proceed" => ~d.review
         /\ "required_evidence_missing" \in reasons => d.gate \in {"block", "hold"}
         /\ Resolve({rawGate}) # "proceed" => d.gate # "proceed"
         /\ (\/ {"irreversible_action", "audit_trail_incomplete"} \subseteq reasons
             \/ Resolve({rawGate}) = "block"
             \/ Resolve({status}) = "block") => d.gate = "block"
<1> DEFINE blocks == \/ "rollback_not_supported" \in reasons
                     \/ {"irreversible_action", "audit_trail_incomplete"} \subseteq reasons
                     \/ "secure_prod_controls_missing" \in reasons
                     \/ Resolve({rawGate}) = "block"
                     \/ Resolve({status}) = "block"
           misses == {"required_evidence_missing", "sanctions_partial_match"}
                       \intersect reasons # {}
           asks == \/ "high_risk_ambiguity" \in reasons /\ risk >= 8000
                   \/ "approval_boundary_unknown" \in reasons
                   \/ review
           holds == \/ {"rule_undefined", "audit_trail_incomplete", "secure_controls_missing"}
                         \intersect reasons # {}
                    \/ Resolve({rawGate}) = "hold"
                    \/ Resolve({status}) = "hold"
<1>1. d = IF blocks THEN [gate |-> "block", review |-> review]
          ELSE IF misses THEN [gate |-> "hold", review |-> review]
          ELSE IF asks THEN [gate |-> "human_review_required", review |-> TRUE]
          ELSE IF holds THEN [gate |-> "hold", review |-> review]
          ELSE [gate |-> "proceed", review |-> review]
  BY DEF DeriveGate
<1>2. Resolve({rawGate}) \in {"block", "hold", "proceed"}
  BY ResolveRestrictive
<1>3. CASE blocks
  <2>1. d = [gate |-> "block", review |-> review]
    BY <1>1, <1>3
  <2>2. QED
    BY <2>1 DEF Gates
<1>4. CASE ~blocks /\ (misses \/ (~asks /\ holds))
  <2>1. d = [gate |-> "hold", review |-> review]
    BY <1>1, <1>4
  <2>2. QED
    BY <1>4, <2>1 DEF Gates
<1>5. CASE ~blocks /\ ~misses /\ asks
  <2>1. d = [gate |-> "human_review_required", review |-> TRUE]
    BY <1>1, <1>5
  <2>2. QED
    BY <1>5, <2>1 DEF Gates
<1>6. CASE ~blocks /\ ~misses /\ ~asks /\ ~holds
  <2>1. d = [gate |-> "proceed", review |-> review] /\ ~review
    BY <1>1, <1>6
  <2>2. QED
    BY <1>2, <1>6, <2>1 DEF Gates
<1> HIDE DEF blocks, misses, asks, holds
<1>7. \/ blocks
      \/ ~blocks /\ (misses \/ (~asks /\ holds))
      \/ ~blocks /\ ~misses /\ asks
      \/ ~blocks /\ ~misses /\ ~asks /\ ~holds
  OBVIOUS
<1>8. QED
  BY <1>3, <1>4, <1>5, <1>6, <1>7, Zenon

\* The caller's business decision may only tighten the gate.
LEMMA MergeShape ==
  ASSUME NEW d, d.gate \in Gates, d.review \in BOOLEAN,
         d.gate = "human_review_required" => d.review, d.gate = "proceed" => ~d.review,
         NEW b, NEW m, m = MergeBusiness(d, b)
  PROVE  /\ m.gate \in Gates /\ m.review \in BOOLEAN
         /\ d.review => m.review
         /\ d.gate = "block" => m.gate = "block"
         /\ m.gate = "proceed" => d.gate = "proceed" /\ ~m.review
         /\ m.gate = "human_review_required" => m.review
         /\ m.gate = "human_review_required" =>
              ReviewAsked(b) \/ d.gate = "human_review_required"
         /\ ReviewAsked(b) => m.gate \in {"block", "human_review_required"}
<1> DEFINE ds == {d.gate} \union (IF b = None THEN {} ELSE {b})
           resolved == Resolve(ds)
<1>1. resolved \in {"block", "hold", "proceed"}
  BY ResolveRestrictive
<1>2. d.gate = "block" => resolved = "block"
  BY ResolveRestrictive, Severities
<1>3. d.gate \in {"hold", "human_review_required"} => resolved \in {"block", "hold"}
  BY ResolveRestrictive, Severities
<1>4. ReviewAsked(b) => resolved \in {"block", "hold"}
  <2>1. SUFFICES ASSUME ReviewAsked(b) PROVE resolved \in {"block", "hold"}
    OBVIOUS
  <2>2. b # None
    BY <2>1, PipelineAssumption DEF ReviewAsked, Holding
  <2>3. b \in ds /\ Severity(b) = 2
    BY <2>1, <2>2, Severities
  <2>4. QED
    BY <2>3, ResolveRestrictive
<1>5. m = CASE resolved = "block" -> [gate |-> "block", review |-> d.review]
            [] resolved = "hold" ->
                 IF ReviewAsked(b) THEN [gate |-> "human_review_required", review |-> TRUE]
                 ELSE [gate |-> IF d.gate = "human_review_required"
                                THEN "human_review_required" ELSE "hold",
                       review |-> d.review]
            [] resolved = "proceed" ->
                 [gate |-> IF d.review THEN "human_review_required" ELSE "proceed",
                  review |-> d.review]
  BY DEF MergeBusiness
<1> HIDE DEF resolved
<1>6. CASE resolved = "block"
  <2>1. m = [gate |-> "block", review |-> d.review]
    BY <1>5, <1>6
  <2>2. QED
    BY <2>1 DEF Gates
<1>7. CASE resolved = "hold"
  <2>1. m = IF ReviewAsked(b) THEN [gate |-> "human_review_required", review |-> TRUE]
            ELSE [gate |-> IF d.gate = "human_review_required"
                           THEN "human_review_required" ELSE "hold",
                  review |-> d.review]
    BY <1>5, <1>7
  <2>2. d.gate # "block"
    BY <1>2, <1>7
  <2>3. CASE ReviewAsked(b)
    <3>1. m = [gate |-> "human_review_required", review |-> TRUE]
      BY <2>1, <2>3
    <3>2. QED
      BY <2>2, <2>3, <3>1 DEF Gates
  <2>4. CASE ~ReviewAsked(b) /\ d.gate = "human_review_required"
    <3>1. m = [gate |-> "human_review_required", review |-> d.review]
      BY <2>1, <2>4
    <3>2. QED
      BY <2>4, <3>1 DEF Gates
  <2>5. CASE ~ReviewAsked(b) /\ d.gate # "human_review_required"
    <3>1. m = [gate |-> "hold", review |-> d.review]
      BY <2>1, <2>5
    <3>2. QED
      BY <2>2, <2>5, <3>1 DEF Gates
  <2>6. QED
    BY <2>3, <2>4, <2>5
<1>8. CASE resolved = "proceed"
  <2>1. d.gate = "proceed" /\ ~ReviewAsked(b)
    BY <1>2, <1>3, <1>4, <1>8 DEF Gates
  <2>2. m = [gate |-> "proceed", review |-> d.review] /\ ~d.review
    BY <1>5, <1>8, <2>1
  <2>3. QED
    BY <2>1, <2>2 DEF Gates
<1>9. QED
  BY <1>1, <1>6, <1>7, <1>8

\* The parts of DeriveBusinessFields under names of their own.
Review(r, v) ==
  \/ v.review
  \/ \E d \in {RawGate(v), v.status, v.kernel, v.decision} : RequiresReview(d)
  \/ EvidenceReview(r)

Derived(r, v) ==
  DeriveGate(ExtractStopReasons(r), RawGate(v), v.decision, OrElse(r.score, v.risk),
             Review(r, v))

Merged(r, v) == MergeBusiness(Derived(r, v), r.business)

\* What holds of every answer before a refused lineage is looked at.
LEMMA FieldsShape ==
  ASSUME NEW r, NEW v, NEW f, f = DeriveBusinessFields(r, v), v.review \in BOOLEAN
  PROVE  /\ f.gate \in Gates
         /\ ValidCombination(f.gate, f.business, f.review)
         /\ (\/ {"irreversible_action", "audit_trail_incomplete"} \subseteq ExtractStopReasons(r)
             \/ Resolve({RawGate(v)}) = "block"
             \/ Resolve({v.decision}) = "block") => f.gate = "block"
         /\ f.actionability = "bind_required_before_execution" =>
              /\ MissingEvidence(r) = {} /\ SensitiveMissing(r) = {} /\ ~f.review
              /\ Resolve({RawGate(v)}) = "proceed"
<1> DEFINE d == Derived(r, v)
           m == Merged(r, v)
           missing == MissingEvidence(r)
<1>1. f = [gate |-> m.gate, business |-> BusinessDecision(m.gate, r.business, missing),
           review |-> m.review,
           actionability |-> Actionability(m.gate,
                               BusinessDecision(m.gate, r.business, missing), m.review),
           decision |-> v.decision]
  BY DEF DeriveBusinessFields, Derived, Merged, Review
<1>2. Review(r, v) \in BOOLEAN
  BY DEF Review, RequiresReview, EvidenceReview
<1>3. /\ d.gate \in Gates /\ d.review \in BOOLEAN
      /\ Review(r, v) => d.review
      /\ d.gate = "human_review_required" => d.review
      /\ d.gate = "proceed" => ~d.review
      /\ "required_evidence_missing" \in ExtractStopReasons(r) => d.gate \in {"block", "hold"}
      /\ Resolve({RawGate(v)}) # "proceed" => d.gate # "proceed"
      /\ (\/ {"irreversible_action", "audit_trail_incomplete"} \subseteq ExtractStopReasons(r)
          \/ Resolve({RawGate(v)}) = "block"
          \/ Resolve({v.decision}) = "block") => d.gate = "block"
  BY <1>2, DeriveGateShape DEF Derived
<1>4. /\ m.gate \in Gates /\ m.review \in BOOLEAN
      /\ d.review => m.review
      /\ d.gate = "block" => m.gate = "block"
      /\ m.gate = "proceed" => d.gate = "proceed" /\ ~m.review
      /\ m.gate = "human_review_required" => m.review
      /\ m.gate = "human_review_required" =>
           ReviewAsked(r.business) \/ d.gate = "human_review_required"
      /\ ReviewAsked(r.business) => m.gate \in {"block", "human_review_required"}
  BY <1>3, MergeShape DEF Merged
<1> HIDE DEF d, m
<1>5. missing # {} => d.gate \in {"block", "hold"}
  <2>1. missing # {} => "required_evidence_missing" \in ExtractStopReasons(r)
    BY DEF ExtractStopReasons
  <2>2. QED
    BY <1>3, <2>1
<1>6. SensitiveMissing(r) # {} => m.review
  BY <1>3, <1>4 DEF Review, EvidenceReview
<1> HIDE DEF missing
<1>7. f.gate = m.gate /\ f.review = m.review /\ f.gate \in Gates
      /\ f.business = BusinessDecision(m.gate, r.business, missing)
      /\ f.actionability = Actionability(m.gate, f.business, m.review)
  BY <1>1, <1>4
<1>8. ValidCombination(f.gate, f.business, f.review)
  BY <1>4, <1>5, <1>7 DEF ValidCombination, BusinessDecision, Gates
<1>9. ASSUME f.actionability = "bind_required_before_execution"
      PROVE  m.gate = "proceed" /\ ~m.review
  BY <1>4, <1>7, <1>9 DEF Actionability, BusinessDecision, Gates
<1>10. f.actionability = "bind_required_before_execution" =>
         missing = {} /\ SensitiveMissing(r) = {} /\ ~f.review /\ Resolve({RawGate(v)}) = "proceed"
  BY <1>3, <1>4, <1>5, <1>6, <1>7, <1>9
<1>11. QED
  BY <1>3, <1>4, <1>7, <1>8, <1>10 DEF missing

\* A refusal of the lineage leaves the gate alone.
LEMMA RespondShape ==
  ASSUME NEW r, NEW v, NEW a, a = Respond(r, DeriveBusinessFields(r, v))
  PROVE  /\ a.gate = DeriveBusinessFields(r, v).gate
         /\ NonPromotable(r.signal) => a.actionability = "formation_transition_refused"
         /\ ~NonPromotable(r.signal) => a = DeriveBusinessFields(r, v)
<1> DEFINE f == DeriveBusinessFields(r, v)
<1>1. \E g, b, w, act, dec :
        f = [gate |-> g, business |-> b, review |-> w, actionability |-> act, decision |-> dec]
  BY DEF DeriveBusinessFields
<1> HIDE DEF f
<1>2. CASE NonPromotable(r.signal)
  <2>1. PICK g, b, w, act, dec :
          f = [gate |-> g, business |-> b, review |-> w, actionability |-> act, decision |-> dec]
    BY <1>1
  <2>2. a = [f EXCEPT !.actionability = "formation_transition_refused", !.business = "HOLD",
                      !.review = TRUE]
    BY <1>2 DEF Respond, Refuse, f
  <2>3. a.gate = f.gate /\ a.actionability = "formation_transition_refused"
    BY <2>1, <2>2
  <2>4. QED
    BY <1>2, <2>3 DEF f
<1>3. CASE ~NonPromotable(r.signal)
  BY <1>3 DEF Respond
<1>4. QED
  BY <1>2, <1>3

\* The stages from the pre-check to the answer, for every kernel result.
LEMMA DecisionSound ==
  ASSUME NEW r, NEW k \in KernelSays, NEW telos, NEW c,
         NEW d, d = Decision(r, k, telos, c)
  PROVE  /\ d.answer.gate \in Gates
         /\ (\/ d.said.kernel = "deny"
             \/ d.said.policy \in {"deny", "halt"}
             \/ /\ d.said.pre = "rejected"
                /\ d.said.policy \notin {"escalate", "require_human_review"}
             \/ "irreversible_action" \in r.flags /\ r.audit # "complete")
            => d.answer.gate = "block"
         /\ d.answer.actionability = "bind_required_before_execution" =>
              /\ MissingEvidence(r) = {}
              /\ SensitiveMissing(r) = {}
              /\ d.said.kernel \in {None, "allow"}
              /\ ~d.answer.review
              /\ ~NonPromotable(r.signal)
         /\ ~ValidCombination(d.answer.gate, d.answer.business, d.answer.review)
            => NonPromotable(r.signal)
<1> DEFINE pre == PrecheckResult(r, c)
           policy == PolicySays(r, c.bundle)
           status == Bridge(pre.status, policy)
           risk == DebateRisk(pre.risk, c.rejected)
           gate == GateStage(r, status, EffectiveRisk(risk, c.ema), telos,
                             TelosThreshold(c.ema))
           v == [kernel |-> k, status |-> status, decision |-> gate.decision, risk |-> risk,
                 review |-> gate.review]
           f == DeriveBusinessFields(r, v)
<1>1. d = [said |-> [kernel |-> k, pre |-> pre.status, policy |-> policy],
           answer |-> Respond(r, f)]
  BY DEF Decision
<1>2. /\ d.said.kernel = k /\ d.said.pre = pre.status /\ d.said.policy = policy
      /\ d.answer = Respond(r, f)
  BY <1>1
<1>3. gate.review \in BOOLEAN
  BY DEF GateStage
<1>4. v.review \in BOOLEAN /\ v.kernel = k /\ v.status = status /\ v.decision = gate.decision
  BY <1>3
<1>5. status = "rejected" => gate.decision = "rejected"
  BY DEF GateStage
<1>6. (policy \in {"deny", "halt"}
       \/ (pre.status = "rejected" /\ policy \notin {"escalate", "require_human_review"}))
      => status = "rejected"
  BY DEF Bridge
<1> HIDE DEF pre, policy, status, risk, gate, v
<1>7. /\ f.gate \in Gates
      /\ ValidCombination(f.gate, f.business, f.review)
      /\ (\/ {"irreversible_action", "audit_trail_incomplete"} \subseteq ExtractStopReasons(r)
          \/ Resolve({RawGate(v)}) = "block"
          \/ Resolve({v.decision}) = "block") => f.gate = "block"
      /\ f.actionability = "bind_required_before_execution" =>
           /\ MissingEvidence(r) = {} /\ SensitiveMissing(r) = {} /\ ~f.review
           /\ Resolve({RawGate(v)}) = "proceed"
  BY <1>4, FieldsShape
<1>8. /\ d.answer.gate = f.gate
      /\ NonPromotable(r.signal) => d.answer.actionability = "formation_transition_refused"
      /\ ~NonPromotable(r.signal) => d.answer = f
  BY <1>2, RespondShape
<1> HIDE DEF f
<1>9. k # None => RawGate(v) = k
  BY <1>4 DEF RawGate, OrElse
<1>10. k = "deny" => Resolve({RawGate(v)}) = "block"
  <2>1. SUFFICES ASSUME k = "deny" PROVE Resolve({RawGate(v)}) = "block"
    OBVIOUS
  <2>2. RawGate(v) = "deny"
    BY <1>9, <2>1, PipelineAssumption
  <2>3. QED
    BY <2>2, ResolveRestrictive, Severities
<1>11. Resolve({RawGate(v)}) = "proceed" => k \in {None, "allow"}
  <2>1. k = "hold" => Resolve({RawGate(v)}) # "proceed"
    <3>1. SUFFICES ASSUME k = "hold" PROVE Resolve({RawGate(v)}) # "proceed"
      OBVIOUS
    <3>2. RawGate(v) = "hold"
      BY <1>9, <3>1, PipelineAssumption DEF Holding
    <3>3. QED
      BY <3>2, ResolveRestrictive, Severities
  <2>2. QED
    BY <1>10, <2>1 DEF KernelSays
<1>12. gate.decision = "rejected" => Resolve({v.decision}) = "block"
  BY <1>4, ResolveRestrictive, Severities
<1>13. ("irreversible_action" \in r.flags /\ r.audit # "complete")
       => {"irreversible_action", "audit_trail_incomplete"} \subseteq ExtractStopReasons(r)
  BY DEF ExtractStopReasons, StopReasons
<1>14. d.answer.gate \in Gates
  BY <1>7, <1>8
<1>15. (\/ k = "deny"
        \/ policy \in {"deny", "halt"}
        \/ pre.status = "rejected" /\ policy \notin {"escalate", "require_human_review"}
        \/ "irreversible_action" \in r.flags /\ r.audit # "complete")
       => d.answer.gate = "block"
  BY <1>5, <1>6, <1>7, <1>8, <1>10, <1>12, <1>13
<1>16. d.answer.actionability = "bind_required_before_execution" =>
         /\ MissingEvidence(r) = {}
         /\ SensitiveMissing(r) = {}
         /\ k \in {None, "allow"}
         /\ ~d.answer.review
         /\ ~NonPromotable(r.signal)
  BY <1>7, <1>8, <1>11
<1>17. ~ValidCombination(d.answer.gate, d.answer.business, d.answer.review)
       => NonPromotable(r.signal)
  BY <1>7, <1>8
<1>18. QED
  BY <1>2, <1>14, <1>15, <1>16, <1>17

-----------------------------------------------------------------------------
(* The kernel *)

\* A text with a prompt injection is denied with F-4001 or not at all.
LEMMA InjectionCode ==
  ASSUME NEW r, NEW c, r.text.injection > 0
  PROVE  KernelResult(r, c).code \in {None, "F-4001"}
<1>1. \A violated, e, exception : SelectCode(r.text, violated, e, exception) = "F-4001"
  BY DEF SelectCode
<1>2. \A answer, p, e : FujiGate(r.text, answer, p, e).code \in {None, "F-4001"}
  <2>1. TAKE answer, p, e
  <2> DEFINE head == SafetyHead(r.text, answer, e.stakes)
             s == Assess(r.text, head, e)
             failed == p.broken /\ Violated(s, p) = {}
             final == IF failed THEN [s EXCEPT !.risk = AtLeast(@, 7000)] ELSE s
             verdict == PocVerdict(r.text, head, final, e,
                          Verdict(IF failed THEN "human_review" ELSE PolicyAction(s, p)))
             violated == IF failed THEN {"safety_head_error"} ELSE Violated(s, p)
             strict == [status |-> "deny", decision |-> "deny", risk |-> 10000,
                        code |-> SelectCode(r.text, {}, e, TRUE)]
             usual == [status |-> verdict.status, decision |-> verdict.decision,
                       risk |-> Reported(final.risk),
                       code |-> IF verdict.decision = "deny"
                                THEN SelectCode(r.text, violated, e, FALSE) ELSE None]
  <2>2. FujiGate(r.text, answer, p, e) = IF failed /\ StrictPolicyLoad THEN strict ELSE usual
    BY DEF FujiGate
  <2> HIDE DEF failed, verdict, violated, final
  <2>3. strict.code \in {None, "F-4001"} /\ usual.code \in {None, "F-4001"}
    BY <1>1
  <2> HIDE DEF strict, usual
  <2>4. QED
    BY <2>2, <2>3
<1>3. KernelFuji(r, c).code \in {None, "F-4001"}
  BY <1>2 DEF KernelFuji
<1>4. QED
  BY <1>3 DEF KernelResult

\* FUJI allows, holds or denies.
LEMMA FujiDecides ==
  ASSUME NEW r, NEW c
  PROVE  KernelResult(r, c).decision \in {"allow", "hold", "deny"}
<1>1. \A a : Verdict(a).decision \in {"allow", "hold", "deny"}
  BY DEF Verdict
<1>2. \A t, h, x, e, a : PocVerdict(t, h, x, e, Verdict(a)).decision \in {"allow", "hold", "deny"}
  BY <1>1 DEF PocVerdict
<1>3. \A t, answer, p, e : FujiGate(t, answer, p, e).decision \in {"allow", "hold", "deny"}
  BY <1>2 DEF FujiGate
<1>4. KernelFuji(r, c).decision \in {"allow", "hold", "deny"}
  BY <1>3 DEF KernelFuji
<1>5. QED
  BY <1>4 DEF KernelResult

\* What the kernel returns for the request at hand.
LEMMA KernelReturn ==
  ASSUME NEW k \in KernelResults
  PROVE  /\ k # None
         /\ k.decision \in {"allow", "hold", "deny"}
         /\ q.text.injection > 0 => k.code \in {None, "F-4001"}
<1>1. PICK pair \in KernelReturns : pair[1] = q /\ pair[2] = k
  BY DEF KernelResults
<1>2. PICK r \in Requests, c \in KernelCases : pair = <<r, KernelResult(r, c)>>
  BY <1>1 DEF KernelReturns
<1>3. r = q /\ k = KernelResult(r, c)
  BY <1>1, <1>2
<1>4. k # None
  BY <1>1, KernelAssumption
<1>5. QED
  BY <1>3, <1>4, InjectionCode, FujiDecides

-----------------------------------------------------------------------------
(* The invariant *)

\* The state on disk counts every retry before it is made: retries never
\* outrun what the file, or the loop that is about to write it, says.
Counted ==
  /\ retries \in Nat /\ retries <= MaxAttempts
  /\ file # None => retries <= file.attempt
  /\ pc \in {"core", "heal"} => retries <= healing.attempt
  /\ pc = "retry" => retries + 1 <= healing.attempt /\ file = healing

\* The loop works on a rejection that the kernel gave for this request.
FromKernel ==
  /\ pc \in {"heal", "retry"} => raw \in KernelResults
  /\ pc = "retry" => Healable(raw.code)

\* A decision has been made and not been given up.
Decided == {"audit", "persist", "verify", "link", "replay", "done"}

\* What is promised of the answer, of the decision in the artifact.
ClosedDecision ==
  /\ pc \in Decided
  /\ \/ said.kernel = "deny"
     \/ said.policy \in {"deny", "halt"}
     \/ said.pre = "rejected" /\ said.policy \notin {"escalate", "require_human_review"}
     \/ "irreversible_action" \in q.flags /\ q.audit # "complete"
  => artifact.decision.gate = "block"

CleanDecision ==
  (pc \in Decided /\ artifact.decision.actionability = "bind_required_before_execution") =>
    /\ MissingEvidence(q) = {}
    /\ SensitiveMissing(q) = {}
    /\ said.kernel \in {None, "allow"}
    /\ ~artifact.decision.review
    /\ ~NonPromotable(q.signal)

\* The artifact is of this submission, and the payload agrees with it except
\* between the writers and the drift check.
Undrifted ==
  pc \in Decided =>
    /\ pc # "verify" => payload = artifact.decision
    /\ artifact = [decision |-> artifact.decision, at |-> submissions]

Receipted ==
  receipt # None =>
    /\ pc \in {"replay", "done"}
    /\ receipt = artifact
    /\ [kind |-> "link", ref |-> artifact] \in ledger

Healing == TypeOK /\ Counted /\ FromKernel /\ SafetyNotRetried

Answers == ClosedDecision /\ CleanDecision /\ ContractHolds /\ Undrifted /\ Receipted

Inv == Healing /\ Answers

\* Steps that leave the decision alone.
LEMMA AnswerKept ==
  ASSUME Answers, UNCHANGED <<q, artifact, said, submissions>>, ledger \subseteq ledger',
         receipt' = receipt, why' = why \/ why' \in {None, "healing"},
         receipt # None => pc' \in {"replay", "done"},
         pc' \in Decided => pc \in Decided,
         pc' \in Decided \ {"verify"} => payload' = artifact.decision
  PROVE  Answers'
<1>1. ClosedDecision'
  BY DEF Answers, ClosedDecision
<1>2. CleanDecision'
  BY DEF Answers, CleanDecision
<1>3. ContractHolds'
  <2>1. "healing" # "contract" /\ None # "contract"
    BY PipelineAssumption
  <2>2. QED
    BY <2>1 DEF Answers, ContractHolds
<1>4. Undrifted'
  BY DEF Answers, Undrifted
<1>5. Receipted'
  BY DEF Answers, Receipted
<1>6. QED
  BY <1>1, <1>2, <1>3, <1>4, <1>5 DEF Answers

\* A fresh submission, a failed one, and the state that a crash leaves, have no
\* answer.
LEMMA NoAnswer ==
  ASSUME pc' \notin Decided, receipt' = None, why' \in {None, why, "healing", "drift"}, Answers,
         q' = q
  PROVE  Answers'
<1>1. None # "contract"
  BY PipelineAssumption
<1>2. ClosedDecision' /\ CleanDecision' /\ Undrifted'
  BY DEF ClosedDecision, CleanDecision, Undrifted
<1>3. ContractHolds'
  BY <1>1 DEF Answers, ContractHolds
<1>4. Receipted'
  BY DEF Receipted
<1>5. QED
  BY <1>2, <1>3, <1>4 DEF Answers

\* Steps outside the retry loop leave what it counted alone.
LEMMA HealingKept ==
  ASSUME Healing, TypeOK', UNCHANGED <<q, file, retries, retried>>,
         pc' \notin {"core", "heal", "retry"}
  PROVE  Healing'
<1>1. Counted'
  BY DEF Healing, Counted
<1>2. FromKernel'
  BY DEF FromKernel
<1>3. SafetyNotRetried'
  BY DEF Healing, SafetyNotRetried
<1>4. QED
  BY <1>1, <1>2, <1>3 DEF Healing

LEMMA SubmitKeeps ==
  ASSUME Inv, Submit
  PROVE  Inv'
<1>0. Healing /\ Answers /\ TypeOK /\ Counted
  BY DEF Inv, Healing
<1>1. /\ submissions < MaxSubmissions /\ submissions' = submissions + 1 /\ pc' = "core"
      /\ raw' = None /\ tried' = FALSE /\ artifact' = None /\ degraded' = {} /\ receipt' = None
      /\ why' = None /\ UNCHANGED <<q, file, ledger, retried>>
  BY DEF Submit
<1>2. PICK h \in {Fresh} \union (IF file = None THEN {} ELSE {file}) :
        healing' = h /\ retries' = IF h = Fresh THEN 0 ELSE retries
  BY DEF Submit, LoadHealingState
<1>3. MaxAttempts \in Nat /\ MaxSubmissions \in Nat
  BY BudgetAssumption, PipelineAssumption
<1>4. Fresh.attempt = 0
  BY DEF Fresh
<1>5. h = Fresh \/ (file # None /\ h = file)
  BY <1>2
<1>6. healing'.attempt \in 0 .. MaxAttempts
  BY <1>0, <1>2, <1>3, <1>4, <1>5 DEF TypeOK
<1>7. Counted'
  BY <1>0, <1>1, <1>2, <1>3, <1>4, <1>5 DEF Counted, TypeOK
<1>8. TypeOK'
  <2>1. submissions' \in 0 .. MaxSubmissions
    BY <1>0, <1>1, <1>3 DEF TypeOK
  <2>2. retries' \in Nat
    BY <1>7 DEF Counted
  <2>3. QED
    BY <1>0, <1>1, <1>6, <2>1, <2>2 DEF TypeOK
<1>9. FromKernel'
  BY <1>1 DEF FromKernel
<1>10. SafetyNotRetried'
  BY <1>0, <1>1 DEF Healing, SafetyNotRetried
<1>11. Answers'
  BY <1>0, <1>1, NoAnswer DEF Decided
<1>12. QED
  BY <1>7, <1>8, <1>9, <1>10, <1>11 DEF Inv, Healing

LEMMA CoreDecideKeeps ==
  ASSUME Inv, CoreDecide
  PROVE  Inv'
<1>0. Healing /\ Answers /\ TypeOK /\ Counted
  BY DEF Inv, Healing
<1>1. /\ pc = "core" /\ raw' \in KernelResults \union {None}
      /\ pc' = IF raw' # None /\ q.healing THEN "heal" ELSE "policy"
      /\ UNCHANGED <<q, submissions, healing, tried, file, payload, artifact, degraded,
                     receipt, ledger, retries, retried, said, why>>
  BY DEF CoreDecide
<1>2. pc' \in {"heal", "policy"} /\ (pc' = "heal" => raw' # None /\ raw' \in KernelResults)
  BY <1>1
<1>3. TypeOK'
  BY <1>0, <1>1, <1>2 DEF TypeOK, Idle
<1>4. Counted'
  BY <1>0, <1>1, <1>2 DEF Counted
<1>5. FromKernel'
  BY <1>1, <1>2 DEF FromKernel, KernelResults
<1>6. SafetyNotRetried'
  BY <1>0, <1>1 DEF Healing, SafetyNotRetried
<1>7. receipt' = None /\ pc' \notin Decided
  BY <1>0, <1>1, <1>2 DEF Answers, Receipted, Decided
<1>8. Answers'
  BY <1>0, <1>1, <1>7, NoAnswer
<1>9. QED
  BY <1>3, <1>4, <1>5, <1>6, <1>8 DEF Inv, Healing

\* The loop ends without a retry.
LEMMA HealEndsKeeps ==
  ASSUME Inv, HealAccepted \/ HealFails
  PROVE  Inv'
<1>0. Healing /\ Answers /\ TypeOK /\ Counted
  BY DEF Inv, Healing
<1>1. /\ pc = "heal" /\ pc' \in {"policy", "failed"} /\ file' \in {None, file}
      /\ ledger \subseteq ledger' /\ why' \in {why, "healing"}
      /\ UNCHANGED <<q, submissions, raw, healing, tried, payload, artifact, degraded, receipt,
                     retries, retried, said>>
  BY DEF HealAccepted, HealFails, ClearHealingState, LogHealing
<1>2. TypeOK'
  BY <1>0, <1>1 DEF TypeOK, Idle
<1>3. Counted'
  BY <1>0, <1>1 DEF Counted
<1>4. FromKernel'
  BY <1>1 DEF FromKernel
<1>5. SafetyNotRetried'
  BY <1>0, <1>1 DEF Healing, SafetyNotRetried
<1>6. receipt' = None /\ pc' \notin Decided
  BY <1>0, <1>1 DEF Answers, Receipted, Decided
<1>7. Answers'
  BY <1>0, <1>1, <1>6, NoAnswer
<1>8. QED
  BY <1>2, <1>3, <1>4, <1>5, <1>7 DEF Inv, Healing

\* One turn of the loop: the count goes to disk before the retry.
LEMMA HealStepKeeps ==
  ASSUME Inv, HealStep
  PROVE  Inv'
<1>0. Healing /\ Answers /\ TypeOK /\ Counted /\ FromKernel
  BY DEF Inv, Healing
<1>1. PICK output \in Outputs, late \in BOOLEAN :
        LET code == raw.code
            sig == <<code, output>>
            stop == GuardStops(healing, code, sig, late) \/ ~Healable(code)
        IN /\ LogHealing(stop)
           /\ tried' = TRUE
           /\ IF stop
              THEN ClearHealingState /\ pc' = "policy" /\ UNCHANGED healing
              ELSE /\ healing' = Advance(healing, code, sig)
                   /\ file' = healing'
                   /\ pc' = "retry"
  BY DEF HealStep
<1>2. /\ pc = "heal" /\ raw.code # None
      /\ UNCHANGED <<q, submissions, raw, payload, artifact, degraded, receipt, retries,
                     retried, said, why>>
  BY DEF HealStep
<1> DEFINE sig == <<raw.code, output>>
           stop == GuardStops(healing, raw.code, sig, late) \/ ~Healable(raw.code)
<1>3. tried' = TRUE /\ ledger \subseteq ledger'
  BY <1>1 DEF LogHealing
<1>4. CASE stop
  <2>1. file' \in {None, file} /\ pc' = "policy" /\ healing' = healing
    BY <1>1, <1>4 DEF ClearHealingState
  <2>2. TypeOK'
    BY <1>0, <1>2, <1>3, <2>1 DEF TypeOK
  <2>3. Counted' /\ FromKernel'
    BY <1>0, <1>2, <2>1 DEF Counted, FromKernel
  <2>4. receipt' = None /\ pc' \notin Decided
    BY <1>0, <1>2, <2>1 DEF Answers, Receipted, Decided
  <2>5. Answers'
    BY <1>0, <1>2, <2>4, NoAnswer
  <2>6. QED
    BY <1>0, <1>2, <2>2, <2>3, <2>5 DEF Inv, Healing, SafetyNotRetried
<1>5. CASE ~stop
  <2>1. /\ healing' = Advance(healing, raw.code, sig) /\ file' = healing' /\ pc' = "retry"
        /\ Healable(raw.code) /\ ~(healing.attempt + 1 > MaxAttempts)
    BY <1>1, <1>5 DEF GuardStops
  <2>2. healing'.attempt = healing.attempt + 1
    BY <2>1 DEF Advance
  <2>3. healing.attempt \in 0 .. MaxAttempts /\ MaxAttempts \in Nat
    BY <1>0, BudgetAssumption DEF TypeOK
  <2>4. healing'.attempt \in 1 .. MaxAttempts
    BY <2>1, <2>2, <2>3
  <2>5. TypeOK'
    BY <1>0, <1>2, <1>3, <2>1, <2>3, <2>4 DEF TypeOK, Idle
  <2>6. Counted'
    BY <1>0, <1>2, <2>1, <2>2, <2>3 DEF Counted
  <2>7. FromKernel'
    BY <1>0, <1>2, <2>1 DEF FromKernel, KernelResults
  <2>8. SafetyNotRetried'
    BY <1>0, <1>2 DEF Healing, SafetyNotRetried
  <2>9. receipt' = None /\ pc' \notin Decided
    BY <1>0, <1>2, <2>1 DEF Answers, Receipted, Decided
  <2>10. Answers'
    BY <1>0, <1>2, <2>9, NoAnswer
  <2>11. QED
    BY <2>5, <2>6, <2>7, <2>8, <2>10 DEF Inv, Healing
<1>6. QED
  BY <1>4, <1>5

\* A retry is within the budget, and never of a rejection for safety.
LEMMA RetryKeeps ==
  ASSUME Inv, Retry \/ RetryFails
  PROVE  Inv'
<1>0. Healing /\ Answers /\ TypeOK /\ Counted /\ FromKernel /\ SafetyNotRetried
  BY DEF Inv, Healing
<1>1. /\ pc = "retry" /\ CountRetry /\ file' \in {file, healing} /\ why' \in {why, "healing"}
      /\ UNCHANGED <<q, submissions, healing, tried, payload, artifact, degraded, receipt,
                     ledger, said>>
  BY DEF Retry, RetryFails
<1>2. \/ pc' = "heal" /\ raw' \in KernelResults
      \/ pc' \in {"policy", "failed"} /\ raw' = raw
  BY DEF Retry, RetryFails
<1>3. file' = healing /\ retries + 1 <= healing.attempt /\ retries \in Nat
      /\ healing.attempt \in 0 .. MaxAttempts /\ MaxAttempts \in Nat
  BY <1>0, <1>1, BudgetAssumption DEF Counted, TypeOK
<1>4. retries' = retries + 1 /\ retried' = retried \union {raw.code}
  BY <1>1, <1>3 DEF CountRetry
<1>5. Counted'
  BY <1>1, <1>2, <1>3, <1>4 DEF Counted
<1>6. raw' \in KernelResults => raw' # None
  BY KernelReturn
<1>7. healing.attempt \in 1 .. MaxAttempts
  BY <1>3
<1>8. TypeOK'
  BY <1>0, <1>1, <1>2, <1>3, <1>4, <1>6, <1>7 DEF TypeOK, Idle
<1>9. FromKernel'
  BY <1>1, <1>2 DEF FromKernel, KernelResults
<1>10. SafetyNotRetried'
  <2>1. raw \in KernelResults /\ Healable(raw.code) /\ raw.code # None
    BY <1>0, <1>1 DEF FromKernel, TypeOK
  <2>2. raw.code \notin Unhealable
    BY <2>1 DEF Healable
  <2>3. ~(q.text.injection > 0)
    BY <2>1, <2>2, KernelReturn DEF Unhealable
  <2>4. QED
    BY <1>0, <1>1, <1>4, <2>2, <2>3 DEF SafetyNotRetried
<1>11. receipt' = None /\ pc' \notin Decided
  BY <1>0, <1>1, <1>2 DEF Answers, Receipted, Decided
<1>12. Answers'
  BY <1>0, <1>1, <1>11, NoAnswer
<1>13. QED
  BY <1>5, <1>8, <1>9, <1>10, <1>12 DEF Inv, Healing

\* The stages from the pre-check to the answer.
LEMMA DecideKeeps ==
  ASSUME Inv, Decide
  PROVE  Inv'
<1>0. Healing /\ Answers /\ TypeOK
  BY DEF Inv, Healing
<1>1. PICK choice \in Decisions :
        /\ choice[1] = q
        /\ LET d == choice[4]
               valid == ValidCombination(d.answer.gate, d.answer.business, d.answer.review)
           IN /\ said' = d.said
              /\ payload' = IF valid THEN d.answer ELSE None
              /\ artifact' = IF valid THEN [decision |-> d.answer, at |-> submissions] ELSE None
              /\ pc' = IF valid THEN "audit" ELSE "failed"
              /\ why' = IF valid THEN None ELSE "contract"
  BY DEF Decide
<1>2. /\ pc = "policy" /\ raw' = None /\ healing' = Fresh /\ tried' = FALSE
      /\ UNCHANGED <<q, submissions, file, degraded, receipt, ledger, retries, retried>>
  BY DEF Decide
<1>3. PICK k \in KernelSays, telos \in TelosScores \union {0}, c \in DecideCases :
        choice[4] = Decision(q, k, telos, c)
  BY <1>1 DEF Decisions
<1> DEFINE d == choice[4]
           valid == ValidCombination(d.answer.gate, d.answer.business, d.answer.review)
<1>4. /\ said' = d.said
      /\ payload' = IF valid THEN d.answer ELSE None
      /\ artifact' = IF valid THEN [decision |-> d.answer, at |-> submissions] ELSE None
      /\ pc' = IF valid THEN "audit" ELSE "failed"
      /\ why' = IF valid THEN None ELSE "contract"
  BY <1>1
<1>5. /\ d.answer.gate \in Gates
      /\ (\/ d.said.kernel = "deny"
          \/ d.said.policy \in {"deny", "halt"}
          \/ /\ d.said.pre = "rejected"
             /\ d.said.policy \notin {"escalate", "require_human_review"}
          \/ "irreversible_action" \in q.flags /\ q.audit # "complete")
         => d.answer.gate = "block"
      /\ d.answer.actionability = "bind_required_before_execution" =>
           /\ MissingEvidence(q) = {}
           /\ SensitiveMissing(q) = {}
           /\ d.said.kernel \in {None, "allow"}
           /\ ~d.answer.review
           /\ ~NonPromotable(q.signal)
      /\ ~valid => NonPromotable(q.signal)
  <2>1. d = Decision(q, k, telos, c)
    BY <1>3
  <2> HIDE DEF d
  <2>2. QED
    BY <2>1, DecisionSound
<1> HIDE DEF d, valid
<1>6. pc' \in Decided =>
        payload' = d.answer /\ artifact' = [decision |-> d.answer, at |-> submissions]
  BY <1>4 DEF Decided
<1>7. ClosedDecision' /\ Undrifted'
  BY <1>2, <1>4, <1>5, <1>6 DEF ClosedDecision, Undrifted
<1>8. CleanDecision'
  <2>1. SUFFICES ASSUME pc' \in Decided,
                        artifact'.decision.actionability = "bind_required_before_execution"
                 PROVE  /\ MissingEvidence(q) = {}
                        /\ SensitiveMissing(q) = {}
                        /\ said'.kernel \in {None, "allow"}
                        /\ ~artifact'.decision.review
                        /\ ~NonPromotable(q.signal)
    BY <1>2 DEF CleanDecision
  <2>2. artifact'.decision = d.answer
    BY <1>6, <2>1
  <2>3. QED
    BY <1>4, <1>5, <2>1, <2>2
<1>9. ContractHolds'
  <2>1. None # "contract"
    BY PipelineAssumption
  <2>2. QED
    BY <1>2, <1>4, <1>5, <2>1 DEF ContractHolds
<1>10. Receipted' /\ receipt' = None
  <2>1. receipt' = None
    BY <1>0, <1>2 DEF Answers, Receipted
  <2>2. QED
    BY <2>1 DEF Receipted
<1>11. TypeOK'
  <2>1. pc' \in {"audit", "failed"} /\ (pc' = "audit" => payload' = d.answer)
        /\ why' \in {None, "contract"}
    BY <1>4
  <2>2. healing'.attempt \in 0 .. MaxAttempts
    BY <1>2, BudgetAssumption DEF Fresh
  <2>3. QED
    BY <1>0, <1>2, <1>5, <1>10, <2>1, <2>2 DEF TypeOK, Idle
<1>12. Healing'
  <2>1. pc' \notin {"core", "heal", "retry"}
    BY <1>4
  <2>2. QED
    BY <1>0, <1>2, <1>11, <2>1, HealingKept
<1>13. QED
  BY <1>7, <1>8, <1>9, <1>10, <1>12 DEF Inv, Answers

\* What is written after the decision leaves the artifact alone.
LEMMA AfterwardsKeeps ==
  ASSUME Inv, Audit \/ Persist \/ Answer
  PROVE  Inv'
<1>0. Healing /\ Answers /\ TypeOK
  BY DEF Inv, Healing
<1>1. /\ pc \in {"audit", "persist", "replay"}
      /\ \/ pc' \in {"persist", "done"} /\ payload' = payload
         \/ pc' = "verify"
      /\ pc = "replay" => pc' = "done"
      /\ ledger \subseteq ledger'
      /\ UNCHANGED <<q, submissions, raw, healing, tried, file, artifact, receipt, retries,
                     retried, said, why>>
  BY DEF Audit, Persist, Answer
<1>2. degraded' \subseteq Persisters \union
        {"audit_log", "canonical_trust_link", "canonical_replay_source"}
  BY <1>0 DEF TypeOK, Audit, Persist, Answer
<1>3. payload'.gate \in Gates
  <2>1. CASE Audit \/ Answer
    BY <1>0, <2>1 DEF TypeOK, Audit, Answer
  <2>2. CASE Persist
    <3>1. PICK gate \in Drifts \union {payload.gate} : payload' = [payload EXCEPT !.gate = gate]
      BY <2>2 DEF Persist
    <3>2. payload = artifact.decision /\ payload.gate \in Gates
      BY <1>0, <2>2 DEF TypeOK, Answers, Undrifted, Decided, Persist
    <3>3. gate \in Gates
      BY <3>1, <3>2, PipelineAssumption
    <3>4. QED
      BY <3>1, <3>3
  <2>3. QED
    BY <2>1, <2>2
<1>4. TypeOK'
  BY <1>0, <1>1, <1>2, <1>3 DEF TypeOK, Idle
<1>5. Healing'
  BY <1>0, <1>1, <1>4, HealingKept
<1>6. /\ receipt # None => pc' \in {"replay", "done"}
      /\ pc \in Decided \ {"verify"}
      /\ pc' \in Decided \ {"verify"} => payload' = artifact.decision
  BY <1>0, <1>1 DEF Answers, Receipted, Undrifted, Decided
<1>7. Answers'
  BY <1>0, <1>1, <1>6, AnswerKept
<1>8. QED
  BY <1>5, <1>7 DEF Inv

\* The drift check lets pass only what the artifact says.
LEMMA VerifyKeeps ==
  ASSUME Inv, Verify
  PROVE  Inv'
<1>0. Healing /\ Answers /\ TypeOK
  BY DEF Inv, Healing
<1>1. /\ pc = "verify"
      /\ UNCHANGED <<q, submissions, raw, healing, tried, file, degraded, receipt, ledger,
                     retries, retried, said>>
  BY DEF Verify
<1>2. receipt = None
  BY <1>0, <1>1 DEF Answers, Receipted
<1>3. CASE payload = artifact.decision /\ pc' = "link" /\ UNCHANGED <<payload, artifact, why>>
  <2>1. TypeOK'
    BY <1>0, <1>1, <1>3 DEF TypeOK, Idle
  <2>2. Healing'
    BY <1>0, <1>1, <1>3, <2>1, HealingKept
  <2>3. Answers'
    BY <1>0, <1>1, <1>2, <1>3, AnswerKept DEF Decided
  <2>4. QED
    BY <2>2, <2>3 DEF Inv
<1>4. CASE Fail("drift")
  <2>1. pc' = "failed" /\ why' = "drift"
    BY <1>4 DEF Fail
  <2>2. TypeOK'
    BY <1>0, <1>1, <1>2, <2>1 DEF TypeOK, Idle
  <2>3. Healing'
    BY <1>0, <1>1, <2>1, <2>2, HealingKept
  <2>4. Answers'
    BY <1>0, <1>1, <1>2, <2>1, NoAnswer DEF Decided
  <2>5. QED
    BY <2>3, <2>4 DEF Inv
<1>5. QED
  BY <1>3, <1>4 DEF Verify

\* The receipt comes with the entry it names.
LEMMA LinkKeeps ==
  ASSUME Inv, Link
  PROVE  Inv'
<1>0. Healing /\ Answers /\ TypeOK
  BY DEF Inv, Healing
<1>1. /\ pc = "link" /\ pc' = "replay"
      /\ UNCHANGED <<q, submissions, raw, healing, tried, file, payload, artifact, retries,
                     retried, said, why>>
      /\ ledger \subseteq ledger'
      /\ \/ receipt' = receipt
         \/ receipt' = artifact /\ [kind |-> "link", ref |-> artifact] \in ledger'
      /\ degraded' \in {degraded, degraded \union {"canonical_trust_link"}}
  BY DEF Link
<1>2. receipt = None
  BY <1>0, <1>1 DEF Answers, Receipted
<1>3. TypeOK'
  BY <1>0, <1>1, <1>2 DEF TypeOK, Idle
<1>4. Healing'
  BY <1>0, <1>1, <1>3, HealingKept
<1>5. ClosedDecision' /\ CleanDecision' /\ ContractHolds' /\ Undrifted'
  BY <1>0, <1>1 DEF Answers, ClosedDecision, CleanDecision, ContractHolds, Undrifted, Decided
<1>6. Receipted'
  BY <1>1, <1>2 DEF Receipted
<1>7. QED
  BY <1>4, <1>5, <1>6 DEF Inv, Answers

\* A crash leaves the file and the ledger.
LEMMA CrashKeeps ==
  ASSUME Inv, Crash
  PROVE  Inv'
<1>0. Healing /\ Answers /\ TypeOK
  BY DEF Inv, Healing
<1>1. /\ pc' = "idle" /\ raw' = None /\ healing' = Fresh /\ tried' = FALSE /\ artifact' = None
      /\ degraded' = {} /\ receipt' = None
      /\ UNCHANGED <<q, submissions, file, ledger, retries, retried, why>>
  BY DEF Crash
<1>2. healing'.attempt \in 0 .. MaxAttempts
  BY <1>1, BudgetAssumption DEF Fresh
<1>3. TypeOK'
  BY <1>0, <1>1, <1>2 DEF TypeOK, Idle
<1>4. Healing'
  BY <1>0, <1>1, <1>3, HealingKept
<1>5. Answers'
  BY <1>0, <1>1, NoAnswer DEF Decided
<1>6. QED
  BY <1>4, <1>5 DEF Inv

LEMMA InitInv ==
  Init => Inv
<1>1. SUFFICES ASSUME Init PROVE Inv
  OBVIOUS
<1>2. MaxAttempts \in Nat /\ MaxSubmissions \in Nat /\ Fresh.attempt = 0 /\ None # "contract"
  BY BudgetAssumption, PipelineAssumption DEF Fresh
<1>3. TypeOK
  <2>1. healing.attempt \in 0 .. MaxAttempts /\ submissions \in 0 .. MaxSubmissions
    BY <1>1, <1>2 DEF Init
  <2>2. tried \in BOOLEAN /\ receipt \in {None, artifact}
    BY <1>1 DEF Init
  <2>3. QED
    BY <1>1, <2>1, <2>2 DEF Init, TypeOK, Idle
<1>4. Counted /\ FromKernel /\ SafetyNotRetried
  BY <1>1, <1>2 DEF Init, Counted, FromKernel, SafetyNotRetried
<1>5. ClosedDecision /\ CleanDecision /\ ContractHolds /\ Undrifted
  BY <1>1, <1>2 DEF Init, ClosedDecision, CleanDecision, ContractHolds, Undrifted, Decided
<1>6. Receipted
  BY <1>1 DEF Init, Receipted
<1>7. QED
  BY <1>3, <1>4, <1>5, <1>6 DEF Inv, Healing, Answers

LEMMA NextInv ==
  Inv /\ [Next]_vars => Inv'
<1>1. SUFFICES ASSUME Inv, [Next]_vars PROVE Inv'
  OBVIOUS
<1>2. CASE UNCHANGED vars
  <2>1. UNCHANGED <<q, pc, submissions, raw, healing, tried, file, payload, artifact, degraded,
                    receipt, ledger, retries, retried, said, why>>
    BY <1>2 DEF vars
  <2>2. TypeOK'
    BY <1>1, <2>1 DEF Inv, Healing, TypeOK
  <2>3. Counted' /\ FromKernel' /\ SafetyNotRetried'
    BY <1>1, <2>1 DEF Inv, Healing, Counted, FromKernel, SafetyNotRetried, KernelResults
  <2>4. /\ receipt # None => pc' \in {"replay", "done"}
        /\ pc' \in Decided \ {"verify"} => payload' = artifact.decision
    BY <1>1, <2>1 DEF Inv, Answers, Receipted, Undrifted
  <2>5. Answers'
    BY <1>1, <2>1, <2>4, AnswerKept DEF Inv
  <2>6. QED
    BY <2>2, <2>3, <2>5 DEF Inv, Healing
<1>3. CASE Next
  BY <1>1, <1>3, SubmitKeeps, CoreDecideKeeps, HealEndsKeeps, HealStepKeeps, RetryKeeps,
     DecideKeeps, AfterwardsKeeps, VerifyKeeps, LinkKeeps, CrashKeeps
     DEF Next, Work
<1>4. QED
  BY <1>1, <1>2, <1>3

LEMMA Invariant ==
  Spec => []Inv
<1>1. QED
  BY InitInv, NextInv, PTL DEF Spec

-----------------------------------------------------------------------------
(* Theorems *)

\* The variables of the pipeline keep their types.
THEOREM TypeCorrect ==
  Spec => []TypeOK
<1>1. Inv => TypeOK
  BY DEF Inv, Healing
<1>2. QED
  BY <1>1, Invariant, PTL

\* A denial of the kernel or of the policy reaches the answer, and so does a
\* rejection of the pre-check unless an enforced policy asks for a human instead,
\* for every request, FUJI policy and bundle.
THEOREM PipelineFailsClosed ==
  Spec => []FailClosed
<1>1. Inv => FailClosed
  BY DEF Inv, Answers, Decided, Undrifted, ClosedDecision, FailClosed
<1>2. QED
  BY <1>1, Invariant, PTL

\* An answer that only asks for a bind is clean.
THEOREM ActionableAnswersClean ==
  Spec => []ActionableIsClean
<1>1. Inv => ActionableIsClean
  BY DEF Inv, Answers, Decided, Undrifted, CleanDecision, ActionableIsClean
<1>2. QED
  BY <1>1, Invariant, PTL

\* The derivation of the answer never breaks the public contract.
THEOREM ContractKept ==
  Spec => []ContractHolds
<1>1. Inv => ContractHolds
  BY DEF Inv, Answers
<1>2. QED
  BY <1>1, Invariant, PTL

\* The retry budget holds across any number of crashes and submissions.
THEOREM BudgetKept ==
  Spec => []RetryBudget
<1>1. Inv => RetryBudget
  BY DEF Inv, Healing, Counted, RetryBudget
<1>2. QED
  BY <1>1, Invariant, PTL

\* A rejection for safety is never retried.
THEOREM SafetyIsFinal ==
  Spec => []SafetyNotRetried
<1>1. Inv => SafetyNotRetried
  BY DEF Inv, Healing
<1>2. QED
  BY <1>1, Invariant, PTL

\* A receipt in the answer attests the decision that the caller gets and has its
\* entry in the ledger, whatever the writers before it did to the payload.
THEOREM ReceiptsAreTrue ==
  Spec => []ReceiptTrue
<1>1. Inv => ReceiptTrue
  BY DEF Inv, Answers, Decided, Undrifted, Receipted, ReceiptTrue
<1>2. QED
  BY <1>1, Invariant, PTL
=============================================================================
