------------------------------ MODULE FujiGate ------------------------------
(***************************************************************************)
(* The FUJI safety gate (core/fuji): a safety head scores the text, a      *)
(* deterministic layer adds floors, penalties and caps, a policy maps risk *)
(* and categories to an action. Pure operators; the answer of the LLM tool *)
(* and the policy in force are arguments.                                  *)
(*                                                                         *)
(* Risk is in basis points (10000 is 1.0), stakes, telos and the injection *)
(* score are in percent.                                                   *)
(***************************************************************************)
EXTENDS Integers, FiniteSets, Optional

CONSTANT StrictPolicyLoad   \* VERITAS_FUJI_STRICT_POLICY_LOAD

\* Keyword topics of the policy and the floor each one sets.
TopicFloor ==
  [toxicity                      |-> 8000,
   bias_discrimination           |-> 7800,
   unauthorized_financial_advice |-> 8000,
   definitive_legal_judgment     |-> 8000,
   medical_high_risk             |-> 8500,
   secret_leak                   |-> 8500]

AtLeast(risk, floor) == IF risk < floor THEN floor ELSE risk
AtMost(risk, cap)    == IF risk > cap THEN cap ELSE risk

-----------------------------------------------------------------------------
(* The safety head. A text has banned (a blocked keyword), topics, pii,    *)
(* injection and risky (RISKY_KEYWORDS_POC).                               *)

\* _fallback_safety_head: the highest floor that applies.
HeuristicHead(t) ==
  LET floors == {500}
                  \union (IF t.banned THEN {8000} ELSE {})
                  \union {TopicFloor[c] : c \in t.topics}
                  \union (IF t.pii THEN {3500} ELSE {})
  IN [risk |-> CHOOSE r \in floors : \A s \in floors : s <= r,
      cats |-> t.topics \union (IF t.banned THEN {"illicit"} ELSE {})
                        \union (IF t.pii THEN {"PII"} ELSE {}),
      fallback |-> TRUE, nameLike |-> FALSE]

\* _apply_llm_fallback_penalty
FallbackPenalty(head, stakes) ==
  LET floor == IF head.cats \subseteq {"safety_head_error"} THEN 3000
               ELSE IF stakes >= 70 THEN 7000 ELSE 5000
  IN [head EXCEPT !.risk = AtLeast(@, floor)]

\* run_safety_head. answer: what the tool llm_safety returned, None when it
\* failed. nameLike: its model is the heuristic and the only PII it saw is
\* something that looks like a name.
SafetyHead(t, answer, stakes) ==
  IF answer = None
  THEN FallbackPenalty([HeuristicHead(t) EXCEPT !.cats = @ \union {"safety_head_error"}], stakes)
  ELSE IF answer.fallback THEN FallbackPenalty(answer, stakes)
  ELSE answer

-----------------------------------------------------------------------------
(* Risk *)

\* The steps of fuji_core_decide up to the policy, each on [risk, cats].
AddInjection(s, t) ==
  IF t.injection = 0 THEN s
  ELSE [risk |-> AtMost(s.risk + 15 * t.injection, 10000),
        cats |-> s.cats \union {"prompt_injection"}]

RaiseFloors(s, safe) ==
  LET illicit == IF "illicit" \in s.cats THEN AtLeast(s.risk, 7000) ELSE s.risk
      harm == IF "self_harm" \in s.cats THEN AtLeast(illicit, 8000) ELSE illicit
  IN [s EXCEPT !.risk = IF "PII" \in s.cats /\ ~safe THEN AtLeast(harm, 5000) ELSE harm]

PenaliseFallback(s, head) ==
  IF head.fallback /\ s.cats \ {"safety_head_error", "low_evidence"} # {}
  THEN [s EXCEPT !.risk = AtMost(@ + 2000, 10000)] ELSE s

IgnoreNameLike(s, head) ==
  IF head.nameLike THEN [risk |-> AtMost(s.risk, 2000), cats |-> s.cats \ {"PII"}] ELSE s

RelaxMasked(s, safe) ==
  IF safe /\ "PII" \in s.cats
  THEN [risk |-> AtMost(s.risk, 4000), cats |-> s.cats \ {"PII"}] ELSE s

PenaliseLowEvidence(s, low) ==
  IF low THEN [risk |-> AtMost(s.risk + 1000, 10000), cats |-> s.cats \union {"low_evidence"}]
  ELSE s

ScaleByTelos(s, telos) ==
  [s EXCEPT !.risk = AtMost((@ * (1000 + telos)) \div 1000, 10000)]

\* e: stakes, telos, safe, low (fewer pieces of evidence than asked), poc.
Assess(t, head, e) ==
  ScaleByTelos(
    PenaliseLowEvidence(
      RelaxMasked(
        IgnoreNameLike(
          PenaliseFallback(
            RaiseFloors(AddInjection([risk |-> head.risk, cats |-> head.cats], t), e.safe),
            head),
          head),
        e.safe),
      e.low),
    e.telos)

-----------------------------------------------------------------------------
(* Policy. A policy has limits (category -> [max, action]), tiers          *)
(* (action -> highest risk) and broken (a tier that is not a number).      *)

Actions == {"allow", "warn", "human_review", "deny"}

Precedence == [allow |-> 0, warn |-> 1, human_review |-> 2, deny |-> 3]

\* An action that the policy does not know never widens access.
ActionOf(limit) == IF limit.action \in Actions THEN limit.action ELSE "deny"

Violated(s, p) == {c \in s.cats \intersect DOMAIN p.limits : s.risk > p.limits[c].max}

CategoryAction(violated, p) ==
  CHOOSE a \in {ActionOf(p.limits[c]) : c \in violated} :
    \A c \in violated : Precedence[ActionOf(p.limits[c])] <= Precedence[a]

\* The lowest tier that covers the risk; no tier: allow.
TierAction(risk, p) ==
  LET covering == {a \in DOMAIN p.tiers : risk <= p.tiers[a]}
  IN IF covering = {} THEN "allow"
     ELSE CHOOSE a \in covering : \A b \in covering : p.tiers[a] <= p.tiers[b]

\* _apply_policy: the tiers are read only when no category is over its limit.
PolicyAction(s, p) ==
  IF Violated(s, p) # {} THEN CategoryAction(Violated(s, p), p) ELSE TierAction(s.risk, p)

Verdict(action) ==
  CASE action = "allow"        -> [status |-> "allow", decision |-> "allow"]
    [] action = "warn"         -> [status |-> "allow_with_warning", decision |-> "hold"]
    [] action = "human_review" -> [status |-> "needs_human_review", decision |-> "hold"]
    [] OTHER                   -> [status |-> "deny", decision |-> "deny"]

\* is_high_risk_context
HighRiskContext(t, head, s, e) ==
  \/ e.stakes >= 70
  \/ s.risk >= 7000
  \/ (s.cats \union head.cats)
       \intersect {"self_harm", "illicit", "violence", "minors", "PII"} # {}
  \/ t.risky

\* PoC mode never allows with little evidence.
PocVerdict(t, head, s, e, verdict) ==
  IF ~(e.poc /\ e.low) THEN verdict
  ELSE Verdict(IF HighRiskContext(t, head, s, e) THEN "deny" ELSE "human_review")

\* select_fuji_code: a text with an injection score has signals.
SelectCode(t, violated, e, exception) ==
  IF t.injection > 0 THEN "F-4001"
  ELSE IF violated \intersect {"PII", "secret_leak"} # {} THEN "F-4003"
  ELSE IF exception THEN "F-3006"
  ELSE IF "unauthorized_financial_advice" \in violated THEN "F-3002"
  ELSE IF "definitive_legal_judgment" \in violated THEN "F-3003"
  ELSE IF "medical_high_risk" \in violated THEN "F-3004"
  ELSE IF "toxicity" \in violated THEN "F-2001"
  ELSE IF "bias_discrimination" \in violated THEN "F-2002"
  ELSE IF e.low THEN "F-1002"
  ELSE "F-3008"

\* The risk that fuji_gate reports has three decimals.
Reported(risk) == ((risk + 5) \div 10) * 10

\* fuji_gate: a code only with a denial.
FujiGate(t, answer, p, e) ==
  LET head == SafetyHead(t, answer, e.stakes)
      s == Assess(t, head, e)
      failed == p.broken /\ Violated(s, p) = {}
      final == IF failed THEN [s EXCEPT !.risk = AtLeast(@, 7000)] ELSE s
      verdict == PocVerdict(t, head, final, e,
                            Verdict(IF failed THEN "human_review" ELSE PolicyAction(s, p)))
      violated == IF failed THEN {"safety_head_error"} ELSE Violated(s, p)
  IN IF failed /\ StrictPolicyLoad
     THEN [status |-> "deny", decision |-> "deny", risk |-> 10000,
           code |-> SelectCode(t, {}, e, TRUE)]
     ELSE [status |-> verdict.status, decision |-> verdict.decision,
           risk |-> Reported(final.risk),
           code |-> IF verdict.decision = "deny" THEN SelectCode(t, violated, e, FALSE) ELSE None]

\* validate_action, after the status map of the pre-check.
Precheck(res) ==
  CASE res.decision = "allow" -> "allow"
    [] res.decision = "deny"  -> "rejected"
    [] OTHER                  -> "modify"
=============================================================================
