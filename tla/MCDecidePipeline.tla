-------------------------- MODULE MCDecidePipeline --------------------------
(***************************************************************************)
(* Requests, LLM answers and policies for model checking. The policies are *)
(* the built-in one (fuji_policy.py), the strict one that denies           *)
(* everything, and one with a tier that is not a number.                   *)
(***************************************************************************)
EXTENDS DecidePipeline

MCAlias == [kyc |-> "identity"]

Plain == [banned |-> FALSE, topics |-> {}, pii |-> FALSE, injection |-> 0, risky |-> FALSE]

\* A request with nothing remarkable about it.
Ordinary ==
  [flags |-> {}, audit |-> "complete", stops |-> {}, required |-> {}, satisfied |-> {},
   domain |-> "general", strict |-> FALSE, template |-> FALSE, score |-> None,
   business |-> None, secure |-> FALSE, signal |-> None, text |-> Plain, stakes |-> 50,
   telos |-> 50, safe |-> FALSE, masked |-> FALSE, poc |-> TRUE, enforceLow |-> FALSE,
   minEvidence |-> 2, healing |-> TRUE, bundle |-> FALSE, enforce |-> TRUE]

Shaping == [narrowing |-> 3, counterfactual |-> 2, headroom |-> 3, openness |-> 2]
Harmless == [narrowing |-> 1, counterfactual |-> 1, headroom |-> 1, openness |-> 3]

Unhealed == [Ordinary EXCEPT !.healing = FALSE, !.bundle = TRUE]

MCRequests ==
  {Ordinary, Unhealed,
   [Ordinary EXCEPT !.text.pii = TRUE],
   [Ordinary EXCEPT !.text.injection = 40, !.enforceLow = TRUE],
   [Unhealed EXCEPT !.text.topics = {"toxicity"}, !.business = "approve"],
   [Unhealed EXCEPT !.flags = {"irreversible_action"}, !.audit = "missing"],
   [Unhealed EXCEPT !.flags = {"irreversible_action", "ambiguity_detected"}, !.audit = "no",
                    !.business = "review"],
   [Unhealed EXCEPT !.required = {"kyc"}, !.flags = {"ambiguity_detected"}],
   [Unhealed EXCEPT !.domain = "aml_kyc", !.required = {"identity"}, !.satisfied = {"identity"},
                    !.enforce = FALSE],
   [Unhealed EXCEPT !.domain = "aml_kyc", !.strict = TRUE, !.satisfied = {"identity", "funds"},
                    !.required = {"other"}],
   [Unhealed EXCEPT !.flags = {"sanctions_partial_match"}, !.business = "escalate"],
   [Unhealed EXCEPT !.signal = Shaping, !.text.banned = TRUE],
   [Unhealed EXCEPT !.signal = Harmless, !.score = 8500, !.flags = {"high_risk_ambiguity"}]}

MCHeads ==
  {None,
   [risk |-> 500, cats |-> {}, fallback |-> FALSE, nameLike |-> FALSE],
   [risk |-> 6000, cats |-> {"PII"}, fallback |-> TRUE, nameLike |-> TRUE],
   [risk |-> 9800, cats |-> {"violence"}, fallback |-> FALSE, nameLike |-> FALSE]}

Limit(max, action) == [max |-> max, action |-> action]

Tiers == [allow |-> 4000, warn |-> 6500, human_review |-> 8500, deny |-> 10000]

MCPolicies ==
  {[limits |-> [PII |-> Limit(2000, "human_review"), self_harm |-> Limit(500, "deny"),
                illicit |-> Limit(1000, "deny"), violence |-> Limit(2000, "human_review"),
                minors |-> Limit(1500, "human_review"),
                safety_head_error |-> Limit(0, "human_review")],
    tiers |-> Tiers, broken |-> FALSE],
   [limits |-> <<>>, tiers |-> [deny |-> 10000], broken |-> FALSE],
   [limits |-> [illicit |-> Limit(1000, "quarantine")], tiers |-> Tiers, broken |-> TRUE]}

Evaluation(outcome, strategy, promoted, inCanary) ==
  [outcome |-> outcome, strategy |-> strategy, promoted |-> promoted, inCanary |-> inCanary]

MCBundles ==
  {Evaluation(None, "full", FALSE, FALSE),
   Evaluation("deny", "canary", FALSE, TRUE),
   Evaluation("halt", "full", FALSE, FALSE),
   Evaluation("escalate", "staged", TRUE, FALSE),
   Evaluation("deny", "staged", FALSE, FALSE),
   Evaluation("halt", "disabled", FALSE, FALSE)}
=============================================================================
