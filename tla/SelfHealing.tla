---------------------------- MODULE SelfHealing ----------------------------
(***************************************************************************)
(* The policy and the guard rails of the retry loop (core/self_healing.py).*)
(* Pure operators; the loop itself is in DecidePipeline.                   *)
(***************************************************************************)
EXTENDS Integers, Optional

CONSTANTS
  MaxAttempts,   \* VERITAS_MAX_HEALING_ATTEMPTS
  MaxSteps,      \* VERITAS_HEALING_MAX_STEPS
  MaxSame        \* VERITAS_HEALING_MAX_SAME_ERROR

\* The loop itself ends after 20 iterations: no budget in use reaches that.
ASSUME BudgetAssumption ==
  /\ MaxAttempts \in Nat /\ MaxAttempts < 20
  /\ MaxSteps \in Nat
  /\ MaxSame \in Nat

\* HealingState. steps_used always equals attempt; the clock is left out.
Fresh == [attempt |-> 0, last |-> None, same |-> 0, sig |-> None]

\* The action that a rejection carries for its code (fuji_codes.py).
Feedback(code) ==
  CASE code = "F-1002"               -> "REQUEST_EVIDENCE"
    [] code \in {"F-1005", "F-2203"} -> "RE_CRITIQUE"
    [] code = "F-2101"               -> "RE_DEBATE"
    [] code \in {"F-3001", "F-4003"} -> "REWRITE_PLAN"
    [] OTHER                         -> "HUMAN_REVIEW"

\* Codes that are never healed whatever the feedback says: F-4* and two more.
Unhealable == {"F-4001", "F-4003", "F-3008", "F-3001"}

\* decide_healing_action allows a retry.
Healable(code) == code \notin Unhealable /\ Feedback(code) # "HUMAN_REVIEW"

NextSame(h, code) == IF code = h.last THEN h.same + 1 ELSE 1

\* check_guardrails returns a stop reason. late: the time budget is used up.
GuardStops(h, code, sig, late) ==
  \/ h.attempt + 1 > MaxAttempts
  \/ h.attempt >= MaxSteps
  \/ late
  \/ NextSame(h, code) >= MaxSame
  \/ h.sig # None /\ sig = h.sig

\* Mutant: the state that the guard rails read never moves.
AdvanceNothing(h, code, sig) == h

\* advance_state
Advance(h, code, sig) ==
  [attempt |-> h.attempt + 1, last |-> code, same |-> NextSame(h, code), sig |-> sig]
=============================================================================
