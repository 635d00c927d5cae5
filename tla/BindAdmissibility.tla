------------------------- MODULE BindAdmissibility --------------------------
(***************************************************************************)
(* The bind gate against what it promises, over all its inputs: the        *)
(* evidence gets worse or the policy gets stricter, one field at a time.   *)
(***************************************************************************)
EXTENDS BindGate

-----------------------------------------------------------------------------
(* Evidence gets worse, policy gets stricter *)

VARIABLE input

GateInit == input \in Inputs

Worse(a, b) ==
  \/ a = "true" /\ b \in {"missing", "false"}
  \/ a = "missing" /\ b = "false"

WorseDrift(a, b) ==
  \/ a = "same" /\ b \in {"missing", "differs"}
  \/ a = "missing" /\ b = "differs"

LoseSignal ==
  \E f \in {"authority", "constraints", "risk"}, s \in Signals :
    Worse(input[f], s) /\ input' = [input EXCEPT ![f] = s]

DriftAway ==
  \E d \in Drifts :
    WorseDrift(input.drift, d) /\ input' = [input EXCEPT !.drift = d]

Expire ==
  \/ \E e \in {"missing", "expired"} :
       input.ttl = "valid" /\ input' = [input EXCEPT !.ttl = e]
  \/ \E e \in {"missing", "expired", "malformed"} :
       input.approval = "valid" /\ input' = [input EXCEPT !.approval = e]

Restrict ==
  \/ \E s \in Severities :
       s > input.severity /\ input' = [input EXCEPT !.severity = s]
  \/ \E b \in {"escalate", "refuse", "block", "error"} :
       /\ input.boundary \in {"none", "commit"}
       /\ input' = [input EXCEPT !.boundary = b]

Tighten ==
  \E p \in Policies :
    /\ input.policy.drift_required => p.drift_required
    /\ input.policy.ttl_required => p.ttl_required
    /\ input.policy.approval_freshness_required => p.approval_freshness_required
    /\ input.policy.missing_signal = "block" => p.missing_signal = "block"
    /\ p # input.policy
    /\ input' = [input EXCEPT !.policy = p]

GateNext == LoseSignal \/ DriftAway \/ Expire \/ Restrict \/ Tighten

GateSpec == GateInit /\ [][GateNext]_input

-----------------------------------------------------------------------------
(* Properties *)

\* What an effect requires, said without the code's order of evaluation.
Admits(in) ==
  /\ in.authority = "true" /\ in.constraints = "true" /\ in.risk = "true"
  /\ in.policy.drift_required => in.drift = "same"
  /\ in.ttl = "valid" \/ (in.ttl = "missing" /\ ~in.policy.ttl_required)
  /\ \/ in.approval = "valid"
     \/ in.approval = "missing" /\ ~in.policy.approval_freshness_required
  /\ in.severity =< 1
  /\ in.boundary \in {"none", "commit"}

\* Fail closed: the gate lets adapter.apply run exactly when every signal the
\* policy requires is present and good, no freshness window has expired and no
\* stricter decision or commit boundary stands against it.
FailClosed == (Gate(input) = "apply") <=> Admits(input)

\* Worse evidence or a stricter policy never loosens the outcome: it never
\* turns a refusal into an effect, nor a BLOCKED that the admissibility checks
\* or the decision precedence gave into an ESCALATED.  (A BLOCKED of the commit
\* boundary may become ESCALATED: the boundary is evaluated last.)
NeverLoosens ==
  [][ /\ Gate(input)' = "apply" => Gate(input) = "apply"
      /\ Gate(input) = "BLOCKED" /\ input.boundary \in {"none", "commit"}
           => Gate(input)' \in {"BLOCKED", "raise"} ]_input
=============================================================================
