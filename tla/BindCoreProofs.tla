--------------------------- MODULE BindCoreProofs ---------------------------
(***************************************************************************)
(* Theorems about execute_bind_adjudication for any number of workers,     *)
(* intents, calls and faults, any adapter and any evidence: the gate fails *)
(* closed and never loosens, the state is well typed, stored receipts tell *)
(* the truth, returned receipts are stored, and with drift checking        *)
(* required only calls whose snapshot matched their intent have effects.   *)
(* A submission whose intent already had a receipt has no effect, and with *)
(* the adapters that write a snapshot back committed changes stay in place *)
(* and rolled-back ones are gone, but for calls that overlapped.           *)
(***************************************************************************)
EXTENDS BindCore, BindAdmissibility, TLAPS

-----------------------------------------------------------------------------
(* The gate in front of the adapter: it fails closed and never loosens, for  *)
(* every input (BindAdmissibility)                                           *)

\* What evaluate_bind_admissibility requires before it answers
\* ELIGIBLE_TO_COMMIT.
Eligible(in) ==
  /\ in.authority = "true" /\ in.constraints = "true" /\ in.risk = "true"
  /\ in.policy.drift_required => in.drift = "same"
  /\ ~RequiredMissing(in)
  /\ in.ttl # "expired" /\ in.approval # "expired"

\* A signal check of the evaluator passes exactly on a true signal, and fails
\* on a false one.
LEMMA SignalCheckPasses ==
  ASSUME NEW in \in Inputs, NEW s \in Signals
  PROVE  /\ SignalCheck(in, s) \in {"pass", "fail", "escalate"}
         /\ SignalCheck(in, s) = "pass" <=> s = "true"
  BY DEF SignalCheck, MissingStatus, Signals, Inputs, Policies

\* The drift check passes exactly when drift is not required or the
\* fingerprints agree.
LEMMA DriftCheckPasses ==
  ASSUME NEW in \in Inputs
  PROVE  /\ DriftCheck(in) \in {"pass", "fail", "escalate"}
         /\ DriftCheck(in) = "pass" <=>
              (in.policy.drift_required => in.drift = "same")
  BY DEF DriftCheck, MissingStatus, Drifts, Inputs, Policies

\* The freshness check passes exactly when nothing required is missing and
\* nothing has expired.
LEMMA FreshnessCheckPasses ==
  ASSUME NEW in \in Inputs
  PROVE  /\ FreshnessCheck(in) \in {"pass", "fail", "escalate"}
         /\ FreshnessCheck(in) = "pass" <=>
              /\ ~RequiredMissing(in)
              /\ in.ttl # "expired" /\ in.approval # "expired"
<1>1. RequiredMissing(in) \in BOOLEAN
  BY DEF RequiredMissing, Inputs, Policies
<1>2. MissingStatus(in) \in {"fail", "escalate"}
  BY DEF MissingStatus
<1>3. CASE RequiredMissing(in)
  BY <1>2, <1>3 DEF FreshnessCheck
<1>4. CASE ~RequiredMissing(in)
  BY <1>4 DEF FreshnessCheck
<1>5. QED
  BY <1>1, <1>3, <1>4

\* evaluate_bind_admissibility answers ELIGIBLE_TO_COMMIT exactly on eligible
\* evidence.
LEMMA AdmissibilityEligible ==
  ASSUME NEW in \in Inputs
  PROVE  /\ Admissibility(in) \in {"block", "escalate", "eligible_to_commit"}
         /\ Admissibility(in) = "eligible_to_commit" <=> Eligible(in)
<1>1. /\ in.authority \in Signals /\ in.constraints \in Signals
      /\ in.risk \in Signals
  BY DEF Inputs
<1>2. Checks(in) \subseteq {"pass", "fail", "escalate"}
  BY <1>1, SignalCheckPasses, DriftCheckPasses, FreshnessCheckPasses DEF Checks
<1>3. Checks(in) = {"pass"} <=> Eligible(in)
  BY <1>1, SignalCheckPasses, DriftCheckPasses, FreshnessCheckPasses
  DEF Checks, Eligible
<1>4. Checks(in) # {}
  BY DEF Checks
<1>5. Checks(in) = {"pass"} <=> "fail" \notin Checks(in) /\ "escalate" \notin Checks(in)
  BY <1>2, <1>4
<1>6. /\ Admissibility(in) \in {"block", "escalate", "eligible_to_commit"}
      /\ Admissibility(in) = "eligible_to_commit" <=>
           "fail" \notin Checks(in) /\ "escalate" \notin Checks(in)
  <2>1. CASE "fail" \in Checks(in)
    BY <2>1 DEF Admissibility
  <2>2. CASE "fail" \notin Checks(in) /\ "escalate" \in Checks(in)
    BY <2>2 DEF Admissibility
  <2>3. CASE "fail" \notin Checks(in) /\ "escalate" \notin Checks(in)
    BY <2>3 DEF Admissibility
  <2>4. QED
    BY <2>1, <2>2, <2>3
<1>7. QED
  BY <1>3, <1>5, <1>6

\* Only a severity below 2 is no obstacle (resolve_decision_precedence).
LEMMA BindDecisionEligible ==
  ASSUME NEW in \in Inputs
  PROVE  /\ BindDecision(in) \in {"block", "escalate", "eligible_to_commit"}
         /\ BindDecision(in) = "eligible_to_commit" <=> in.severity =< 1
         /\ BindDecision(in) = "block" <=> in.severity = 3
<1>1. in.severity \in 0 .. 3
  BY DEF Inputs, Severities
<1>2. in.severity \in {0, 1, 2, 3}
  BY <1>1
<1>3. QED
  BY <1>2 DEF BindDecision

\* The gate opens exactly for the evidence that Admits describes.
LEMMA GateOpens ==
  ASSUME NEW in \in Inputs
  PROVE  Gate(in) = "apply" <=> Admits(in)
<1>1. FreshnessRaises(in) <=> ~RequiredMissing(in) /\ in.approval = "malformed"
  BY DEF FreshnessRaises
<1>2. BoundaryGate(in) = "apply" <=> in.boundary \in {"none", "commit"}
  BY DEF BoundaryGate, Inputs, Boundaries
<1>3. Admits(in) <=>
        /\ Eligible(in) /\ ~FreshnessRaises(in)
        /\ in.severity =< 1 /\ in.boundary \in {"none", "commit"}
  <2>1. /\ in.ttl \in {"valid", "missing", "expired"}
        /\ in.approval \in {"valid", "missing", "expired", "malformed"}
        /\ in.policy.ttl_required \in BOOLEAN
        /\ in.policy.approval_freshness_required \in BOOLEAN
    BY DEF Inputs, Expiries, Approvals, Policies
  <2>2. QED
    BY <1>1, <2>1 DEF Admits, Eligible, RequiredMissing
<1>4. CASE FreshnessRaises(in)
  BY <1>3, <1>4 DEF Gate
<1>5. CASE ~FreshnessRaises(in) /\ ~Eligible(in)
  BY <1>3, <1>5, AdmissibilityEligible DEF Gate
<1>6. CASE ~FreshnessRaises(in) /\ Eligible(in) /\ ~(in.severity =< 1)
  BY <1>3, <1>6, AdmissibilityEligible, BindDecisionEligible DEF Gate
<1>7. CASE ~FreshnessRaises(in) /\ Eligible(in) /\ in.severity =< 1
  BY <1>2, <1>3, <1>7, AdmissibilityEligible, BindDecisionEligible DEF Gate
<1>8. QED
  BY <1>4, <1>5, <1>6, <1>7

\* The evidence for which some check of the evaluator fails.
Failing(in) ==
  \/ "false" \in {in.authority, in.constraints, in.risk}
  \/ in.policy.drift_required /\ in.drift = "differs"
  \/ /\ in.policy.missing_signal = "block"
     /\ \/ "missing" \in {in.authority, in.constraints, in.risk}
        \/ in.policy.drift_required /\ in.drift = "missing"
        \/ RequiredMissing(in)

\* A check fails exactly on failing evidence.
LEMMA FailingChecks ==
  ASSUME NEW in \in Inputs
  PROVE  "fail" \in Checks(in) <=> Failing(in)
<1>1. \A s \in Signals :
        SignalCheck(in, s) = "fail" <=>
          s = "false" \/ (s = "missing" /\ in.policy.missing_signal = "block")
  BY DEF SignalCheck, MissingStatus, Signals, Inputs, Policies
<1>2. DriftCheck(in) = "fail" <=>
        /\ in.policy.drift_required
        /\ \/ in.drift = "differs"
           \/ in.drift = "missing" /\ in.policy.missing_signal = "block"
  BY DEF DriftCheck, MissingStatus, Drifts, Inputs, Policies
<1>3. FreshnessCheck(in) = "fail" <=>
        RequiredMissing(in) /\ in.policy.missing_signal = "block"
  <2>1. in.policy.missing_signal \in {"escalate", "block"}
    BY DEF Inputs, Policies
  <2>2. CASE RequiredMissing(in)
    BY <2>1, <2>2 DEF FreshnessCheck, MissingStatus
  <2>3. CASE ~RequiredMissing(in)
    BY <2>3 DEF FreshnessCheck
  <2>4. QED
    BY <2>2, <2>3
<1>4. /\ in.authority \in Signals /\ in.constraints \in Signals
      /\ in.risk \in Signals
  BY DEF Inputs
<1>5. QED
  BY <1>1, <1>2, <1>3, <1>4 DEF Checks, Failing

\* The evidence that is blocked before the commit boundary is looked at.
Barred(in) == Failing(in) \/ in.severity = 3

\* Barred evidence is BLOCKED, or raises on a malformed approval.
LEMMA BarredIsBlocked ==
  ASSUME NEW in \in Inputs, Barred(in)
  PROVE  Gate(in) \in {"BLOCKED", "raise"}
<1>1. CASE FreshnessRaises(in)
  BY <1>1 DEF Gate
<1>2. CASE ~FreshnessRaises(in) /\ Failing(in)
  <2>1. Admissibility(in) = "block"
    BY <1>2, FailingChecks DEF Admissibility
  <2>2. QED
    BY <1>2, <2>1 DEF Gate
<1>3. CASE ~FreshnessRaises(in) /\ in.severity = 3
  <2>1. BindDecision(in) = "block"
    BY <1>3 DEF BindDecision
  <2>2. CASE Admissibility(in) = "eligible_to_commit"
    BY <1>3, <2>1, <2>2 DEF Gate
  <2>3. CASE Admissibility(in) # "eligible_to_commit"
    BY <1>3, <2>1, <2>3 DEF Gate
  <2>4. QED
    BY <2>2, <2>3
<1>4. QED
  BY <1>1, <1>2, <1>3 DEF Barred

\* A BLOCKED that the commit boundary did not give comes from barred evidence.
LEMMA BlockedIsBarred ==
  ASSUME NEW in \in Inputs, Gate(in) = "BLOCKED",
         in.boundary \in {"none", "commit"}
  PROVE  Barred(in)
<1>1. SUFFICES ASSUME ~Failing(in), in.severity # 3
               PROVE  FALSE
  BY DEF Barred
<1>2. ~FreshnessRaises(in)
  BY DEF Gate
<1>3. Admissibility(in) # "block"
  BY <1>1, FailingChecks DEF Admissibility
<1>4. BindDecision(in) # "block"
  BY <1>1, BindDecisionEligible
<1>5. BoundaryGate(in) = "apply"
  BY DEF BoundaryGate
<1>6. CASE Admissibility(in) = "escalate"
  BY <1>2, <1>4, <1>6 DEF Gate
<1>7. CASE Admissibility(in) = "eligible_to_commit" /\ BindDecision(in) = "escalate"
  BY <1>2, <1>7 DEF Gate
<1>8. CASE /\ Admissibility(in) = "eligible_to_commit"
           /\ BindDecision(in) = "eligible_to_commit"
  BY <1>2, <1>5, <1>8 DEF Gate
<1>9. QED
  BY <1>3, <1>4, <1>6, <1>7, <1>8, AdmissibilityEligible, BindDecisionEligible

InputOK == input \in Inputs

\* Every step of the specification stays among the inputs of the gate.
LEMMA InputsInvariant == GateSpec => []InputOK
<1>1. GateInit => InputOK
  BY DEF GateInit, InputOK
<1>2. InputOK /\ [GateNext]_input => InputOK'
  <2>1. SUFFICES ASSUME input \in Inputs, [GateNext]_input
                 PROVE  input' \in Inputs
    BY DEF InputOK
  <2>2. CASE LoseSignal
    BY <2>1, <2>2 DEF LoseSignal, Inputs
  <2>3. CASE DriftAway
    BY <2>1, <2>3 DEF DriftAway, Inputs
  <2>4. CASE Expire
    BY <2>1, <2>4 DEF Expire, Inputs, Expiries, Approvals
  <2>5. CASE Restrict
    BY <2>1, <2>5 DEF Restrict, Inputs, Boundaries
  <2>6. CASE Tighten
    BY <2>1, <2>6 DEF Tighten, Inputs
  <2>7. CASE UNCHANGED input
    BY <2>1, <2>7
  <2>8. QED
    BY <2>1, <2>2, <2>3, <2>4, <2>5, <2>6, <2>7 DEF GateNext
<1>3. QED
  BY <1>1, <1>2, PTL DEF GateSpec

\* The gate in front of adapter.apply opens exactly when every required signal
\* is present and good and nothing stricter stands against it.
THEOREM GateFailsClosed == GateSpec => []FailClosed
<1>1. InputOK => FailClosed
  BY GateOpens DEF FailClosed, InputOK
<1>2. QED
  BY <1>1, InputsInvariant, PTL

\* Evidence that gets worse is not admitted when it was not before.
LEMMA AdmitsBackwards ==
  ASSUME InputOK, InputOK', GateNext, Admits(input')
  PROVE  Admits(input)
<1>0. input \in Inputs /\ input' \in Inputs
  BY DEF InputOK
<1>1. CASE LoseSignal
  <2>1. PICK f \in {"authority", "constraints", "risk"}, s \in Signals :
          Worse(input[f], s) /\ input' = [input EXCEPT ![f] = s]
    BY <1>1 DEF LoseSignal
  <2>2. s # "true"
    BY <2>1 DEF Worse
  <2>3. input'[f] = s
    BY <1>0, <2>1 DEF Inputs
  <2>4. QED
    BY <2>2, <2>3 DEF Admits
<1>2. CASE DriftAway
  <2>1. PICK d \in Drifts :
          WorseDrift(input.drift, d) /\ input' = [input EXCEPT !.drift = d]
    BY <1>2 DEF DriftAway
  <2>2. d # "same"
    BY <2>1 DEF WorseDrift
  <2>3. QED
    BY <1>0, <2>1, <2>2 DEF Admits, Inputs
<1>3. CASE Expire
  BY <1>0, <1>3 DEF Expire, Admits, Inputs
<1>4. CASE Restrict
  <2>1. CASE \E s \in Severities :
               s > input.severity /\ input' = [input EXCEPT !.severity = s]
    BY <1>0, <2>1 DEF Admits, Inputs, Severities
  <2>2. CASE \E b \in {"escalate", "refuse", "block", "error"} :
               /\ input.boundary \in {"none", "commit"}
               /\ input' = [input EXCEPT !.boundary = b]
    BY <1>0, <2>2 DEF Admits, Inputs
  <2>3. QED
    BY <1>4, <2>1, <2>2 DEF Restrict
<1>5. CASE Tighten
  BY <1>0, <1>5 DEF Tighten, Admits, Inputs, Policies
<1>6. QED
  BY <1>1, <1>2, <1>3, <1>4, <1>5 DEF GateNext

\* Evidence that gets worse stays barred.
LEMMA BarredForwards ==
  ASSUME InputOK, InputOK', GateNext, Barred(input)
  PROVE  Barred(input')
<1>0. input \in Inputs /\ input' \in Inputs
  BY DEF InputOK
<1>1. CASE LoseSignal
  <2>1. PICK f \in {"authority", "constraints", "risk"}, s \in Signals :
          Worse(input[f], s) /\ input' = [input EXCEPT ![f] = s]
    BY <1>1 DEF LoseSignal
  <2>2. /\ input[f] = "true" => s \in {"missing", "false"}
        /\ input[f] = "missing" => s = "false"
        /\ input[f] # "false"
    BY <2>1 DEF Worse
  <2>3. CASE f = "authority"
    BY <1>0, <2>1, <2>2, <2>3 DEF Barred, Failing, RequiredMissing, Inputs
  <2>4. CASE f = "constraints"
    BY <1>0, <2>1, <2>2, <2>4 DEF Barred, Failing, RequiredMissing, Inputs
  <2>5. CASE f = "risk"
    BY <1>0, <2>1, <2>2, <2>5 DEF Barred, Failing, RequiredMissing, Inputs
  <2>6. QED
    BY <2>1, <2>3, <2>4, <2>5
<1>2. CASE DriftAway
  BY <1>0, <1>2 DEF DriftAway, WorseDrift, Barred, Failing, RequiredMissing, Inputs
<1>3. CASE Expire
  BY <1>0, <1>3 DEF Expire, Barred, Failing, RequiredMissing, Inputs
<1>4. CASE Restrict
  <2>1. CASE \E s \in Severities :
               s > input.severity /\ input' = [input EXCEPT !.severity = s]
    BY <1>0, <2>1 DEF Barred, Failing, RequiredMissing, Inputs, Severities
  <2>2. CASE \E b \in {"escalate", "refuse", "block", "error"} :
               /\ input.boundary \in {"none", "commit"}
               /\ input' = [input EXCEPT !.boundary = b]
    BY <1>0, <2>2 DEF Barred, Failing, RequiredMissing, Inputs
  <2>3. QED
    BY <1>4, <2>1, <2>2 DEF Restrict
<1>5. CASE Tighten
  BY <1>0, <1>5 DEF Tighten, Barred, Failing, RequiredMissing, Inputs, Policies
<1>6. QED
  BY <1>1, <1>2, <1>3, <1>4, <1>5 DEF GateNext

\* Worse evidence or a stricter policy never opens the gate, and never softens a
\* BLOCKED that does not come from the commit boundary.
THEOREM GateNeverLoosens == GateSpec => NeverLoosens
<1> DEFINE Loosens == /\ Gate(input)' = "apply" => Gate(input) = "apply"
                      /\ Gate(input) = "BLOCKED" /\ input.boundary \in {"none", "commit"}
                           => Gate(input)' \in {"BLOCKED", "raise"}
<1>1. InputOK /\ InputOK' /\ [GateNext]_input => [Loosens]_input
  <2>1. SUFFICES ASSUME InputOK, InputOK', GateNext
                 PROVE  Loosens
    OBVIOUS
  <2>2. Gate(input)' = "apply" => Gate(input) = "apply"
    BY <2>1, GateOpens, AdmitsBackwards DEF InputOK
  <2>3. Gate(input) = "BLOCKED" /\ input.boundary \in {"none", "commit"}
          => Gate(input)' \in {"BLOCKED", "raise"}
    BY <2>1, BlockedIsBarred, BarredForwards, BarredIsBlocked DEF InputOK
  <2>4. QED
    BY <2>2, <2>3
<1>2. QED
  BY <1>1, InputsInvariant, PTL DEF GateSpec, NeverLoosens

-----------------------------------------------------------------------------
(* Adjudication *)

Logging == {"log_intent", "log_prev", "log_receipt"}
Before  == {"dedupe", "snapshot", "apply"}
Early   == {"BLOCKED", "SNAPSHOT_FAILED", "PRECONDITION_FAILED"}

\* A busy worker runs a call of its own that has begun.
OwnCall ==
  /\ \A w \in Workers : pc[w] # "idle" => call[w] \in 1 .. Len(calls)
  /\ \A v, w \in Workers :
       v # w /\ pc[v] # "idle" /\ pc[w] # "idle" => call[v] # call[w]

\* What a worker is about to log is a receipt of its call.
Prepared ==
  \A w \in Workers :
    pc[w] \in Logging => receipt[w] \in Receipt /\ receipt[w].call = call[w]

\* Entries belong to calls that have begun, receipts to calls that have ended.
Logged ==
  /\ \A p \in 1 .. Len(ledger) : ledger[p].call \in 1 .. Len(calls)
  /\ \A r \in Stored : r.call \in 1 .. Len(calls)
  /\ \A r \in Stored, w \in Workers : pc[w] # "idle" => r.call # call[w]

BaseInv == TypeOK /\ OwnCall /\ Prepared /\ Logged

\* Requests on their way belong to calls that have begun.
Begun == \A n \in inflight : n \in 1 .. Len(calls)

-----------------------------------------------------------------------------
(* Types of the helpers *)

\* _resolve_retry_safety and _resolve_rollback_status classify every outcome.
LEMMA Classified ==
  ASSUME NEW o \in Outcomes, NEW f \in BOOLEAN
  PROVE  RetrySafety(o) \in RetrySafeties /\ RollbackStatus(o, f) \in Rollbacks
  BY DEF RetrySafety, RollbackStatus, Outcomes, RetrySafeties, Rollbacks

\* The gate answers with an outcome, lets apply run, or raises.
LEMMA GateType ==
  ASSUME NEW in \in Inputs
  PROVE  Gate(in) \in {"apply", "raise", "BLOCKED", "ESCALATED"}
<1>1. FreshnessRaises(in) \in BOOLEAN
  BY DEF FreshnessRaises, RequiredMissing
<1>2. BoundaryGate(in) \in {"apply", "raise", "BLOCKED", "ESCALATED"}
  BY DEF BoundaryGate, Inputs, Boundaries
<1>3. CASE FreshnessRaises(in)
  BY <1>3 DEF Gate
<1>4. CASE ~FreshnessRaises(in) /\ Admissibility(in) # "eligible_to_commit"
  BY <1>4 DEF Gate
<1>5. CASE /\ ~FreshnessRaises(in)
           /\ Admissibility(in) = "eligible_to_commit"
           /\ BindDecision(in) # "eligible_to_commit"
  BY <1>5 DEF Gate
<1>6. CASE /\ ~FreshnessRaises(in)
           /\ Admissibility(in) = "eligible_to_commit"
           /\ BindDecision(in) = "eligible_to_commit"
  BY <1>2, <1>6 DEF Gate
<1>7. QED
  BY <1>1, <1>3, <1>4, <1>5, <1>6

\* The gate that opens with drift checking required has seen equal
\* fingerprints.
LEMMA GateSawSame ==
  ASSUME NEW in \in Inputs, Gate(in) = "apply", in.policy.drift_required
  PROVE  in.drift = "same"
<1>1. SUFFICES ASSUME in.drift # "same"
               PROVE  FALSE
  OBVIOUS
<1>2. DriftCheck(in) \in {"fail", "escalate"}
  BY <1>1 DEF DriftCheck, MissingStatus, Inputs, Drifts
<1>3. "fail" \in Checks(in) \/ "escalate" \in Checks(in)
  BY <1>2 DEF Checks
<1>4. Admissibility(in) # "eligible_to_commit"
  <2>1. CASE "fail" \in Checks(in)
    BY <2>1 DEF Admissibility
  <2>2. CASE "fail" \notin Checks(in) /\ "escalate" \in Checks(in)
    BY <2>2 DEF Admissibility
  <2>3. QED
    BY <1>3, <2>1, <2>2
<1>5. CASE FreshnessRaises(in)
  BY <1>5 DEF Gate
<1>6. CASE ~FreshnessRaises(in)
  BY <1>4, <1>6 DEF Gate
<1>7. QED
  BY <1>5, <1>6

\* A prepared receipt is well typed and belongs to the worker's call.
LEMMA FinalizeType ==
  ASSUME TypeOK, NEW w \in Workers, call[w] \in Calls,
         NEW o \in Outcomes, NEW f \in BOOLEAN, Finalize(w, o, f)
  PROVE  /\ receipt' \in [Workers -> Receipt \union {NoReceipt}]
         /\ receipt'[w] \in Receipt
         /\ receipt'[w].call = call[w]
         /\ receipt'[w].outcome = o
         /\ \A v \in Workers \ {w} : receipt'[v] = receipt[v]
         /\ pc' = [pc EXCEPT ![w] = "log_intent"]
<1> DEFINE r == [call |-> call[w], outcome |-> o,
                 rollback |-> RollbackStatus(o, f),
                 retry |-> RetrySafety(o), prev |-> 0]
<1>1. r \in Receipt
  <2>1. RetrySafety(o) \in RetrySafeties /\ RollbackStatus(o, f) \in Rollbacks
    BY Classified
  <2>2. 0 \in 0 .. MaxCalls
    BY ConstantsAssumption
  <2>3. QED
    BY <2>1, <2>2 DEF Receipt
<1>2. receipt' = [receipt EXCEPT ![w] = r]
  BY DEF Finalize
<1>3. r.call = call[w] /\ r.outcome = o
  OBVIOUS
<1> HIDE DEF r
<1>4. receipt \in [Workers -> Receipt \union {NoReceipt}]
  BY DEF TypeOK
<1>5. pc' = [pc EXCEPT ![w] = "log_intent"]
  BY DEF Finalize, Goto
<1>6. QED
  BY <1>1, <1>2, <1>3, <1>4, <1>5

\* Appending keeps the ledger well typed and its active part inside.
LEMMA AppendType ==
  ASSUME TypeOK, NEW e \in Entries, AppendEntry(e)
  PROVE  /\ ledger' \in Seq(Entries)
         /\ base' \in Nat
         /\ base' =< Len(ledger')
         /\ Len(ledger') = Len(ledger) + 1
         /\ \A p \in 1 .. Len(ledger) : ledger'[p] = ledger[p]
         /\ ledger'[Len(ledger) + 1] = e
<1>1. ledger \in Seq(Entries) /\ base \in Nat /\ base =< Len(ledger)
  BY DEF TypeOK
<1>2. ledger' = Append(ledger, e)
  BY DEF AppendEntry
<1>3. base' \in {base, Len(ledger)}
  BY DEF AppendEntry
<1>4. QED
  BY <1>1, <1>2, <1>3

\* What appending an entry stores.
LEMMA StoredAppend ==
  ASSUME TypeOK, NEW e \in Entries, AppendEntry(e)
  PROVE  \A r \in Stored' : r \in Stored \/ (e.kind = "receipt" /\ r = e.receipt)
<1>1. SUFFICES ASSUME NEW r \in Stored'
               PROVE  r \in Stored \/ (e.kind = "receipt" /\ r = e.receipt)
  OBVIOUS
<1>2. /\ Len(ledger) \in Nat
      /\ Len(ledger') = Len(ledger) + 1
      /\ \A p \in 1 .. Len(ledger) : ledger'[p] = ledger[p]
      /\ ledger'[Len(ledger) + 1] = e
  BY AppendType DEF TypeOK
<1>3. PICK p \in 1 .. Len(ledger') :
        ledger'[p].kind = "receipt" /\ r = ledger'[p].receipt
  BY DEF Stored
<1>4. CASE p = Len(ledger) + 1
  BY <1>2, <1>3, <1>4
<1>5. CASE p # Len(ledger) + 1
  <2>1. p \in 1 .. Len(ledger)
    BY <1>2, <1>3, <1>5
  <2>2. QED
    BY <1>2, <1>3, <2>1 DEF Stored
<1>6. QED
  BY <1>4, <1>5

\* Every stored receipt is a receipt.
LEMMA StoredType ==
  ASSUME TypeOK
  PROVE  /\ Stored \subseteq Receipt
         /\ \A p \in 1 .. Len(ledger) :
              ledger[p].kind = "receipt" => ledger[p].receipt \in Receipt
<1>1. \A p \in 1 .. Len(ledger) : ledger[p] \in Entries
  BY DEF TypeOK
<1>2. \A e \in Entries : e.kind = "receipt" => e.receipt \in Receipt
  BY DEF Entries
<1>3. QED
  BY <1>1, <1>2 DEF Stored

\* The adapters turn the target into a set of intents.
LEMMA TargetType ==
  ASSUME TypeOK, NEW w \in Workers, call[w] \in 1 .. Len(calls)
  PROVE  /\ call[w] \in Calls
         /\ Intent(w) \in Intents
         /\ Restored(w) \subseteq Intents
<1>1. call[w] \in Calls
  BY ConstantsAssumption DEF TypeOK, Calls
<1>2. Intent(w) \in Intents
  BY DEF TypeOK, Intent
<1>3. snap[call[w]] \subseteq Intents /\ target \subseteq Intents
  BY <1>1 DEF TypeOK
<1>4. Restored(w) \subseteq Intents
  BY <1>3, ConstantsAssumption DEF Restored, Adapters
<1>5. QED
  BY <1>1, <1>2, <1>4

\* The fingerprints decide the drift signal of the gate's input.
LEMMA GateInputType ==
  ASSUME NEW w \in Workers, NEW e \in Evidence
  PROVE  /\ GateInput(w, e) \in Inputs
         /\ GateInput(w, e).policy = e.policy
         /\ GateInput(w, e).drift = "same" => target = expected[call[w]]
<1>1. e \in Inputs
  BY ConstantsAssumption
<1>2. QED
  BY <1>1 DEF GateInput, Inputs, Drifts

-----------------------------------------------------------------------------
(* Workers and their calls *)

\* A worker that goes on, or leaves, without touching receipts or ledger.
LEMMA MoveKeeps ==
  ASSUME BaseInv, NEW w \in Workers, pc[w] # "idle",
         NEW s \in Steps \ Logging, pc' = [pc EXCEPT ![w] = s],
         UNCHANGED <<calls, call, receipt, ledger>>
  PROVE  OwnCall' /\ Prepared' /\ Logged'
<1>1. pc \in [Workers -> Steps]
  BY DEF BaseInv, TypeOK
<1>2. Stored' = Stored
  BY DEF Stored
<1>3. \A v \in Workers : pc'[v] # "idle" => pc[v] # "idle"
  BY <1>1
<1>4. \A v \in Workers : pc'[v] \in Logging => pc[v] \in Logging
  BY <1>1
<1>5. OwnCall'
  BY <1>3 DEF BaseInv, OwnCall
<1>6. Prepared'
  BY <1>4 DEF BaseInv, Prepared
<1>7. Logged'
  BY <1>2, <1>3 DEF BaseInv, Logged
<1>8. QED
  BY <1>5, <1>6, <1>7

\* A worker that has prepared its receipt.
LEMMA FinalizeKeeps ==
  ASSUME BaseInv, NEW w \in Workers, pc[w] # "idle",
         NEW o \in Outcomes, NEW f \in BOOLEAN, Finalize(w, o, f),
         UNCHANGED <<calls, call, ledger>>
  PROVE  /\ OwnCall' /\ Prepared' /\ Logged'
         /\ receipt' \in [Workers -> Receipt \union {NoReceipt}]
         /\ pc' \in [Workers -> Steps]
<1>1. pc \in [Workers -> Steps] /\ TypeOK
  BY DEF BaseInv, TypeOK
<1>2. call[w] \in Calls
  BY <1>1, TargetType DEF BaseInv, OwnCall
<1>3. /\ receipt' \in [Workers -> Receipt \union {NoReceipt}]
      /\ receipt'[w] \in Receipt /\ receipt'[w].call = call[w]
      /\ \A v \in Workers \ {w} : receipt'[v] = receipt[v]
      /\ pc' = [pc EXCEPT ![w] = "log_intent"]
  BY <1>1, <1>2, FinalizeType
<1>4. Stored' = Stored
  BY DEF Stored
<1>5. \A v \in Workers : pc'[v] # "idle" => pc[v] # "idle"
  BY <1>1, <1>3
<1>6. OwnCall'
  BY <1>5 DEF BaseInv, OwnCall
<1>7. Prepared'
  <2>1. SUFFICES ASSUME NEW v \in Workers, pc'[v] \in Logging
                 PROVE  receipt'[v] \in Receipt /\ receipt'[v].call = call'[v]
    BY DEF Prepared
  <2>2. CASE v = w
    BY <1>3, <2>2
  <2>3. CASE v # w
    BY <1>1, <1>3, <2>1, <2>3 DEF BaseInv, Prepared
  <2>4. QED
    BY <2>2, <2>3
<1>8. Logged'
  BY <1>4, <1>5 DEF BaseInv, Logged
<1>9. QED
  BY <1>1, <1>3, <1>6, <1>7, <1>8 DEF Steps

\* What appending entry e of worker w does to the ledger and to the receipts.
AppendFacts(w, e) ==
  /\ ledger' \in Seq(Entries) /\ base' \in Nat /\ base' =< Len(ledger')
  /\ \A p \in 1 .. Len(ledger') : ledger'[p].call \in 1 .. Len(calls)
  /\ \A r \in Stored' : r \in Stored \/ (e.kind = "receipt" /\ r = receipt[w])
  /\ e.kind = "receipt" => receipt[w].call = call[w]

\* append_execution_intent_trustlog stores no receipt.
LEMMA IntentAppended ==
  ASSUME TypeOK, OwnCall, Logged, NEW w \in Workers, pc[w] = "log_intent",
         AppendEntry(IntentEntry(w))
  PROVE  AppendFacts(w, IntentEntry(w))
<1>1. call[w] \in 1 .. Len(calls) /\ call[w] \in Calls
  BY TargetType DEF OwnCall
<1>2. IntentEntry(w) \in Entries /\ IntentEntry(w).call = call[w]
      /\ IntentEntry(w).kind = "intent"
  BY <1>1 DEF IntentEntry, Entries
<1>3. /\ ledger' \in Seq(Entries) /\ base' \in Nat /\ base' =< Len(ledger')
      /\ Len(ledger) \in Nat /\ Len(ledger') = Len(ledger) + 1
      /\ \A p \in 1 .. Len(ledger) : ledger'[p] = ledger[p]
      /\ ledger'[Len(ledger) + 1] = IntentEntry(w)
  BY <1>2, AppendType DEF TypeOK
<1>4. \A r \in Stored' : r \in Stored
  BY <1>2, StoredAppend
<1>5. \A p \in 1 .. Len(ledger') : ledger'[p].call \in 1 .. Len(calls)
  BY <1>1, <1>2, <1>3 DEF Logged
<1>6. QED
  BY <1>2, <1>3, <1>4, <1>5 DEF AppendFacts

\* append_bind_receipt_trustlog stores the prepared receipt.
LEMMA ReceiptAppended ==
  ASSUME TypeOK, OwnCall, Prepared, Logged, NEW w \in Workers,
         pc[w] = "log_receipt", AppendEntry(ReceiptEntry(w))
  PROVE  AppendFacts(w, ReceiptEntry(w)) /\ receipt[w] \in Receipt
<1>1. /\ call[w] \in 1 .. Len(calls) /\ call[w] \in Calls
      /\ receipt[w] \in Receipt /\ receipt[w].call = call[w]
  BY TargetType DEF OwnCall, Prepared, Logging
<1>2. ReceiptEntry(w) \in Entries /\ ReceiptEntry(w).call = call[w]
      /\ ReceiptEntry(w).receipt = receipt[w]
  BY <1>1 DEF ReceiptEntry, Entries
<1>3. /\ ledger' \in Seq(Entries) /\ base' \in Nat /\ base' =< Len(ledger')
      /\ Len(ledger) \in Nat /\ Len(ledger') = Len(ledger) + 1
      /\ \A p \in 1 .. Len(ledger) : ledger'[p] = ledger[p]
      /\ ledger'[Len(ledger) + 1] = ReceiptEntry(w)
  BY <1>2, AppendType DEF TypeOK
<1>4. \A r \in Stored' :
        r \in Stored \/ (ReceiptEntry(w).kind = "receipt" /\ r = receipt[w])
  BY <1>2, StoredAppend
<1>5. \A p \in 1 .. Len(ledger') : ledger'[p].call \in 1 .. Len(calls)
  BY <1>1, <1>2, <1>3 DEF Logged
<1>6. QED
  BY <1>1, <1>3, <1>4, <1>5 DEF AppendFacts

\* A worker that leaves after an append.
LEMMA EndKeeps ==
  ASSUME TypeOK, OwnCall, Prepared, Logged, NEW w \in Workers, pc[w] # "idle",
         pc' = [pc EXCEPT ![w] = "idle"], NEW e, AppendFacts(w, e),
         UNCHANGED <<calls, call, receipt>>
  PROVE  OwnCall' /\ Prepared' /\ Logged'
<1>1. pc \in [Workers -> Steps]
  BY DEF TypeOK
<1>2. pc'[w] = "idle" /\ \A v \in Workers \ {w} : pc'[v] = pc[v]
  BY <1>1
<1>3. OwnCall'
  BY <1>2 DEF OwnCall
<1>4. Prepared'
  BY <1>2 DEF Prepared, Logging
<1>5. call[w] \in 1 .. Len(calls)
  BY DEF OwnCall
<1>6. \A r \in Stored' : r \in Stored \/ r.call = call[w]
  BY DEF AppendFacts
<1>7. \A r \in Stored' : r.call \in 1 .. Len(calls)
  BY <1>5, <1>6 DEF Logged
<1>8. ASSUME NEW r \in Stored', NEW v \in Workers, pc'[v] # "idle"
      PROVE  r.call # call[v]
  <2>1. v # w /\ pc[v] # "idle"
    BY <1>2, <1>8
  <2>2. CASE r \in Stored
    BY <2>1, <2>2 DEF Logged
  <2>3. CASE r.call = call[w]
    BY <2>1, <2>3 DEF OwnCall
  <2>4. QED
    BY <1>6, <2>2, <2>3
<1>9. Logged'
  BY <1>7, <1>8 DEF Logged, AppendFacts
<1>10. QED
  BY <1>3, <1>4, <1>9

\* get_previous_bind_hash changes nothing of the receipt but prev_bind_hash.
LEMMA PrevKept ==
  ASSUME TypeOK, Prepared, NEW w \in Workers, LogPrev(w)
  PROVE  /\ receipt' \in [Workers -> Receipt \union {NoReceipt}]
         /\ receipt'[w] \in Receipt /\ receipt'[w].call = call[w]
         /\ receipt'[w].outcome = receipt[w].outcome
         /\ \A v \in Workers \ {w} : receipt'[v] = receipt[v]
<1>1. /\ receipt[w] \in Receipt /\ receipt[w].call = call[w]
      /\ receipt \in [Workers -> Receipt \union {NoReceipt}]
  BY DEF LogPrev, Prepared, Logging, TypeOK, history
<1>2. CASE UNCHANGED receipt
  BY <1>1, <1>2
<1>3. CASE \E n \in Previous(Intent(w)) :
             receipt' = [receipt EXCEPT ![w] = [@ EXCEPT !.prev = n]]
  <2>1. PICK n \in Previous(Intent(w)) :
          receipt' = [receipt EXCEPT ![w] = [receipt[w] EXCEPT !.prev = n]]
    BY <1>3
  <2>2. PICK p \in Latest(ActiveReceipts(Intent(w))) : n = ledger[p].call
    BY <2>1 DEF Previous
  <2>3. p \in 1 .. Len(ledger)
    BY <2>2 DEF Latest, ActiveReceipts, TypeOK
  <2>4. ledger[p] \in Entries
    BY <2>3 DEF TypeOK
  <2>5. n \in 0 .. MaxCalls
    BY <2>2, <2>4, ConstantsAssumption DEF Entries, Calls
  <2> DEFINE r == [receipt[w] EXCEPT !.prev = n]
  <2>6. r \in Receipt /\ r.call = receipt[w].call /\ r.outcome = receipt[w].outcome
    BY <1>1, <2>5 DEF Receipt
  <2>7. receipt' = [receipt EXCEPT ![w] = r]
    BY <2>1
  <2> HIDE DEF r
  <2>8. QED
    BY <1>1, <2>6, <2>7
<1>4. QED
  BY <1>2, <1>3 DEF LogPrev, history

\* A late request keeps the state well typed.
LEMMA ArriveKeeps ==
  ASSUME TypeOK, NEW n \in Calls, n \in inflight, inflight' = inflight \ {n},
         Effect(n), calls[n] \in Intents,
         UNCHANGED <<ledger, base, calls, pc, call, expected, snap, receipt,
                     result, begun, unread, disturbed, faults>>
  PROVE  TypeOK'
  BY DEF TypeOK, Effect

\* A revert records pairs of calls.
LEMMA UndoType ==
  ASSUME TypeOK, NEW w \in Workers, call[w] \in Calls,
         Undo(w) \/ UNCHANGED disturbed
  PROVE  disturbed' \subseteq Calls \X Calls
<1>1. disturbed \subseteq Calls \X Calls
  BY DEF TypeOK
<1>2. \A m \in Overturned(w) : m \in Calls
  <2>1. Len(calls) \in Nat /\ Len(calls) =< MaxCalls /\ MaxCalls \in Nat
    BY ConstantsAssumption DEF TypeOK
  <2>2. QED
    BY <2>1 DEF Overturned, Calls
<1>3. {<<call[w], m>> : m \in Overturned(w)} \subseteq Calls \X Calls
  BY <1>2
<1>4. QED
  BY <1>1, <1>3 DEF Undo

\* Every step of execute_bind_adjudication keeps the state well typed, gives
\* each busy worker its own call and stores receipts of ended calls only.
LEMMA BaseStep == BaseInv /\ Begun /\ [Next]_vars => BaseInv'
<1> SUFFICES ASSUME BaseInv, Begun, [Next]_vars
             PROVE  BaseInv'
  OBVIOUS
<1> USE ConstantsAssumption
<1>0. /\ TypeOK /\ OwnCall /\ Prepared /\ Logged
      /\ pc \in [Workers -> Steps]
  BY DEF BaseInv, TypeOK
<1>1. ASSUME NEW w \in Workers, NEW i \in Intents, Submit(w, i)
      PROVE  BaseInv'
  <2>1. /\ pc' = [pc EXCEPT ![w] = "dedupe"]
        /\ pc[w] = "idle"
        /\ call' = [call EXCEPT ![w] = Len(calls) + 1]
        /\ calls' = Append(calls, i)
        /\ UNCHANGED <<ledger, receipt>>
    BY <1>1 DEF Submit, Goto, history
  <2>2. /\ calls \in Seq(Intents) /\ Len(calls) \in Nat
        /\ calls' \in Seq(Intents) /\ Len(calls') = Len(calls) + 1
        /\ Len(calls) + 1 \in Calls
    BY <1>0, <1>1, <2>1 DEF TypeOK, Submit, Calls, history
  <2>3. TypeOK'
    BY <1>0, <1>1, <2>1, <2>2 DEF TypeOK, Submit, Steps, Calls, history
  <2>4. Stored' = Stored
    BY <2>1 DEF Stored
  <2>5. \A v \in Workers \ {w} : pc'[v] = pc[v] /\ call'[v] = call[v]
    BY <1>0, <2>1 DEF TypeOK
  <2>6. call'[w] = Len(calls) + 1
    BY <1>0, <2>1 DEF TypeOK
  <2>7. OwnCall'
    BY <1>0, <2>2, <2>5, <2>6 DEF OwnCall
  <2>8. Prepared'
    BY <1>0, <2>1, <2>5 DEF Prepared, Logging
  <2>9. Logged'
    BY <1>0, <2>1, <2>2, <2>4, <2>5, <2>6 DEF Logged
  <2>10. QED
    BY <2>3, <2>7, <2>8, <2>9 DEF BaseInv
<1>2. ASSUME NEW w \in Workers, Replay(w)
      PROVE  BaseInv'
  <2>1. pc' = [pc EXCEPT ![w] = "idle"] /\ pc[w] # "idle"
    BY <1>2 DEF Replay, Goto, history
  <2>2. PICK p \in Latest(ActiveReceipts(Intent(w))) :
          result' = [result EXCEPT ![w] = [ledger[p].receipt EXCEPT !.retry = "SAFE"]]
    BY <1>2 DEF Replay, history
  <2>3. p \in 1 .. Len(ledger) /\ ledger[p].kind = "receipt"
    BY <1>0, <2>2 DEF Latest, ActiveReceipts, TypeOK
  <2>4. ledger[p].receipt \in Receipt
    BY <1>0, <2>3, StoredType
  <2>5. [ledger[p].receipt EXCEPT !.retry = "SAFE"] \in Receipt
    BY <2>4 DEF Receipt, RetrySafeties
  <2>6. TypeOK'
    BY <1>0, <1>2, <2>1, <2>2, <2>5 DEF TypeOK, Replay, Steps, history
  <2>7. OwnCall' /\ Prepared' /\ Logged'
    <3>1. "idle" \in Steps \ Logging
      BY DEF Steps, Logging
    <3>2. QED
      BY <1>2, <2>1, <3>1, MoveKeeps DEF Replay, history
  <2>8. QED
    BY <2>6, <2>7 DEF BaseInv
<1>3. ASSUME NEW w \in Workers, Fresh(w)
      PROVE  BaseInv'
  <2>1. pc[w] # "idle"
    BY <1>3 DEF Fresh
  <2>f. faults' \in Nat /\ unread' \subseteq Calls
    <3>1. faults \in Nat /\ unread \subseteq Calls /\ call[w] \in Calls
      BY <1>0, <2>1, TargetType DEF TypeOK, OwnCall
    <3>2. \/ faults' = faults /\ unread' = unread
          \/ faults' = faults + 1 /\ unread' = unread \union {call[w]}
      BY <1>3 DEF Fresh, Fault
    <3>3. QED
      BY <3>1, <3>2
  <2>2. CASE Finalize(w, "PRECONDITION_FAILED", FALSE)
    <3>1. "PRECONDITION_FAILED" \in Outcomes
      BY DEF Outcomes
    <3>2. /\ OwnCall' /\ Prepared' /\ Logged'
          /\ receipt' \in [Workers -> Receipt \union {NoReceipt}]
          /\ pc' \in [Workers -> Steps]
      BY <1>3, <2>1, <2>2, <3>1, FinalizeKeeps DEF Fresh, history
    <3>3. TypeOK'
      BY <1>0, <1>3, <2>f, <3>2 DEF TypeOK, Fresh
    <3>4. QED
      BY <3>2, <3>3 DEF BaseInv
  <2>3. CASE Goto(w, "snapshot") /\ UNCHANGED receipt
    <3>1. pc' = [pc EXCEPT ![w] = "snapshot"] /\ "snapshot" \in Steps \ Logging
      BY <2>3 DEF Goto, Steps, Logging
    <3>2. OwnCall' /\ Prepared' /\ Logged'
      BY <1>3, <2>1, <2>3, <3>1, MoveKeeps DEF Fresh, history
    <3>3. TypeOK'
      BY <1>0, <1>3, <2>f, <2>3, <3>1 DEF TypeOK, Fresh
    <3>4. QED
      BY <3>2, <3>3 DEF BaseInv
  <2>4. QED
    BY <1>3, <2>2, <2>3 DEF Fresh, history
<1>4. ASSUME NEW w \in Workers, SnapshotFails(w)
      PROVE  BaseInv'
  <2>1. pc[w] # "idle" /\ Finalize(w, "SNAPSHOT_FAILED", FALSE)
        /\ "SNAPSHOT_FAILED" \in Outcomes
    BY <1>4 DEF SnapshotFails, Outcomes, history
  <2>2. /\ OwnCall' /\ Prepared' /\ Logged'
        /\ receipt' \in [Workers -> Receipt \union {NoReceipt}]
        /\ pc' \in [Workers -> Steps]
    BY <1>4, <2>1, FinalizeKeeps DEF SnapshotFails, history
  <2>3. TypeOK'
    BY <1>0, <1>4, <2>2 DEF TypeOK, SnapshotFails, Fault, history
  <2>4. QED
    BY <2>2, <2>3 DEF BaseInv
<1>5. ASSUME NEW w \in Workers, Adjudicate(w)
      PROVE  BaseInv'
  <2>1. pc[w] # "idle" /\ UNCHANGED <<calls, call, ledger>>
    BY <1>5 DEF Adjudicate, history
  <2>2. call[w] \in Calls
    BY <1>0, <2>1, TargetType DEF OwnCall
  <2>3. snap' \in [Calls -> SUBSET Intents]
    BY <1>0, <1>5, <2>2 DEF TypeOK, Adjudicate, history
  <2>4. PICK e \in Evidence :
          \/ /\ Gate(GateInput(w, e)) = "apply"
             /\ Goto(w, "apply") /\ UNCHANGED <<receipt, result>>
          \/ /\ Gate(GateInput(w, e)) \in Outcomes
             /\ Finalize(w, Gate(GateInput(w, e)), FALSE) /\ UNCHANGED result
          \/ /\ Gate(GateInput(w, e)) = "raise"
             /\ Raise(w) /\ UNCHANGED receipt
    BY <1>5 DEF Adjudicate, history
  <2>5. CASE Goto(w, "apply") /\ UNCHANGED <<receipt, result>>
    <3>1. pc' = [pc EXCEPT ![w] = "apply"] /\ "apply" \in Steps \ Logging
      BY <2>5 DEF Goto, Steps, Logging
    <3>2. OwnCall' /\ Prepared' /\ Logged'
      BY <2>1, <2>5, <3>1, MoveKeeps
    <3>3. TypeOK'
      BY <1>0, <1>5, <2>3, <2>5, <3>1 DEF TypeOK, Adjudicate, history
    <3>4. QED
      BY <3>2, <3>3 DEF BaseInv
  <2>6. CASE /\ Gate(GateInput(w, e)) \in Outcomes
             /\ Finalize(w, Gate(GateInput(w, e)), FALSE) /\ UNCHANGED result
    <3>1. /\ OwnCall' /\ Prepared' /\ Logged'
          /\ receipt' \in [Workers -> Receipt \union {NoReceipt}]
          /\ pc' \in [Workers -> Steps]
      BY <2>1, <2>6, FinalizeKeeps
    <3>2. TypeOK'
      BY <1>0, <1>5, <2>3, <2>6, <3>1 DEF TypeOK, Adjudicate, history
    <3>3. QED
      BY <3>1, <3>2 DEF BaseInv
  <2>7. CASE Raise(w) /\ UNCHANGED receipt
    <3>1. pc' = [pc EXCEPT ![w] = "idle"] /\ "idle" \in Steps \ Logging
      BY <2>7 DEF Raise, Goto, Steps, Logging
    <3>2. OwnCall' /\ Prepared' /\ Logged'
      BY <2>1, <2>7, <3>1, MoveKeeps
    <3>3. TypeOK'
      BY <1>0, <1>5, <2>3, <2>7, <3>1 DEF TypeOK, Adjudicate, Raise, history
    <3>4. QED
      BY <3>2, <3>3 DEF BaseInv
  <2>8. QED
    BY <2>4, <2>5, <2>6, <2>7
<1>6. ASSUME NEW w \in Workers, Apply(w)
      PROVE  BaseInv'
  <2>1. pc[w] # "idle" /\ UNCHANGED <<calls, call, ledger, receipt>>
    BY <1>6 DEF Apply, history
  <2>2. pc' = [pc EXCEPT ![w] = "verify"] /\ "verify" \in Steps \ Logging
    BY <1>6 DEF Apply, Goto, Steps, Logging, history
  <2>3. call[w] \in Calls /\ Intent(w) \in Intents
    BY <1>0, <2>1, TargetType DEF OwnCall
  <2>4. OwnCall' /\ Prepared' /\ Logged'
    BY <2>1, <2>2, MoveKeeps
  <2>5. TypeOK'
    BY <1>0, <1>6, <2>2, <2>3 DEF TypeOK, Apply, Effect, Intent, history
  <2>6. QED
    BY <2>4, <2>5 DEF BaseInv
<1>7. ASSUME NEW w \in Workers, ApplyRaises(w)
      PROVE  BaseInv'
  <2>1. pc[w] # "idle" /\ UNCHANGED <<calls, call, ledger>>
    BY <1>7 DEF ApplyRaises, history
  <2>2. call[w] \in Calls /\ Intent(w) \in Intents
    BY <1>0, <2>1, TargetType DEF OwnCall
  <2>3. /\ target' \subseteq Intents /\ inflight' \subseteq Calls
        /\ effects' \in [Calls -> {"none", "applied", "reverted"}]
        /\ faults' \in Nat
    <3>1. faults' \in Nat
      BY <1>0, <1>7 DEF TypeOK, ApplyRaises, Fault, history
    <3>2. inflight' \subseteq Calls
      BY <1>0, <1>7, <2>2 DEF TypeOK, ApplyRaises, history
    <3>3. \/ UNCHANGED <<target, effects>>
          \/ Effect(call[w])
      BY <1>7 DEF ApplyRaises, history
    <3>4. /\ target' \subseteq Intents
          /\ effects' \in [Calls -> {"none", "applied", "reverted"}]
      BY <1>0, <2>2, <3>3 DEF TypeOK, Effect, Intent
    <3>5. QED
      BY <3>1, <3>2, <3>4
  <2>4. CASE Goto(w, "revert_apply") /\ UNCHANGED receipt
    <3>1. pc' = [pc EXCEPT ![w] = "revert_apply"]
          /\ "revert_apply" \in Steps \ Logging
      BY <2>4 DEF Goto, Steps, Logging
    <3>2. OwnCall' /\ Prepared' /\ Logged'
      BY <2>1, <2>4, <3>1, MoveKeeps
    <3>3. TypeOK'
      BY <1>0, <1>7, <2>3, <2>4, <3>1 DEF TypeOK, ApplyRaises, history
    <3>4. QED
      BY <3>2, <3>3 DEF BaseInv
  <2>5. CASE Finalize(w, "APPLY_FAILED", FALSE)
    <3>1. "APPLY_FAILED" \in Outcomes
      BY DEF Outcomes
    <3>2. /\ OwnCall' /\ Prepared' /\ Logged'
          /\ receipt' \in [Workers -> Receipt \union {NoReceipt}]
          /\ pc' \in [Workers -> Steps]
      BY <2>1, <2>5, <3>1, FinalizeKeeps
    <3>3. TypeOK'
      BY <1>0, <1>7, <2>3, <3>2 DEF TypeOK, ApplyRaises, history
    <3>4. QED
      BY <3>2, <3>3 DEF BaseInv
  <2>6. QED
    BY <1>7, <2>4, <2>5 DEF ApplyRaises, history
<1>8. ASSUME NEW w \in Workers, Verify(w)
      PROVE  BaseInv'
  <2>1. pc[w] # "idle" /\ UNCHANGED <<calls, call, ledger, receipt>>
    BY <1>8 DEF Verify, history
  <2>2. PICK s \in {"post", "revert_verify"} : pc' = [pc EXCEPT ![w] = s]
    BY <1>8 DEF Verify, Goto, history
  <2>3. s \in Steps \ Logging
    BY <2>2 DEF Steps, Logging
  <2>4. faults' \in Nat
    BY <1>0, <1>8 DEF TypeOK, Verify, Fault, history
  <2>5. TypeOK'
    BY <1>0, <1>8, <2>2, <2>3, <2>4 DEF TypeOK, Verify, history
  <2>6. QED
    BY <2>1, <2>2, <2>3, <2>5, MoveKeeps DEF BaseInv
<1>9. ASSUME NEW w \in Workers, VerifyRaises(w)
      PROVE  BaseInv'
  <2>1. pc[w] # "idle" /\ UNCHANGED <<calls, call, ledger, receipt>>
    BY <1>9 DEF VerifyRaises, history
  <2>2. pc' = [pc EXCEPT ![w] = "idle"] /\ "idle" \in Steps \ Logging
    BY <1>9 DEF VerifyRaises, Raise, Goto, Steps, Logging, history
  <2>3. TypeOK'
    BY <1>0, <1>9, <2>2 DEF TypeOK, VerifyRaises, Raise, Fault, history
  <2>4. QED
    BY <2>1, <2>2, <2>3, MoveKeeps DEF BaseInv
<1>10. ASSUME NEW w \in Workers, Post(w)
      PROVE  BaseInv'
  <2>1. pc[w] # "idle" /\ UNCHANGED <<calls, call, ledger>>
    BY <1>10 DEF Post, history
  <2>2. CASE Finalize(w, "COMMITTED", FALSE) /\ UNCHANGED faults
    <3>1. "COMMITTED" \in Outcomes
      BY DEF Outcomes
    <3>2. /\ OwnCall' /\ Prepared' /\ Logged'
          /\ receipt' \in [Workers -> Receipt \union {NoReceipt}]
          /\ pc' \in [Workers -> Steps]
      BY <2>1, <2>2, <3>1, FinalizeKeeps
    <3>3. TypeOK'
      BY <1>0, <1>10, <2>2, <3>2 DEF TypeOK, Post, history
    <3>4. QED
      BY <3>2, <3>3 DEF BaseInv
  <2>3. CASE Fault("read") /\ Goto(w, "revert_post") /\ UNCHANGED receipt
    <3>1. pc' = [pc EXCEPT ![w] = "revert_post"]
          /\ "revert_post" \in Steps \ Logging
      BY <2>3 DEF Goto, Steps, Logging
    <3>2. OwnCall' /\ Prepared' /\ Logged'
      BY <2>1, <2>3, <3>1, MoveKeeps
    <3>3. TypeOK'
      BY <1>0, <1>10, <2>3, <3>1 DEF TypeOK, Post, Fault, history
    <3>4. QED
      BY <3>2, <3>3 DEF BaseInv
  <2>4. QED
    BY <1>10, <2>2, <2>3 DEF Post, history
<1>11. ASSUME NEW w \in Workers, Revert(w)
       PROVE  BaseInv'
  <2>1. pc[w] # "idle" /\ UNCHANGED <<calls, call, ledger>>
    BY <1>11 DEF Revert, Reverting, history
  <2>2. call[w] \in Calls /\ Restored(w) \subseteq Intents
    BY <1>0, <2>1, TargetType DEF OwnCall
  <2>3. /\ target' \subseteq Intents
        /\ effects' \in [Calls -> {"none", "applied", "reverted"}]
    BY <1>0, <1>11, <2>2 DEF TypeOK, Revert, Undo, history
  <2>d. disturbed' \subseteq Calls \X Calls
    BY <1>0, <1>11, <2>2, UndoType DEF Revert
  <2>4. CASE Goto(w, "reread") /\ UNCHANGED receipt
    <3>1. pc' = [pc EXCEPT ![w] = "reread"] /\ "reread" \in Steps \ Logging
      BY <2>4 DEF Goto, Steps, Logging
    <3>2. OwnCall' /\ Prepared' /\ Logged'
      BY <2>1, <2>4, <3>1, MoveKeeps
    <3>3. TypeOK'
      BY <1>0, <1>11, <2>3, <2>4, <2>d, <3>1 DEF TypeOK, Revert
    <3>4. QED
      BY <3>2, <3>3 DEF BaseInv
  <2>5. CASE Finalize(w, "ROLLED_BACK", FALSE)
    <3>1. "ROLLED_BACK" \in Outcomes
      BY DEF Outcomes
    <3>2. /\ OwnCall' /\ Prepared' /\ Logged'
          /\ receipt' \in [Workers -> Receipt \union {NoReceipt}]
          /\ pc' \in [Workers -> Steps]
      BY <2>1, <2>5, <3>1, FinalizeKeeps
    <3>3. TypeOK'
      BY <1>0, <1>11, <2>3, <2>d, <3>2 DEF TypeOK, Revert
    <3>4. QED
      BY <3>2, <3>3 DEF BaseInv
  <2>6. QED
    BY <1>11, <2>4, <2>5 DEF Revert, history
<1>12. ASSUME NEW w \in Workers, RevertFails(w)
       PROVE  BaseInv'
  <2>1. /\ pc[w] # "idle" /\ UNCHANGED <<calls, call, ledger>>
        /\ Finalize(w, "ESCALATED", TRUE) /\ "ESCALATED" \in Outcomes
    BY <1>12 DEF RevertFails, Reverting, Outcomes, history
  <2>2. call[w] \in Calls /\ Restored(w) \subseteq Intents
    BY <1>0, <2>1, TargetType DEF OwnCall
  <2>f. faults' \in Nat
    <3>1. faults \in Nat /\ faults' = faults + 1
      BY <1>0, <1>12 DEF TypeOK, RevertFails, Fault, history
    <3>2. QED
      BY <3>1
  <2>3. /\ target' \subseteq Intents
        /\ effects' \in [Calls -> {"none", "applied", "reverted"}]
    <3>1. /\ target \subseteq Intents
          /\ effects \in [Calls -> {"none", "applied", "reverted"}]
      BY <1>0 DEF TypeOK
    <3>2. CASE Undo(w)
      BY <2>2, <3>1, <3>2 DEF Undo
    <3>3. CASE UNCHANGED <<target, effects, disturbed>>
      BY <3>1, <3>3
    <3>4. QED
      BY <1>12, <3>2, <3>3 DEF RevertFails, history
  <2>4. /\ OwnCall' /\ Prepared' /\ Logged'
        /\ receipt' \in [Workers -> Receipt \union {NoReceipt}]
        /\ pc' \in [Workers -> Steps]
    BY <2>1, FinalizeKeeps
  <2>d. disturbed' \subseteq Calls \X Calls
    BY <1>0, <1>12, <2>2, UndoType DEF RevertFails
  <2>5. TypeOK'
    BY <1>0, <1>12, <2>3, <2>4, <2>d, <2>f DEF TypeOK, RevertFails
  <2>6. QED
    BY <2>4, <2>5 DEF BaseInv
<1>13. ASSUME NEW w \in Workers, Reread(w)
       PROVE  BaseInv'
  <2>1. pc[w] # "idle" /\ UNCHANGED <<calls, call, ledger>>
    BY <1>13 DEF Reread, history
  <2>2. PICK o \in {"ROLLED_BACK", "ESCALATED"} : Finalize(w, o, FALSE)
    BY <1>13 DEF Reread, history
  <2>3. o \in Outcomes /\ FALSE \in BOOLEAN
    BY <2>2 DEF Outcomes
  <2>4. /\ OwnCall' /\ Prepared' /\ Logged'
        /\ receipt' \in [Workers -> Receipt \union {NoReceipt}]
        /\ pc' \in [Workers -> Steps]
    BY <2>1, <2>2, <2>3, FinalizeKeeps
  <2>5. faults' \in Nat
    <3>1. faults \in Nat
      BY <1>0 DEF TypeOK
    <3>2. CASE UNCHANGED faults
      BY <3>1, <3>2
    <3>3. CASE faults' = faults + 1
      BY <3>1, <3>3
    <3>4. QED
      BY <1>13, <3>2, <3>3 DEF Reread, Fault, history
  <2>6. TypeOK'
    BY <1>0, <1>13, <2>4, <2>5 DEF TypeOK, Reread, history
  <2>7. QED
    BY <2>4, <2>6 DEF BaseInv
<1>14. ASSUME NEW w \in Workers, LogIntent(w)
       PROVE  BaseInv'
  <2>1. /\ pc[w] = "log_intent" /\ pc' = [pc EXCEPT ![w] = "log_prev"]
        /\ AppendEntry(IntentEntry(w)) /\ UNCHANGED <<calls, call, receipt>>
    BY <1>14 DEF LogIntent, Goto, history
  <2>2. AppendFacts(w, IntentEntry(w))
    BY <1>0, <2>1, IntentAppended
  <2>3. OwnCall'
    BY <1>0, <2>1 DEF OwnCall
  <2>4. Prepared'
    BY <1>0, <2>1 DEF Prepared, Logging
  <2>5. Logged'
    <3>1. Stored' \subseteq Stored
      BY <2>2 DEF AppendFacts, IntentEntry
    <3>2. \A v \in Workers : pc'[v] # "idle" => pc[v] # "idle"
      BY <1>0, <2>1
    <3>3. \A p \in 1 .. Len(ledger') : ledger'[p].call \in 1 .. Len(calls)
      BY <2>2 DEF AppendFacts
    <3>4. Logged /\ calls' = calls /\ call' = call
      BY <1>0, <2>1
    <3>5. \A r \in Stored' : r.call \in 1 .. Len(calls)
      BY <3>1, <3>4 DEF Logged
    <3>6. \A r \in Stored', v \in Workers : pc'[v] # "idle" => r.call # call[v]
      BY <3>1, <3>2, <3>4 DEF Logged
    <3>7. QED
      BY <3>3, <3>4, <3>5, <3>6 DEF Logged
  <2>6. TypeOK'
    BY <1>0, <1>14, <2>1, <2>2 DEF TypeOK, LogIntent, Steps, AppendFacts, history
  <2>7. QED
    BY <2>3, <2>4, <2>5, <2>6 DEF BaseInv
<1>15. ASSUME NEW w \in Workers, LogPrev(w)
       PROVE  BaseInv'
  <2>1. /\ pc[w] = "log_prev" /\ pc' = [pc EXCEPT ![w] = "log_receipt"]
        /\ UNCHANGED <<calls, call, ledger>>
    BY <1>15 DEF LogPrev, Goto, history
  <2>2. receipt[w] \in Receipt /\ receipt[w].call = call[w]
    BY <1>0, <2>1 DEF Prepared, Logging
  <2>3. /\ receipt' \in [Workers -> Receipt \union {NoReceipt}]
        /\ receipt'[w] \in Receipt /\ receipt'[w].call = call[w]
        /\ receipt'[w].outcome = receipt[w].outcome
        /\ \A v \in Workers \ {w} : receipt'[v] = receipt[v]
    BY <1>0, <1>15, PrevKept
  <2>4. OwnCall'
    BY <1>0, <2>1 DEF OwnCall
  <2>5. Prepared'
    BY <1>0, <2>1, <2>3 DEF Prepared
  <2>6. Logged'
    <3>1. Stored' = Stored
      BY <2>1 DEF Stored
    <3>2. \A v \in Workers : pc'[v] # "idle" => pc[v] # "idle"
      BY <1>0, <2>1
    <3>3. QED
      BY <1>0, <2>1, <3>1, <3>2 DEF Logged
  <2>f. faults' \in Nat
    <3>1. faults \in Nat /\ (faults' = faults \/ faults' = faults + 1)
      BY <1>0, <1>15 DEF TypeOK, LogPrev, Fault
    <3>2. QED
      BY <3>1
  <2>7. TypeOK'
    BY <1>0, <1>15, <2>1, <2>3, <2>f DEF TypeOK, LogPrev, Steps, history
  <2>8. QED
    BY <2>4, <2>5, <2>6, <2>7 DEF BaseInv
<1>16. ASSUME NEW w \in Workers, LogReceipt(w)
       PROVE  BaseInv'
  <2>1. /\ pc[w] = "log_receipt" /\ pc' = [pc EXCEPT ![w] = "idle"]
        /\ AppendEntry(ReceiptEntry(w)) /\ UNCHANGED <<calls, call, receipt>>
    BY <1>16 DEF LogReceipt, Goto, history
  <2>2. AppendFacts(w, ReceiptEntry(w)) /\ receipt[w] \in Receipt
    BY <1>0, <2>1, ReceiptAppended
  <2>3. OwnCall' /\ Prepared' /\ Logged'
    BY <1>0, <2>1, <2>2, EndKeeps
  <2>4. TypeOK'
    BY <1>0, <1>16, <2>1, <2>2 DEF TypeOK, LogReceipt, Steps, AppendFacts, history
  <2>5. QED
    BY <2>3, <2>4 DEF BaseInv
<1>17. ASSUME NEW w \in Workers, LogFails(w)
       PROVE  BaseInv'
  <2>1. /\ pc[w] # "idle" /\ pc' = [pc EXCEPT ![w] = "idle"]
        /\ UNCHANGED <<calls, call, receipt>> /\ faults' \in Nat
        /\ "idle" \in Steps \ Logging
    BY <1>0, <1>17 DEF LogFails, Raise, Goto, Fault, TypeOK, Steps, Logging, history
  <2>2. CASE UNCHANGED <<ledger, base>>
    <3>1. OwnCall' /\ Prepared' /\ Logged'
      BY <2>1, <2>2, MoveKeeps
    <3>2. TypeOK'
      BY <1>0, <1>17, <2>1, <2>2 DEF TypeOK, LogFails, Raise, history
    <3>3. QED
      BY <3>1, <3>2 DEF BaseInv
  <2>3. CASE pc[w] = "log_intent" /\ AppendEntry(IntentEntry(w))
    <3>1. AppendFacts(w, IntentEntry(w))
      BY <1>0, <2>3, IntentAppended
    <3>2. OwnCall' /\ Prepared' /\ Logged'
      BY <1>0, <2>1, <3>1, EndKeeps
    <3>3. TypeOK'
      BY <1>0, <1>17, <2>1, <3>1 DEF TypeOK, LogFails, Raise, AppendFacts, history
    <3>4. QED
      BY <3>2, <3>3 DEF BaseInv
  <2>4. CASE pc[w] = "log_receipt" /\ AppendEntry(ReceiptEntry(w))
    <3>1. AppendFacts(w, ReceiptEntry(w))
      BY <1>0, <2>4, ReceiptAppended
    <3>2. OwnCall' /\ Prepared' /\ Logged'
      BY <1>0, <2>1, <3>1, EndKeeps
    <3>3. TypeOK'
      BY <1>0, <1>17, <2>1, <3>1 DEF TypeOK, LogFails, Raise, AppendFacts, history
    <3>4. QED
      BY <3>2, <3>3 DEF BaseInv
  <2>5. QED
    BY <1>17, <2>2, <2>3, <2>4 DEF LogFails, history
<1>18. ASSUME Arrive
       PROVE  BaseInv'
  <2>1. PICK n \in inflight :
          inflight' = inflight \ {n} /\ Effect(n)
    BY <1>18 DEF Arrive, history
  <2>2. /\ n \in Calls
        /\ UNCHANGED <<ledger, base, calls, pc, call, expected, snap, receipt,
                       result, faults, begun, unread, disturbed>>
    BY <1>0, <1>18, <2>1 DEF TypeOK, Arrive, history
  <2>3. TypeOK'
    <3>1. calls[n] \in Intents
      BY <1>0, <2>1 DEF Begun, TypeOK
    <3>2. QED
      BY <1>0, <2>1, <2>2, <3>1, ArriveKeeps
  <2>4. Stored' = Stored
    BY <2>2 DEF Stored
  <2>5. OwnCall' /\ Prepared' /\ Logged'
    BY <1>0, <2>2, <2>4 DEF OwnCall, Prepared, Logged
  <2>6. QED
    BY <2>3, <2>5 DEF BaseInv
<1>19. ASSUME Crash
       PROVE  BaseInv'
  <2>1. TypeOK'
    BY <1>0, <1>19 DEF TypeOK, Crash, Fault, Steps, history
  <2>2. Stored' = Stored
    BY <1>19 DEF Crash, Stored, history
  <2>3. OwnCall' /\ Prepared' /\ Logged'
    BY <1>0, <1>19, <2>2 DEF OwnCall, Prepared, Logged, Crash, Logging, history
  <2>4. QED
    BY <2>1, <2>3 DEF BaseInv
<1>20. CASE UNCHANGED vars
  <2>1. Stored' = Stored
    BY <1>20 DEF vars, Stored
  <2>2. TypeOK'
    BY <1>0, <1>20 DEF vars, TypeOK
  <2>3. OwnCall' /\ Prepared' /\ Logged'
    BY <1>0, <1>20, <2>1 DEF vars, OwnCall, Prepared, Logged
  <2>4. QED
    BY <2>2, <2>3 DEF BaseInv
<1>21. QED
  BY <1>1, <1>2, <1>3, <1>4, <1>5, <1>6, <1>7, <1>8, <1>9, <1>10, <1>11, <1>12,
     <1>13, <1>14, <1>15, <1>16, <1>17, <1>18, <1>19, <1>20
  DEF Next, Step

\* Only a call that runs sends a request.
LEMMA BegunStep == BaseInv /\ Begun /\ [Next]_vars => Begun'
<1> SUFFICES ASSUME BaseInv, Begun, [Next]_vars
             PROVE  Begun'
  OBVIOUS
<1>0. TypeOK /\ OwnCall
  BY DEF BaseInv
<1>1. ASSUME NEW w \in Workers, NEW i \in Intents, Submit(w, i)
      PROVE  Begun'
  <2>1. Len(calls') = Len(calls) + 1 /\ Len(calls) \in Nat /\ inflight' = inflight
    BY <1>0, <1>1 DEF Submit, TypeOK, history
  <2>2. QED
    BY <2>1 DEF Begun
<1>2. ASSUME NEW w \in Workers, ApplyRaises(w)
      PROVE  Begun'
  <2>1. /\ inflight' \subseteq inflight \union {call[w]}
        /\ calls' = calls /\ call[w] \in 1 .. Len(calls)
    BY <1>0, <1>2 DEF ApplyRaises, OwnCall, history
  <2>2. QED
    BY <2>1 DEF Begun
<1>3. ASSUME inflight' \subseteq inflight, calls' = calls
      PROVE  Begun'
  BY <1>3 DEF Begun
<1>4. CASE Arrive \/ Crash \/ UNCHANGED vars
  BY <1>3, <1>4 DEF Arrive, Crash, vars, history
<1>5. ASSUME NEW w \in Workers,
             \/ Replay(w) \/ Fresh(w) \/ SnapshotFails(w) \/ Adjudicate(w)
             \/ Apply(w) \/ Verify(w) \/ VerifyRaises(w) \/ Post(w)
      PROVE  Begun'
  BY <1>3, <1>5 DEF Replay, Fresh, SnapshotFails, Adjudicate, Apply, Verify,
                    VerifyRaises, Post, history
<1>6. ASSUME NEW w \in Workers,
             \/ Revert(w) \/ RevertFails(w) \/ Reread(w) \/ LogIntent(w)
             \/ LogPrev(w) \/ LogReceipt(w) \/ LogFails(w)
      PROVE  Begun'
  BY <1>3, <1>6 DEF Revert, RevertFails, Reread, LogIntent, LogPrev, LogReceipt,
                    LogFails, history
<1>7. QED
  BY <1>1, <1>2, <1>4, <1>5, <1>6 DEF Next, Step

-----------------------------------------------------------------------------
(* Receipts and effects *)

\* What ReceiptTruthful says of one receipt, and that no request of a call
\* refused early is still on its way.
Truthful(r) ==
  /\ r.outcome = "COMMITTED" => effects[r.call] = "applied"
  /\ r.outcome \in Early => effects[r.call] = "none" /\ r.call \notin inflight

EffectInv ==
  /\ \A w \in Workers :
       /\ pc[w] \in Before => effects[call[w]] = "none" /\ call[w] \notin inflight
       /\ pc[w] \in {"verify", "post"} => effects[call[w]] = "applied"
       /\ pc[w] \in Logging => Truthful(receipt[w])
  /\ \A r \in Stored : Truthful(r)
  /\ \A n \in Calls : n \notin 1 .. Len(calls) => effects[n] = "none"

Inv == BaseInv /\ Begun /\ EffectInv

\* What a step of worker w may do to the others: nothing.
Local(w) ==
  /\ \A n \in Calls \ {call[w]} :
       effects'[n] = effects[n] /\ (n \in inflight' => n \in inflight)
  /\ \A v \in Workers \ {w} : pc'[v] = pc[v] /\ receipt'[v] = receipt[v]
  /\ UNCHANGED <<calls, call>>

\* A step of a busy worker keeps the invariant when it keeps the worker's part.
LEMMA EffectFrame ==
  ASSUME BaseInv, EffectInv, NEW w \in Workers, pc[w] # "idle", Local(w),
         \A r \in Stored' : r \in Stored \/ Truthful(r)',
         pc'[w] \in Before =>
           effects'[call[w]] = "none" /\ call[w] \notin inflight',
         pc'[w] \in {"verify", "post"} => effects'[call[w]] = "applied",
         pc'[w] \in Logging => Truthful(receipt[w])'
  PROVE  EffectInv'
<1>1. Len(calls) \in Nat /\ Len(calls) =< MaxCalls /\ MaxCalls \in Nat
  BY ConstantsAssumption DEF BaseInv, TypeOK
<1>2. 1 .. Len(calls) \subseteq Calls
  BY <1>1 DEF Calls
<1>3. call' = call /\ calls' = calls
  BY DEF Local
<1>4. ASSUME NEW v \in Workers
      PROVE  /\ pc'[v] \in Before =>
                  effects'[call[v]] = "none" /\ call[v] \notin inflight'
             /\ pc'[v] \in {"verify", "post"} => effects'[call[v]] = "applied"
             /\ pc'[v] \in Logging => Truthful(receipt[v])'
  <2>1. CASE v = w
    BY <2>1
  <2>2. CASE v # w /\ pc[v] = "idle"
    <3>1. pc'[v] = "idle"
      BY <2>2 DEF Local
    <3>2. QED
      BY <3>1 DEF Before, Logging
  <2>3. CASE v # w /\ pc[v] # "idle"
    <3>1. call[v] \in Calls \ {call[w]}
      BY <1>2, <2>3 DEF BaseInv, OwnCall
    <3>2. /\ effects'[call[v]] = effects[call[v]]
          /\ call[v] \in inflight' => call[v] \in inflight
          /\ pc'[v] = pc[v] /\ receipt'[v] = receipt[v]
      BY <2>3, <3>1 DEF Local
    <3>3. pc[v] \in Logging => Truthful(receipt[v]) /\ receipt[v].call = call[v]
      BY DEF EffectInv, BaseInv, Prepared
    <3>4. pc'[v] \in Logging => Truthful(receipt[v])'
      BY <3>2, <3>3 DEF Truthful
    <3>5. QED
      BY <3>2, <3>4 DEF EffectInv
  <2>4. QED
    BY <2>1, <2>2, <2>3
<1>5. ASSUME NEW r \in Stored
      PROVE  Truthful(r)'
  <2>1. r.call \in Calls \ {call[w]}
    BY <1>2, <1>5 DEF BaseInv, Logged
  <2>2. effects'[r.call] = effects[r.call] /\ (r.call \in inflight' => r.call \in inflight)
    BY <2>1 DEF Local
  <2>3. Truthful(r)
    BY DEF EffectInv
  <2>4. QED
    BY <2>2, <2>3 DEF Truthful
<1>6. ASSUME NEW n \in Calls, n \notin 1 .. Len(calls)
      PROVE  effects'[n] = "none"
  <2>1. n # call[w]
    BY <1>6 DEF BaseInv, OwnCall
  <2>2. QED
    BY <1>6, <2>1 DEF Local, EffectInv
<1>7. QED
  BY <1>3, <1>4, <1>5, <1>6 DEF EffectInv
\* The effects of the other calls stay as they are.
OwnEffect(w) ==
  \A n \in Calls \ {call[w]} :
    effects'[n] = effects[n] /\ (n \in inflight' => n \in inflight)

\* A worker that goes on, or leaves, without a receipt.
LEMMA MoveEffect ==
  ASSUME BaseInv, EffectInv, NEW w \in Workers, pc[w] # "idle", OwnEffect(w),
         NEW s \in Steps \ Logging, pc' = [pc EXCEPT ![w] = s],
         s \in Before => effects'[call[w]] = "none" /\ call[w] \notin inflight',
         s \in {"verify", "post"} => effects'[call[w]] = "applied",
         UNCHANGED <<calls, call, receipt, ledger>>
  PROVE  EffectInv'
<1>1. pc \in [Workers -> Steps]
  BY DEF BaseInv, TypeOK
<1>2. pc'[w] = s /\ \A v \in Workers \ {w} : pc'[v] = pc[v]
  BY <1>1
<1>3. Local(w)
  BY <1>2 DEF Local, OwnEffect
<1>4. Stored' = Stored
  BY DEF Stored
<1>5. QED
  BY <1>2, <1>3, <1>4, EffectFrame

\* A worker whose receipt is complete.
LEMMA FinalizeEffect ==
  ASSUME BaseInv, EffectInv, NEW w \in Workers, pc[w] # "idle", OwnEffect(w),
         NEW o \in Outcomes, NEW f \in BOOLEAN, Finalize(w, o, f),
         o = "COMMITTED" => effects'[call[w]] = "applied",
         o \in Early => effects'[call[w]] = "none" /\ call[w] \notin inflight',
         UNCHANGED <<calls, call, ledger>>
  PROVE  EffectInv'
<1>1. pc \in [Workers -> Steps] /\ TypeOK
  BY DEF BaseInv, TypeOK
<1>2. call[w] \in Calls
  BY <1>1, TargetType DEF BaseInv, OwnCall
<1>3. /\ receipt'[w].call = call[w] /\ receipt'[w].outcome = o
      /\ \A v \in Workers \ {w} : receipt'[v] = receipt[v]
      /\ pc' = [pc EXCEPT ![w] = "log_intent"]
  BY <1>1, <1>2, FinalizeType
<1>4. pc'[w] = "log_intent" /\ \A v \in Workers \ {w} : pc'[v] = pc[v]
  BY <1>1, <1>3
<1>5. Local(w)
  BY <1>3, <1>4 DEF Local, OwnEffect
<1>6. Stored' = Stored
  BY DEF Stored
<1>7. Truthful(receipt[w])'
  BY <1>3 DEF Truthful
<1>8. pc'[w] \notin Before /\ pc'[w] \notin {"verify", "post"}
  BY <1>4 DEF Before
<1>9. QED
  BY <1>5, <1>6, <1>7, <1>8, EffectFrame

\* A worker that logs: its receipt stays truthful, stored or not.
LEMMA LogEffect ==
  ASSUME BaseInv, EffectInv, NEW w \in Workers, pc[w] \in Logging,
         NEW s \in Logging \union {"idle"}, pc' = [pc EXCEPT ![w] = s],
         receipt'[w].outcome = receipt[w].outcome,
         receipt'[w].call = receipt[w].call,
         \A v \in Workers \ {w} : receipt'[v] = receipt[v],
         \A r \in Stored' : r \in Stored \/ r = receipt[w],
         UNCHANGED <<calls, call, effects, inflight>>
  PROVE  EffectInv'
<1>1. pc \in [Workers -> Steps]
  BY DEF BaseInv, TypeOK
<1>2. pc'[w] = s /\ \A v \in Workers \ {w} : pc'[v] = pc[v]
  BY <1>1
<1>3. Local(w)
  BY <1>2 DEF Local
<1>4. Truthful(receipt[w])
  BY DEF EffectInv
<1>5. \A r \in Stored' : r \in Stored \/ Truthful(r)'
  BY <1>4 DEF Truthful
<1>6. Truthful(receipt[w])'
  BY <1>4 DEF Truthful
<1>7. pc'[w] \notin Before /\ pc'[w] \notin {"verify", "post"} /\ pc[w] # "idle"
  BY <1>2 DEF Before, Logging
<1>8. QED
  BY <1>3, <1>5, <1>6, <1>7, EffectFrame
\* Every step keeps the receipts truthful.
LEMMA EffectStep == Inv /\ [Next]_vars => EffectInv'
<1> SUFFICES ASSUME Inv, [Next]_vars
             PROVE  EffectInv'
  OBVIOUS
<1>0. /\ BaseInv /\ Begun /\ EffectInv
      /\ TypeOK /\ OwnCall /\ Prepared /\ Logged
  BY DEF Inv, BaseInv
<1>a. /\ pc \in [Workers -> Steps]
      /\ effects \in [Calls -> {"none", "applied", "reverted"}]
      /\ inflight \subseteq Calls
  BY <1>0 DEF TypeOK
<1>b. \A w \in Workers : pc[w] # "idle" => call[w] \in Calls
  BY <1>0, TargetType DEF OwnCall
<1>1. ASSUME NEW w \in Workers, NEW i \in Intents, Submit(w, i)
      PROVE  EffectInv'
  <2> DEFINE n == Len(calls) + 1
  <2>1. /\ n \in Calls /\ Len(calls) \in Nat /\ Len(calls') = n
        /\ n \notin 1 .. Len(calls)
    <3>1. /\ calls \in Seq(Intents) /\ Len(calls) < MaxCalls /\ MaxCalls \in Nat
          /\ calls' = Append(calls, i)
      BY <1>0, <1>1, ConstantsAssumption DEF Submit, TypeOK, history
    <3>2. QED
      BY <3>1 DEF Calls
  <2>2. effects[n] = "none" /\ n \notin inflight
    BY <1>0, <2>1 DEF EffectInv, Begun
  <2>3. /\ call'[w] = n /\ pc'[w] = "dedupe"
        /\ \A v \in Workers \ {w} : call'[v] = call[v] /\ pc'[v] = pc[v]
        /\ UNCHANGED <<effects, inflight, receipt>>
    BY <1>0, <1>1 DEF Submit, Goto, TypeOK, history
  <2>4. Stored' = Stored
    BY <1>1 DEF Submit, Stored, history
  <2> HIDE DEF n
  <2>5. \A r : Truthful(r) => Truthful(r)'
    BY <2>3 DEF Truthful
  <2>6. ASSUME NEW v \in Workers
        PROVE  /\ pc'[v] \in Before =>
                    effects'[call'[v]] = "none" /\ call'[v] \notin inflight'
               /\ pc'[v] \in {"verify", "post"} => effects'[call'[v]] = "applied"
               /\ pc'[v] \in Logging => Truthful(receipt[v])'
    <3>1. CASE v = w
      BY <2>2, <2>3, <3>1 DEF Logging
    <3>2. CASE v # w
      <4>1. /\ pc[v] \in Before => effects[call[v]] = "none" /\ call[v] \notin inflight
            /\ pc[v] \in {"verify", "post"} => effects[call[v]] = "applied"
            /\ pc[v] \in Logging => Truthful(receipt[v])
        BY <1>0 DEF EffectInv
      <4>2. Truthful(receipt[v]) => Truthful(receipt[v])'
        BY <2>3 DEF Truthful
      <4>3. QED
        BY <2>3, <3>2, <4>1, <4>2
    <3>3. QED
      BY <3>1, <3>2
  <2>7. \A r \in Stored' : Truthful(r)'
    BY <1>0, <2>4, <2>5 DEF EffectInv
  <2>8. \A m \in Calls : m \notin 1 .. Len(calls') => effects'[m] = "none"
    <3>1. \A m \in Calls : m \notin 1 .. Len(calls') => m \notin 1 .. Len(calls)
      BY <2>1 DEF n
    <3>2. QED
      BY <1>0, <2>3, <3>1 DEF EffectInv
  <2>9. QED
    BY <2>6, <2>7, <2>8 DEF EffectInv
<1>2. ASSUME NEW w \in Workers, Replay(w) \/ VerifyRaises(w)
      PROVE  EffectInv'
  <2>1. /\ pc[w] # "idle" /\ pc' = [pc EXCEPT ![w] = "idle"]
        /\ UNCHANGED <<calls, call, receipt, ledger, effects, inflight>>
        /\ "idle" \in Steps \ Logging /\ "idle" \notin Before
    BY <1>2 DEF Replay, VerifyRaises, Raise, Goto, Steps, Logging, Before, history
  <2>2. OwnEffect(w)
    BY <2>1 DEF OwnEffect
  <2>3. QED
    BY <1>0, <2>1, <2>2, MoveEffect
<1>3. ASSUME NEW w \in Workers, Fresh(w) \/ SnapshotFails(w) \/ Adjudicate(w)
      PROVE  EffectInv'
  <2>1. /\ pc[w] # "idle" /\ pc[w] \in Before
        /\ UNCHANGED <<calls, call, ledger, effects, inflight>>
    BY <1>3 DEF Fresh, SnapshotFails, Adjudicate, Before, history
  <2>2. /\ OwnEffect(w)
        /\ effects'[call[w]] = "none" /\ call[w] \notin inflight'
    BY <1>0, <2>1 DEF OwnEffect, EffectInv
  <2>3. ASSUME NEW s \in {"snapshot", "apply", "idle"}, Goto(w, s), UNCHANGED receipt
        PROVE  EffectInv'
    <3>1. /\ s \in Steps \ Logging /\ pc' = [pc EXCEPT ![w] = s]
          /\ s \notin {"verify", "post"}
      BY <2>3 DEF Steps, Logging, Goto
    <3>2. QED
      BY <1>0, <2>1, <2>2, <2>3, <3>1, MoveEffect
  <2>4. ASSUME NEW o \in {"PRECONDITION_FAILED", "SNAPSHOT_FAILED", "BLOCKED", "ESCALATED"},
               Finalize(w, o, FALSE)
        PROVE  EffectInv'
    <3>1. o \in Outcomes /\ FALSE \in BOOLEAN /\ o # "COMMITTED"
      BY <2>4 DEF Outcomes
    <3>2. QED
      BY <1>0, <2>1, <2>2, <2>4, <3>1, FinalizeEffect
  <2>5. CASE Fresh(w)
    BY <2>3, <2>4, <2>5 DEF Fresh, history
  <2>6. CASE SnapshotFails(w)
    BY <2>4, <2>6 DEF SnapshotFails, history
  <2>7. CASE Adjudicate(w)
    <3>1. PICK e \in Evidence :
            LET gate == Gate(GateInput(w, e)) IN
            \/ gate = "apply" /\ Goto(w, "apply") /\ UNCHANGED <<receipt, result>>
            \/ gate \in Outcomes /\ Finalize(w, gate, FALSE) /\ UNCHANGED result
            \/ gate = "raise" /\ Raise(w) /\ UNCHANGED receipt
      BY <2>7 DEF Adjudicate, history
    <3> DEFINE gate == Gate(GateInput(w, e))
    <3>2. gate \in {"apply", "raise", "BLOCKED", "ESCALATED"}
      BY GateInputType, GateType
    <3>3. CASE gate = "apply" /\ Goto(w, "apply") /\ UNCHANGED <<receipt, result>>
      BY <2>3, <3>3
    <3>4. CASE gate \in Outcomes /\ Finalize(w, gate, FALSE)
      <4>1. gate \in {"BLOCKED", "ESCALATED"}
        BY <3>2, <3>4 DEF Outcomes
      <4>2. QED
        BY <2>4, <3>4, <4>1
    <3>5. CASE Raise(w) /\ UNCHANGED receipt
      BY <2>3, <3>5 DEF Raise
    <3>6. QED
      BY <3>1, <3>3, <3>4, <3>5
  <2>8. QED
    BY <1>3, <2>5, <2>6, <2>7<1>4. ASSUME NEW w \in Workers, Apply(w)
      PROVE  EffectInv'
  <2>1. /\ pc[w] # "idle" /\ pc' = [pc EXCEPT ![w] = "verify"]
        /\ UNCHANGED <<calls, call, receipt, ledger, inflight>>
        /\ effects' = [effects EXCEPT ![call[w]] = "applied"]
        /\ "verify" \in Steps \ Logging /\ "verify" \notin Before
    BY <1>4 DEF Apply, Effect, Goto, Steps, Logging, Before, history
  <2>2. OwnEffect(w) /\ effects'[call[w]] = "applied"
    BY <1>a, <1>b, <2>1 DEF OwnEffect
  <2>3. QED
    BY <1>0, <2>1, <2>2, MoveEffect
<1>5. ASSUME NEW w \in Workers, ApplyRaises(w)
      PROVE  EffectInv'
  <2>1. pc[w] # "idle" /\ UNCHANGED <<calls, call, ledger>>
    BY <1>5 DEF ApplyRaises, history
  <2>2. OwnEffect(w)
    <3>1. effects' = effects \/ effects' = [effects EXCEPT ![call[w]] = "applied"]
      BY <1>5 DEF ApplyRaises, Effect, history
    <3>2. inflight' \subseteq inflight \union {call[w]}
      BY <1>5 DEF ApplyRaises, history
    <3>3. QED
      BY <1>a, <1>b, <2>1, <3>1, <3>2 DEF OwnEffect
  <2>3. CASE Goto(w, "revert_apply") /\ UNCHANGED receipt
    <3>1. /\ "revert_apply" \in Steps \ Logging
          /\ pc' = [pc EXCEPT ![w] = "revert_apply"]
          /\ "revert_apply" \notin Before \union {"verify", "post"}
      BY <2>3 DEF Steps, Logging, Goto, Before
    <3>2. QED
      BY <1>0, <2>1, <2>2, <2>3, <3>1, MoveEffect
  <2>4. CASE Finalize(w, "APPLY_FAILED", FALSE)
    <3>1. "APPLY_FAILED" \in Outcomes /\ "APPLY_FAILED" \notin Early
      BY DEF Outcomes, Early
    <3>2. QED
      BY <1>0, <2>1, <2>2, <2>4, <3>1, FinalizeEffect
  <2>5. QED
    BY <1>5, <2>3, <2>4 DEF ApplyRaises, history
<1>6. ASSUME NEW w \in Workers, Verify(w)
      PROVE  EffectInv'
  <2>1. /\ pc[w] = "verify"
        /\ UNCHANGED <<calls, call, receipt, ledger, effects, inflight>>
    BY <1>6 DEF Verify, history
  <2>2. OwnEffect(w) /\ effects'[call[w]] = "applied"
    BY <1>0, <2>1 DEF OwnEffect, EffectInv
  <2>3. PICK s \in {"post", "revert_verify"} : pc' = [pc EXCEPT ![w] = s]
    BY <1>6 DEF Verify, Goto, history
  <2>4. s \in Steps \ Logging /\ s \notin Before
    BY <2>3 DEF Steps, Logging, Before
  <2>5. QED
    BY <1>0, <2>1, <2>2, <2>3, <2>4, MoveEffect
<1>7. ASSUME NEW w \in Workers, Post(w)
      PROVE  EffectInv'
  <2>1. /\ pc[w] = "post"
        /\ UNCHANGED <<calls, call, ledger, effects, inflight>>
    BY <1>7 DEF Post, history
  <2>2. OwnEffect(w) /\ effects'[call[w]] = "applied"
    BY <1>0, <2>1 DEF OwnEffect, EffectInv
  <2>3. CASE Finalize(w, "COMMITTED", FALSE)
    <3>1. "COMMITTED" \in Outcomes /\ "COMMITTED" \notin Early
      BY DEF Outcomes, Early
    <3>2. QED
      BY <1>0, <2>1, <2>2, <2>3, <3>1, FinalizeEffect
  <2>4. CASE Goto(w, "revert_post") /\ UNCHANGED receipt
    <3>1. /\ "revert_post" \in Steps \ Logging
          /\ pc' = [pc EXCEPT ![w] = "revert_post"]
          /\ "revert_post" \notin Before
      BY <2>4 DEF Steps, Logging, Goto, Before
    <3>2. QED
      BY <1>0, <2>1, <2>2, <2>4, <3>1, MoveEffect
  <2>5. QED
    BY <1>7, <2>3, <2>4 DEF Post, history
<1>8. ASSUME NEW w \in Workers, Revert(w) \/ RevertFails(w) \/ Reread(w)
      PROVE  EffectInv'
  <2>1. pc[w] # "idle" /\ UNCHANGED <<calls, call, ledger, inflight>>
    BY <1>8 DEF Revert, RevertFails, Reread, Reverting, history
  <2>2. OwnEffect(w)
    <3>1. \/ effects' = effects
          \/ \E x : effects' = [effects EXCEPT ![call[w]] = x]
      BY <1>8 DEF Revert, RevertFails, Reread, Undo, history
    <3>2. QED
      BY <1>a, <1>b, <2>1, <3>1 DEF OwnEffect
  <2>3. CASE Goto(w, "reread") /\ UNCHANGED receipt
    <3>1. /\ "reread" \in Steps \ Logging /\ pc' = [pc EXCEPT ![w] = "reread"]
          /\ "reread" \notin Before \union {"verify", "post"}
      BY <2>3 DEF Steps, Logging, Goto, Before
    <3>2. QED
      BY <1>0, <2>1, <2>2, <2>3, <3>1, MoveEffect
  <2>4. ASSUME NEW o \in {"ROLLED_BACK", "ESCALATED"}, NEW f \in BOOLEAN,
               Finalize(w, o, f)
        PROVE  EffectInv'
    <3>1. o \in Outcomes /\ o \notin Early /\ o # "COMMITTED"
      BY <2>4 DEF Outcomes, Early
    <3>2. QED
      BY <1>0, <2>1, <2>2, <2>4, <3>1, FinalizeEffect
  <2>5. CASE Revert(w)
    BY <2>3, <2>4, <2>5 DEF Revert, history
  <2>6. CASE RevertFails(w)
    BY <2>4, <2>6 DEF RevertFails, history
  <2>7. CASE Reread(w)
    BY <2>4, <2>7 DEF Reread, history
  <2>8. QED
    BY <1>8, <2>5, <2>6, <2>7
<1>9. ASSUME NEW w \in Workers, LogIntent(w) \/ LogReceipt(w) \/ LogFails(w)
      PROVE  EffectInv'
  <2>1. /\ pc[w] \in Logging
        /\ UNCHANGED <<calls, call, receipt, effects, inflight>>
    BY <1>9 DEF LogIntent, LogReceipt, LogFails, Logging, history
  <2>2. PICK s \in {"log_prev", "idle"} : pc' = [pc EXCEPT ![w] = s]
    BY <1>9 DEF LogIntent, LogReceipt, LogFails, Raise, Goto, history
  <2>3. s \in Logging \union {"idle"}
    BY <2>2 DEF Logging
  <2>4. \A r \in Stored' : r \in Stored \/ r = receipt[w]
    <3>1. CASE UNCHANGED ledger
      BY <3>1 DEF Stored
    <3>2. CASE pc[w] = "log_intent" /\ AppendEntry(IntentEntry(w))
      <4>1. AppendFacts(w, IntentEntry(w))
        BY <1>0, <3>2, IntentAppended
      <4>2. QED
        BY <4>1 DEF AppendFacts
    <3>3. CASE pc[w] = "log_receipt" /\ AppendEntry(ReceiptEntry(w))
      <4>1. AppendFacts(w, ReceiptEntry(w))
        BY <1>0, <3>3, ReceiptAppended
      <4>2. QED
        BY <4>1 DEF AppendFacts
    <3>4. QED
      BY <1>9, <3>1, <3>2, <3>3 DEF LogIntent, LogReceipt, LogFails, history
  <2>5. QED
    BY <1>0, <2>1, <2>2, <2>3, <2>4, LogEffect
<1>10. ASSUME NEW w \in Workers, LogPrev(w)
       PROVE  EffectInv'
  <2>1. /\ pc[w] = "log_prev" /\ pc[w] \in Logging
        /\ pc' = [pc EXCEPT ![w] = "log_receipt"]
        /\ "log_receipt" \in Logging \union {"idle"}
        /\ UNCHANGED <<calls, call, ledger, effects, inflight>>
    BY <1>10 DEF LogPrev, Goto, Logging, history
  <2>2. receipt[w] \in Receipt /\ receipt[w].call = call[w]
    BY <1>0, <2>1 DEF Prepared
  <2>3. /\ receipt'[w].call = receipt[w].call
        /\ receipt'[w].outcome = receipt[w].outcome
        /\ \A v \in Workers \ {w} : receipt'[v] = receipt[v]
    BY <1>0, <1>10, <2>2, PrevKept
  <2>4. Stored' = Stored
    BY <2>1 DEF Stored
  <2>5. QED
    BY <1>0, <2>1, <2>3, <2>4, LogEffect
<1>11. ASSUME Arrive
       PROVE  EffectInv'
  <2>1. PICK n \in inflight : inflight' = inflight \ {n} /\ Effect(n)
    BY <1>11 DEF Arrive, history
  <2>2. /\ effects' = [effects EXCEPT ![n] = "applied"] /\ n \in Calls
        /\ n \in 1 .. Len(calls)
        /\ UNCHANGED <<calls, call, pc, receipt, ledger>>
    BY <1>0, <1>a, <1>11, <2>1 DEF Effect, Arrive, Begun, history
  <2>3. \A m \in Calls : /\ effects'[m] \in {effects[m], "applied"}
                         /\ m \notin inflight => effects'[m] = effects[m]
                         /\ m \in inflight' => m \in inflight
    BY <1>a, <2>1, <2>2
  <2>4. ASSUME NEW r, r.call \in Calls, Truthful(r)
        PROVE  Truthful(r)'
    BY <2>3, <2>4 DEF Truthful
  <2>5. ASSUME NEW w \in Workers
        PROVE  /\ pc'[w] \in Before =>
                    effects'[call'[w]] = "none" /\ call'[w] \notin inflight'
               /\ pc'[w] \in {"verify", "post"} => effects'[call'[w]] = "applied"
               /\ pc'[w] \in Logging => Truthful(receipt[w])'
    <3>1. pc'[w] \in Before \union {"verify", "post"} \union Logging
            => call[w] \in Calls
      BY <1>b, <2>2 DEF Before, Logging
    <3>2. pc[w] \in Logging => receipt[w].call = call[w] /\ Truthful(receipt[w])
      BY <1>0 DEF Prepared, EffectInv
    <3>3. pc'[w] \in Logging => Truthful(receipt[w])'
      <4>1. SUFFICES ASSUME pc'[w] \in Logging
                     PROVE  Truthful(receipt[w])'
        OBVIOUS
      <4>2. /\ receipt'[w] = receipt[w] /\ receipt[w].call \in Calls
            /\ Truthful(receipt[w])
        BY <2>2, <3>1, <3>2, <4>1
      <4>3. QED
        BY <2>3, <4>2 DEF Truthful
    <3>4. QED
      BY <1>0, <2>2, <2>3, <3>1, <3>3 DEF EffectInv
  <2>6. \A r \in Stored' : Truthful(r)'
    <3>1. Stored' = Stored
      BY <2>2 DEF Stored
    <3>2. \A r \in Stored : r.call \in Calls
      BY <1>0, StoredType DEF Receipt
    <3>3. QED
      BY <1>0, <2>4, <3>1, <3>2 DEF EffectInv
  <2>7. \A m \in Calls : m \notin 1 .. Len(calls') => effects'[m] = "none"
    BY <1>0, <1>a, <2>2 DEF EffectInv
  <2>8. QED
    BY <2>5, <2>6, <2>7 DEF EffectInv
<1>12. ASSUME Crash \/ UNCHANGED vars
       PROVE  EffectInv'
  <2>1. /\ UNCHANGED <<calls, call, receipt, ledger, effects, inflight>>
        /\ \A w \in Workers : pc'[w] \in {pc[w], "idle"}
    BY <1>12 DEF Crash, vars, history
  <2>2. Stored' = Stored
    BY <2>1 DEF Stored
  <2>3. "idle" \notin Before \union Logging
    BY DEF Before, Logging
  <2>4. QED
    BY <1>0, <2>1, <2>2, <2>3 DEF EffectInv, Truthful
<1>13. QED
  BY <1>1, <1>2, <1>3, <1>4, <1>5, <1>6, <1>7, <1>8, <1>9, <1>10, <1>11, <1>12
  DEF Next, Step

\* Init and Next establish and keep the invariant.
LEMMA InvInit == Init => Inv
<1> SUFFICES ASSUME Init
             PROVE  Inv
  OBVIOUS
<1>1. TypeOK
  BY ConstantsAssumption DEF Init, TypeOK, Steps, Calls
<1>2. Stored = {}
  BY DEF Init, Stored
<1>3. OwnCall /\ Prepared /\ Logged
  BY <1>2 DEF Init, OwnCall, Prepared, Logged, Logging
<1>4. Begun
  BY DEF Init, Begun
<1>5. EffectInv
  BY <1>2 DEF Init, EffectInv, Before, Logging
<1>6. QED
  BY <1>1, <1>3, <1>4, <1>5 DEF Inv, BaseInv

\* See InvInit.
LEMMA InvStep == Inv /\ [Next]_vars => Inv'
  BY BaseStep, BegunStep, EffectStep DEF Inv

\* The state of execute_bind_adjudication is well typed: receipts carry an
\* outcome, a rollback status and a retry safety of the documented
\* vocabularies, and prev_bind_hash names a call.
THEOREM TypeCorrect == Spec => []TypeOK
<1>1. Inv => TypeOK
  BY DEF Inv, BaseInv
<1>2. QED
  BY <1>1, InvInit, InvStep, PTL DEF Spec

\* A stored receipt never claims what did not happen, however workers
\* interleave and whatever fails: COMMITTED was applied and is not undone by
\* its call, a refusal or an early failure has no effect, not even a late one.
THEOREM ReceiptsTellTruth == Spec => []ReceiptTruthful
<1>1. Inv => ReceiptTruthful
  BY DEF Inv, EffectInv, Truthful, ReceiptTruthful, Early
<1>2. QED
  BY <1>1, InvInit, InvStep, PTL DEF Spec
-----------------------------------------------------------------------------
(* Drift *)

\* Steps a worker reaches only through an open gate, up to its last effect.
Gated == {"apply", "verify", "post", "revert_apply", "revert_post", "revert_verify"}

DriftInv ==
  /\ \A n \in Calls :
       effects[n] # "none" \/ n \in inflight => snap[n] = expected[n]
  /\ \A w \in Workers : pc[w] \in Gated => snap[call[w]] = expected[call[w]]

\* Every policy in force requires the drift check.
DriftRequired == \A e \in Evidence : e.policy.drift_required

\* A step after the gate: an effect of the worker's own call at most.
LEMMA GatedKeeps ==
  ASSUME BaseInv, DriftInv, NEW w \in Workers, pc[w] # "idle",
         UNCHANGED <<snap, expected, call>>,
         \A v \in Workers \ {w} : pc'[v] = pc[v],
         pc'[w] \in Gated => pc[w] \in Gated,
         \A n \in Calls : \/ pc[w] \in Gated /\ n = call[w]
                          \/ /\ effects'[n] = effects[n]
                             /\ n \in inflight' => n \in inflight
  PROVE  DriftInv'
<1>1. \A v \in Workers : pc'[v] \in Gated => pc[v] \in Gated
  OBVIOUS
<1>2. ASSUME NEW n \in Calls, effects'[n] # "none" \/ n \in inflight'
      PROVE  snap[n] = expected[n]
  <2>1. CASE pc[w] \in Gated /\ n = call[w]
    BY <2>1 DEF DriftInv
  <2>2. CASE effects'[n] = effects[n] /\ (n \in inflight' => n \in inflight)
    BY <1>2, <2>2 DEF DriftInv
  <2>3. QED
    BY <2>1, <2>2
<1>3. QED
  BY <1>1, <1>2 DEF DriftInv

\* Every step keeps the drift invariant when the policy requires the check.
LEMMA DriftStep ==
  ASSUME DriftRequired
  PROVE  Inv /\ DriftInv /\ [Next]_vars => DriftInv'
<1> SUFFICES ASSUME Inv, DriftInv, [Next]_vars
             PROVE  DriftInv'
  OBVIOUS
<1>0. BaseInv /\ Begun /\ EffectInv /\ TypeOK /\ OwnCall
  BY DEF Inv, BaseInv
<1>a. /\ pc \in [Workers -> Steps]
      /\ effects \in [Calls -> {"none", "applied", "reverted"}]
      /\ inflight \subseteq Calls
      /\ snap \in [Calls -> SUBSET Intents] /\ expected \in [Calls -> SUBSET Intents]
  BY <1>0 DEF TypeOK
<1>b. \A w \in Workers : pc[w] # "idle" => call[w] \in Calls
  BY <1>0, TargetType DEF OwnCall
<1>1. ASSUME NEW w \in Workers, NEW i \in Intents, Submit(w, i)
      PROVE  DriftInv'
  <2> DEFINE m == Len(calls) + 1
  <2>1. m \in Calls /\ m \notin 1 .. Len(calls)
    <3>1. calls \in Seq(Intents) /\ Len(calls) < MaxCalls /\ MaxCalls \in Nat
      BY <1>0, <1>1, ConstantsAssumption DEF Submit, TypeOK, history
    <3>2. QED
      BY <3>1 DEF Calls
  <2>2. effects[m] = "none" /\ m \notin inflight
    BY <1>0, <2>1 DEF EffectInv, Begun
  <2>3. /\ pc'[w] = "dedupe" /\ snap' = snap
        /\ expected' = [expected EXCEPT ![m] = target]
        /\ \A v \in Workers \ {w} : call'[v] = call[v] /\ pc'[v] = pc[v]
        /\ UNCHANGED <<effects, inflight>>
    BY <1>0, <1>1 DEF Submit, Goto, TypeOK, history
  <2> HIDE DEF m
  <2>4. \A n \in Calls \ {m} : expected'[n] = expected[n]
    BY <1>a, <2>1, <2>3
  <2>5. \A n \in Calls : effects'[n] # "none" \/ n \in inflight' => snap'[n] = expected'[n]
    BY <2>2, <2>3, <2>4 DEF DriftInv
  <2>6. ASSUME NEW v \in Workers, pc'[v] \in Gated
        PROVE  snap'[call'[v]] = expected'[call'[v]]
    <3>1. v # w
      BY <2>3, <2>6 DEF Gated
    <3>2. pc[v] \in Gated /\ pc[v] # "idle" /\ call'[v] = call[v]
      BY <2>3, <2>6, <3>1 DEF Gated
    <3>3. call[v] \in Calls \ {m}
      BY <1>0, <1>b, <2>1, <3>2 DEF OwnCall
    <3>4. QED
      BY <2>3, <2>4, <3>2, <3>3 DEF DriftInv
  <2>7. QED
    BY <2>5, <2>6 DEF DriftInv
<1>2. ASSUME NEW w \in Workers, Adjudicate(w)
      PROVE  DriftInv'
  <2>1. /\ pc[w] = "snapshot" /\ call[w] \in Calls
        /\ snap' = [snap EXCEPT ![call[w]] = target]
        /\ UNCHANGED <<call, expected, effects, inflight>>
    BY <1>2, <1>b DEF Adjudicate, history
  <2>2. effects[call[w]] = "none" /\ call[w] \notin inflight
    BY <1>0, <2>1 DEF EffectInv, Before
  <2>3. snap'[call[w]] = target /\ \A n \in Calls \ {call[w]} : snap'[n] = snap[n]
    BY <1>a, <2>1
  <2>4. \A n \in Calls : effects'[n] # "none" \/ n \in inflight' => snap'[n] = expected'[n]
    BY <2>1, <2>2, <2>3 DEF DriftInv
  <2>5. PICK e \in Evidence :
          LET gate == Gate(GateInput(w, e)) IN
          \/ gate = "apply" /\ Goto(w, "apply") /\ UNCHANGED <<receipt, result>>
          \/ gate \in Outcomes /\ Finalize(w, gate, FALSE) /\ UNCHANGED result
          \/ gate = "raise" /\ Raise(w) /\ UNCHANGED receipt
    BY <1>2 DEF Adjudicate, history
  <2>6. /\ \A v \in Workers \ {w} : pc'[v] = pc[v]
        /\ pc'[w] \in Gated => Gate(GateInput(w, e)) = "apply"
    BY <1>a, <2>5 DEF Goto, Finalize, Raise, Gated
  <2>7. pc'[w] \in Gated => target = expected[call[w]]
    <3>1. GateInput(w, e) \in Inputs /\ GateInput(w, e).policy = e.policy
      BY GateInputType
    <3>2. GateInput(w, e).policy.drift_required
      BY <3>1 DEF DriftRequired
    <3>3. Gate(GateInput(w, e)) = "apply" => GateInput(w, e).drift = "same"
      BY <3>1, <3>2, GateSawSame
    <3>4. QED
      BY <2>6, <3>3, GateInputType
  <2>8. ASSUME NEW v \in Workers, pc'[v] \in Gated
        PROVE  snap'[call'[v]] = expected'[call'[v]]
    <3>1. CASE v = w
      BY <2>1, <2>3, <2>7, <2>8, <3>1
    <3>2. CASE v # w
      <4>1. pc[v] \in Gated /\ pc[v] # "idle" /\ pc[w] # "idle"
        BY <2>1, <2>6, <2>8, <3>2 DEF Gated
      <4>2. call[v] \in Calls \ {call[w]}
        BY <1>0, <1>b, <3>2, <4>1 DEF OwnCall
      <4>3. QED
        BY <2>1, <2>3, <4>1, <4>2 DEF DriftInv
    <3>3. QED
      BY <3>1, <3>2
  <2>9. QED
    BY <2>4, <2>8 DEF DriftInv
<1>3. ASSUME NEW w \in Workers, Apply(w) \/ ApplyRaises(w)
      PROVE  DriftInv'
  <2>1. /\ pc[w] = "apply" /\ pc[w] # "idle" /\ pc[w] \in Gated
        /\ UNCHANGED <<snap, expected, call>>
    BY <1>3 DEF Apply, ApplyRaises, Gated, history
  <2>2. \A v \in Workers \ {w} : pc'[v] = pc[v]
    BY <1>3, <1>a DEF Apply, ApplyRaises, Goto, Finalize, history
  <2>3. effects' = effects \/ effects' = [effects EXCEPT ![call[w]] = "applied"]
    BY <1>3 DEF Apply, ApplyRaises, Effect, history
  <2>4. inflight' \subseteq inflight \union {call[w]}
    BY <1>3 DEF Apply, ApplyRaises, history
  <2>5. \A n \in Calls : \/ pc[w] \in Gated /\ n = call[w]
                         \/ /\ effects'[n] = effects[n]
                            /\ n \in inflight' => n \in inflight
    BY <1>a, <1>b, <2>1, <2>3, <2>4
  <2>6. QED
    BY <1>0, <2>1, <2>2, <2>5, GatedKeeps
<1>4. ASSUME NEW w \in Workers, Revert(w) \/ RevertFails(w)
      PROVE  DriftInv'
  <2>1. /\ pc[w] # "idle" /\ pc[w] \in Gated
        /\ UNCHANGED <<snap, expected, call, inflight>>
    BY <1>4 DEF Revert, RevertFails, Reverting, Gated, history
  <2>2. \A v \in Workers \ {w} : pc'[v] = pc[v]
    BY <1>4, <1>a DEF Revert, RevertFails, Goto, Finalize, history
  <2>3. effects' = effects \/ \E x : effects' = [effects EXCEPT ![call[w]] = x]
    BY <1>4 DEF Revert, RevertFails, Undo, history
  <2>4. \A n \in Calls : \/ pc[w] \in Gated /\ n = call[w]
                         \/ /\ effects'[n] = effects[n]
                            /\ n \in inflight' => n \in inflight
    BY <1>a, <1>b, <2>1, <2>3
  <2>5. QED
    BY <1>0, <2>1, <2>2, <2>4, GatedKeeps
<1>5. ASSUME NEW w \in Workers,
             \/ Replay(w) \/ Fresh(w) \/ SnapshotFails(w) \/ Verify(w)
             \/ VerifyRaises(w) \/ Post(w) \/ Reread(w) \/ LogIntent(w)
             \/ LogPrev(w) \/ LogReceipt(w) \/ LogFails(w)
      PROVE  DriftInv'
  <2>1. pc[w] # "idle" /\ UNCHANGED <<snap, expected, call, inflight, effects>>
    BY <1>5 DEF Replay, Fresh, SnapshotFails, Verify, VerifyRaises, Post, Reread,
                LogIntent, LogPrev, LogReceipt, LogFails, history
  <2>2. /\ \A v \in Workers \ {w} : pc'[v] = pc[v]
        /\ pc'[w] \in Gated => pc[w] \in Gated
    <3>1. CASE Replay(w) \/ Fresh(w) \/ SnapshotFails(w)
      BY <1>a, <3>1 DEF Replay, Fresh, SnapshotFails, Goto, Finalize, Gated, history
    <3>2. CASE Verify(w) \/ VerifyRaises(w) \/ Post(w)
      BY <1>a, <3>2 DEF Verify, VerifyRaises, Post, Raise, Goto, Finalize, Gated, history
    <3>3. CASE \/ Reread(w) \/ LogIntent(w) \/ LogPrev(w) \/ LogReceipt(w)
               \/ LogFails(w)
      BY <1>a, <3>3 DEF Reread, LogIntent, LogPrev, LogReceipt, LogFails, Raise,
                        Goto, Finalize, Gated, history
    <3>4. QED
      BY <1>5, <3>1, <3>2, <3>3
  <2>3. QED
    BY <1>0, <2>1, <2>2, GatedKeeps
<1>6. ASSUME Arrive
      PROVE  DriftInv'
  <2>1. PICK n \in inflight : inflight' = inflight \ {n} /\ Effect(n)
    BY <1>6 DEF Arrive, history
  <2>2. /\ effects' = [effects EXCEPT ![n] = "applied"] /\ n \in Calls
        /\ UNCHANGED <<call, pc, snap, expected>>
    BY <1>6, <1>a, <2>1 DEF Effect, Arrive, history
  <2>3. \A k \in Calls : effects'[k] # "none" \/ k \in inflight'
                           => effects[k] # "none" \/ k \in inflight
    BY <1>a, <2>1, <2>2
  <2>4. QED
    BY <2>2, <2>3 DEF DriftInv
<1>7. ASSUME Crash \/ UNCHANGED vars
      PROVE  DriftInv'
  <2>1. /\ UNCHANGED <<call, snap, expected, effects, inflight>>
        /\ \A w \in Workers : pc'[w] \in {pc[w], "idle"}
    BY <1>7 DEF Crash, vars, history
  <2>2. "idle" \notin Gated
    BY DEF Gated
  <2>3. QED
    BY <2>1, <2>2 DEF DriftInv
<1>8. QED
  BY <1>1, <1>2, <1>3, <1>4, <1>5, <1>6, <1>7 DEF Next, Step

\* With drift checking required, a call has an effect (its own, a late one or
\* its undoing) only if its pre_snapshot was the state the intent was formed
\* against, however many workers change the target in between.
THEOREM DriftIsChecked ==
  ASSUME DriftRequired
  PROVE  Spec => []DriftChecked
<1>1. Init => DriftInv
  BY DEF Init, DriftInv, Gated
<1>2. Inv /\ DriftInv /\ [Next]_vars => DriftInv'
  BY DriftStep
<1>3. DriftInv => DriftChecked
  BY DEF DriftInv, DriftChecked
<1>4. QED
  BY <1>1, <1>2, <1>3, InvInit, InvStep, PTL DEF Spec
-----------------------------------------------------------------------------
(* What a step leaves alone *)

\* A step of worker w belongs to its own call and touches no other worker.
LEMMA WorkerFrame ==
  ASSUME Inv, NEW w \in Workers, Step(w)
  PROVE  /\ pc[w] # "idle" /\ call[w] \in 1 .. Len(calls) /\ call[w] \in Calls
         /\ UNCHANGED <<calls, call>>
         /\ \A v \in Workers \ {w} :
              pc'[v] = pc[v] /\ receipt'[v] = receipt[v] /\ result'[v] = result[v]
<1>0. /\ TypeOK /\ OwnCall /\ pc \in [Workers -> Steps]
      /\ receipt \in [Workers -> Receipt \union {NoReceipt}]
      /\ result \in [Workers -> Receipt \union {NoReceipt, Raised}]
  BY DEF Inv, BaseInv, TypeOK
<1>1. CASE Replay(w) \/ Fresh(w) \/ SnapshotFails(w) \/ Adjudicate(w)
  <2>1. /\ pc[w] # "idle" /\ UNCHANGED <<calls, call>>
    BY <1>1 DEF Replay, Fresh, SnapshotFails, Adjudicate, history
  <2>2. \A v \in Workers \ {w} :
          pc'[v] = pc[v] /\ receipt'[v] = receipt[v] /\ result'[v] = result[v]
    <3>1. CASE Replay(w)
      BY <1>0, <3>1 DEF Replay, Goto, history
    <3>2. CASE Fresh(w) \/ SnapshotFails(w)
      BY <1>0, <3>2 DEF Fresh, SnapshotFails, Finalize, Goto, history
    <3>3. CASE Adjudicate(w)
      BY <1>0, <3>3 DEF Adjudicate, Finalize, Raise, Goto, history
    <3>4. QED
      BY <1>1, <3>1, <3>2, <3>3
  <2>3. QED
    BY <1>0, <2>1, <2>2, TargetType DEF OwnCall
<1>2. CASE \/ Apply(w) \/ ApplyRaises(w) \/ Verify(w) \/ VerifyRaises(w)
           \/ Post(w)
  <2>1. /\ pc[w] # "idle" /\ UNCHANGED <<calls, call>>
    BY <1>2 DEF Apply, ApplyRaises, Verify, VerifyRaises, Post, history
  <2>2. \A v \in Workers \ {w} :
          pc'[v] = pc[v] /\ receipt'[v] = receipt[v] /\ result'[v] = result[v]
    BY <1>0, <1>2 DEF Apply, ApplyRaises, Verify, VerifyRaises, Post, Finalize,
                      Raise, Goto, history
  <2>3. QED
    BY <1>0, <2>1, <2>2, TargetType DEF OwnCall
<1>3. CASE Revert(w) \/ RevertFails(w) \/ Reread(w)
  <2>1. /\ pc[w] # "idle" /\ UNCHANGED <<calls, call>>
    BY <1>3 DEF Revert, RevertFails, Reread, Reverting, history
  <2>2. \A v \in Workers \ {w} :
          pc'[v] = pc[v] /\ receipt'[v] = receipt[v] /\ result'[v] = result[v]
    BY <1>0, <1>3 DEF Revert, RevertFails, Reread, Finalize, Goto, history
  <2>3. QED
    BY <1>0, <2>1, <2>2, TargetType DEF OwnCall
<1>4. CASE LogIntent(w) \/ LogPrev(w) \/ LogReceipt(w) \/ LogFails(w)
  <2>1. /\ pc[w] # "idle" /\ UNCHANGED <<calls, call>>
    BY <1>4 DEF LogIntent, LogPrev, LogReceipt, LogFails, history
  <2>2. \A v \in Workers \ {w} :
          pc'[v] = pc[v] /\ receipt'[v] = receipt[v] /\ result'[v] = result[v]
    BY <1>0, <1>4 DEF LogIntent, LogPrev, LogReceipt, LogFails, Raise, Goto, history
  <2>3. QED
    BY <1>0, <2>1, <2>2, TargetType DEF OwnCall
<1>5. QED
  BY <1>1, <1>2, <1>3, <1>4 DEF Step

\* A receipt that is stored stays stored, also across a rotation.
LEMMA StoredStays ==
  ASSUME TypeOK, NEW e \in Entries, AppendEntry(e)
  PROVE  /\ Stored \subseteq Stored'
         /\ e.kind = "receipt" => e.receipt \in Stored'
         /\ base' = 0 => base = 0
<1>0. ledger \in Seq(Entries) /\ Len(ledger) \in Nat
  BY DEF TypeOK
<1>1. /\ Len(ledger) \in Nat /\ Len(ledger') = Len(ledger) + 1
      /\ \A p \in 1 .. Len(ledger) : ledger'[p] = ledger[p]
      /\ ledger'[Len(ledger) + 1] = e
  BY <1>0, AppendType
<1>2. Stored \subseteq Stored'
  <2>1. SUFFICES ASSUME NEW r \in Stored
                 PROVE  r \in Stored'
    OBVIOUS
  <2>2. PICK p \in 1 .. Len(ledger) :
          ledger[p].kind = "receipt" /\ r = ledger[p].receipt
    BY DEF Stored
  <2>3. p \in 1 .. Len(ledger') /\ ledger'[p] = ledger[p]
    BY <1>1
  <2>4. QED
    BY <2>2, <2>3 DEF Stored
<1>3. e.kind = "receipt" => e.receipt \in Stored'
  <2>1. Len(ledger) + 1 \in 1 .. Len(ledger')
    BY <1>1
  <2>2. QED
    BY <1>1, <2>1 DEF Stored
<1>4. base' = 0 => base = 0
  BY DEF AppendEntry, TypeOK
<1>5. QED
  BY <1>2, <1>3, <1>4

\* What a step does to the TrustLog: nothing, or worker w appends one of its
\* two entries.
LEMMA LedgerStep ==
  ASSUME Inv, [Next]_vars
  PROVE  \/ UNCHANGED <<ledger, base>> /\ Stored' = Stored
         \/ \E w \in Workers, e \in Entries :
              /\ AppendEntry(e)
              /\ LogIntent(w) \/ LogReceipt(w) \/ LogFails(w)
              /\ e.call = call[w]
              /\ e.kind = "receipt" => /\ pc[w] = "log_receipt"
                                       /\ e.receipt = receipt[w]
                                       /\ pc' = [pc EXCEPT ![w] = "idle"]
<1>0. TypeOK /\ OwnCall /\ Prepared
  BY DEF Inv, BaseInv
<1>1. ASSUME NEW w \in Workers, LogIntent(w) \/ LogReceipt(w) \/ LogFails(w),
             ~UNCHANGED <<ledger, base>>
      PROVE  \E e \in Entries :
               /\ AppendEntry(e)
               /\ e.call = call[w]
               /\ e.kind = "receipt" => /\ pc[w] = "log_receipt"
                                        /\ e.receipt = receipt[w]
                                        /\ pc' = [pc EXCEPT ![w] = "idle"]
  <2>1. pc[w] \in Logging /\ pc[w] # "idle"
    BY <1>1 DEF LogIntent, LogReceipt, LogFails, Logging, history
  <2>2. call[w] \in Calls
    BY <1>0, <2>1, TargetType DEF OwnCall
  <2>3. receipt[w] \in Receipt
    BY <1>0, <2>1 DEF Prepared
  <2>4. /\ IntentEntry(w) \in Entries /\ IntentEntry(w).kind = "intent"
        /\ IntentEntry(w).call = call[w]
    BY <2>2 DEF IntentEntry, Entries
  <2>5. /\ ReceiptEntry(w) \in Entries /\ ReceiptEntry(w).call = call[w]
        /\ ReceiptEntry(w).receipt = receipt[w]
    BY <2>2, <2>3 DEF ReceiptEntry, Entries
  <2>6. CASE AppendEntry(IntentEntry(w))
    BY <2>4, <2>6
  <2>7. CASE ~AppendEntry(IntentEntry(w))
    <3>1. /\ AppendEntry(ReceiptEntry(w)) /\ pc[w] = "log_receipt"
          /\ pc' = [pc EXCEPT ![w] = "idle"]
      BY <1>1, <2>7 DEF LogIntent, LogReceipt, LogFails, Raise, Goto, history
    <3>2. QED
      BY <2>5, <3>1
  <2>8. QED
    BY <2>6, <2>7
<1>2. ASSUME UNCHANGED <<ledger, base>>
      PROVE  Stored' = Stored
  BY <1>2 DEF Stored
<1>3. ASSUME NEW w \in Workers,
             Step(w), ~(LogIntent(w) \/ LogReceipt(w) \/ LogFails(w))
      PROVE  UNCHANGED <<ledger, base>>
  BY <1>3 DEF Step, Replay, Fresh, SnapshotFails, Adjudicate, Apply, ApplyRaises,
              Verify, VerifyRaises, Post, Revert, RevertFails, Reread, LogPrev, history
<1>4. ASSUME NEW w \in Workers, NEW i \in Intents, Submit(w, i)
      PROVE  UNCHANGED <<ledger, base>>
  BY <1>4 DEF Submit, history
<1>5. ASSUME Arrive \/ Crash \/ UNCHANGED vars
      PROVE  UNCHANGED <<ledger, base>>
  BY <1>5 DEF Arrive, Crash, vars, history
<1>6. QED
  BY <1>1, <1>2, <1>3, <1>4, <1>5 DEF Next

-----------------------------------------------------------------------------
(* What callers are told *)

\* A stored receipt, but for retry_safety, which a replay sets to SAFE.
OnLedger(q, stored) ==
  q.outcome \in Outcomes => \E r \in stored : q = [r EXCEPT !.retry = q.retry]

\* A receipt is what it is with its own retry_safety.
LEMMA OwnRetry ==
  ASSUME NEW q \in Receipt
  PROVE  q = [q EXCEPT !.retry = q.retry]
  BY DEF Receipt

\* A replayed receipt carries the retry_safety it is given.
LEMMA SafeRetry ==
  ASSUME NEW q \in Receipt
  PROVE  [q EXCEPT !.retry = "SAFE"].retry = "SAFE"
  BY DEF Receipt

\* Every step keeps what was returned stored.
LEMMA ReturnedStep == Inv /\ ReturnedIsStored /\ [Next]_vars => ReturnedIsStored'
<1> SUFFICES ASSUME Inv, ReturnedIsStored, [Next]_vars
             PROVE  ReturnedIsStored'
  OBVIOUS
<1>0. /\ TypeOK /\ OwnCall /\ Prepared
      /\ result \in [Workers -> Receipt \union {NoReceipt, Raised}]
  BY DEF Inv, BaseInv, TypeOK
<1>1. Stored \subseteq Stored'
  BY <1>0, LedgerStep, StoredStays
<1>2. \A w \in Workers : OnLedger(result[w], Stored)
  BY DEF ReturnedIsStored, OnLedger
<1>3. \A w \in Workers : OnLedger(result[w], Stored')
  BY <1>1, <1>2 DEF OnLedger
<1>4. OnLedger(NoReceipt, Stored') /\ OnLedger(Raised, Stored')
  BY DEF OnLedger, NoReceipt, Raised, Outcomes
<1>5. SUFFICES \A w \in Workers : OnLedger(result'[w], Stored')
  BY DEF ReturnedIsStored, OnLedger
<1>6. ASSUME NEW w \in Workers, NEW i \in Intents, Submit(w, i)
      PROVE  \A v \in Workers : OnLedger(result'[v], Stored')
  <2>1. \A v \in Workers : result'[v] \in {result[v], NoReceipt}
    BY <1>0, <1>6 DEF Submit, history
  <2>2. QED
    BY <1>3, <1>4, <2>1
<1>7. ASSUME NEW w \in Workers, Step(w)
      PROVE  OnLedger(result'[w], Stored')
  <2>1. CASE Replay(w)
    <3>1. PICK p \in Latest(ActiveReceipts(Intent(w))) :
            result' = [result EXCEPT ![w] =
                         [ledger[p].receipt EXCEPT !.retry = "SAFE"]]
      BY <2>1 DEF Replay, history
    <3>2. p \in 1 .. Len(ledger) /\ ledger[p].kind = "receipt"
      BY <1>0, <3>1 DEF Latest, ActiveReceipts, TypeOK
    <3>3. ledger[p].receipt \in Stored /\ ledger[p].receipt \in Receipt
      BY <1>0, <3>2, StoredType DEF Stored
    <3> DEFINE q == ledger[p].receipt
    <3>4. result'[w] = [q EXCEPT !.retry = "SAFE"]
      BY <1>0, <3>1
    <3>5. q \in Stored' /\ q \in Receipt
      BY <1>1, <3>3
    <3> HIDE DEF q
    <3>6. result'[w].retry = "SAFE"
      BY <3>4, <3>5, SafeRetry
    <3>7. QED
      BY <3>4, <3>5, <3>6 DEF OnLedger
  <2>2. CASE LogReceipt(w)
    <3>1. /\ pc[w] = "log_receipt" /\ pc[w] # "idle" /\ pc[w] \in Logging
          /\ AppendEntry(ReceiptEntry(w))
          /\ result' = [result EXCEPT ![w] = receipt[w]]
      BY <2>2 DEF LogReceipt, Logging, history
    <3>2. receipt[w] \in Receipt /\ call[w] \in Calls
      BY <1>0, <3>1, TargetType DEF Prepared, OwnCall
    <3>3. /\ ReceiptEntry(w) \in Entries /\ ReceiptEntry(w).kind = "receipt"
          /\ ReceiptEntry(w).receipt = receipt[w]
      BY <3>2 DEF ReceiptEntry, Entries
    <3>4. receipt[w] \in Stored'
      BY <1>0, <3>1, <3>3, StoredStays
    <3>5. result'[w] = receipt[w]
      BY <1>0, <3>1
    <3>6. QED
      BY <3>2, <3>4, <3>5, OwnRetry DEF OnLedger
  <2>3. CASE ~Replay(w) /\ ~LogReceipt(w)
    <3>1. result'[w] \in {result[w], Raised}
      <4>1. CASE Fresh(w) \/ SnapshotFails(w) \/ Apply(w) \/ ApplyRaises(w)
        BY <4>1 DEF Fresh, SnapshotFails, Apply, ApplyRaises, history
      <4>2. CASE Adjudicate(w)
        BY <1>0, <4>2 DEF Adjudicate, Raise, history
      <4>3. CASE Verify(w) \/ VerifyRaises(w) \/ Post(w)
        BY <1>0, <4>3 DEF Verify, VerifyRaises, Post, Raise, history
      <4>4. CASE \/ Revert(w) \/ RevertFails(w) \/ Reread(w) \/ LogIntent(w)
                 \/ LogPrev(w) \/ LogFails(w)
        BY <1>0, <4>4 DEF Revert, RevertFails, Reread, LogIntent, LogPrev,
                          LogFails, Raise, history
      <4>5. QED
        BY <1>7, <2>3, <4>1, <4>2, <4>3, <4>4 DEF Step
    <3>2. QED
      BY <1>3, <1>4, <3>1
  <2>4. QED
    BY <2>1, <2>2, <2>3
<1>8. ASSUME NEW w \in Workers, Step(w), NEW v \in Workers
      PROVE  OnLedger(result'[v], Stored')
  <2>1. CASE v = w
    BY <1>7, <1>8, <2>1
  <2>2. CASE v # w
    BY <1>3, <1>8, <2>2, WorkerFrame
  <2>3. QED
    BY <2>1, <2>2
<1>9. ASSUME Arrive \/ Crash \/ UNCHANGED vars
      PROVE  \A w \in Workers : OnLedger(result'[w], Stored')
  <2>1. \A w \in Workers : result'[w] \in {result[w], NoReceipt}
    BY <1>9 DEF Arrive, Crash, vars, history
  <2>2. QED
    BY <1>3, <1>4, <2>1
<1>10. QED
  BY <1>6, <1>8, <1>9 DEF Next

\* A caller is never told of a receipt that is not on the TrustLog: what
\* execute_bind_adjudication returns, its own receipt or a replayed one, has
\* been stored, whatever the other workers, the adapter or a rotation do.
THEOREM ReturnedReceiptsStored == Spec => []ReturnedIsStored
<1>1. Init => ReturnedIsStored
  BY DEF Init, ReturnedIsStored, NoReceipt, Outcomes
<1>2. QED
  BY <1>1, InvInit, InvStep, ReturnedStep, PTL DEF Spec
-----------------------------------------------------------------------------
(* Repeated submissions *)

\* A step of worker w has no effect in the name of another call.
LEMMA StepOwnEffect ==
  ASSUME Inv, NEW w \in Workers, Step(w)
  PROVE  OwnEffect(w)
<1>0. /\ effects \in [Calls -> {"none", "applied", "reverted"}]
      /\ call[w] \in Calls
  BY WorkerFrame DEF Inv, BaseInv, TypeOK
<1>1. \/ effects' = effects
      \/ \E x : effects' = [effects EXCEPT ![call[w]] = x]
  BY DEF Step, Replay, Fresh, SnapshotFails, Adjudicate, Apply, ApplyRaises,
         Verify, VerifyRaises, Post, Revert, RevertFails, Reread, LogIntent,
         LogPrev, LogReceipt, LogFails, Effect, Undo, history
<1>2. inflight' \in {inflight, inflight \union {call[w]}}
  BY DEF Step, Replay, Fresh, SnapshotFails, Adjudicate, Apply, ApplyRaises,
         Verify, VerifyRaises, Post, Revert, RevertFails, Reread, LogIntent,
         LogPrev, LogReceipt, LogFails, history
<1>3. QED
  BY <1>0, <1>1, <1>2 DEF OwnEffect

\* Entries name the call of their receipt, and a call began with entries that
\* are still there.
EntryInv ==
  /\ \A p \in 1 .. Len(ledger) :
       ledger[p].kind = "receipt" => ledger[p].receipt.call = ledger[p].call
  /\ \A n \in 1 .. Len(calls) : begun[n] \in Nat /\ begun[n] =< Len(ledger)

\* What a step does to the ledger and to the calls that have begun.
LEMMA HistoryStep ==
  ASSUME Inv, EntryInv, [Next]_vars
  PROVE  /\ Len(ledger) \in Nat /\ Len(ledger') \in Nat
         /\ Len(ledger) =< Len(ledger')
         /\ \A p \in 1 .. Len(ledger) : ledger'[p] = ledger[p]
         /\ base \in Nat /\ base' \in Nat /\ base =< base'
         /\ Len(calls) \in Nat /\ Len(calls') \in Nat /\ Len(calls) =< Len(calls')
         /\ \A n \in 1 .. Len(calls) : calls'[n] = calls[n] /\ begun'[n] = begun[n]
<1>0. /\ TypeOK /\ Len(ledger) \in Nat /\ base \in Nat /\ base =< Len(ledger)
      /\ calls \in Seq(Intents) /\ Len(calls) \in Nat /\ Len(calls) =< MaxCalls
      /\ begun \in [Calls -> Nat] /\ MaxCalls \in Nat
  BY ConstantsAssumption DEF Inv, BaseInv, TypeOK
<1>1. /\ Len(ledger') \in Nat /\ Len(ledger) =< Len(ledger')
      /\ \A p \in 1 .. Len(ledger) : ledger'[p] = ledger[p]
      /\ base' \in Nat /\ base =< base'
  <2>1. CASE UNCHANGED <<ledger, base>>
    BY <1>0, <2>1
  <2>2. CASE ~UNCHANGED <<ledger, base>>
    <3>1. PICK e \in Entries : AppendEntry(e)
      BY <2>2, LedgerStep
    <3>2. base' \in {base, Len(ledger)}
      BY <3>1 DEF AppendEntry
    <3>3. QED
      BY <1>0, <3>1, <3>2, AppendType
  <2>3. QED
    BY <2>1, <2>2
<1>2. CASE UNCHANGED <<calls, begun>>
  BY <1>0, <1>1, <1>2
<1>3. ASSUME NEW w \in Workers, NEW i \in Intents, Submit(w, i)
      PROVE  /\ Len(calls') \in Nat /\ Len(calls) =< Len(calls')
             /\ \A n \in 1 .. Len(calls) : calls'[n] = calls[n] /\ begun'[n] = begun[n]
  <2>1. /\ calls' = Append(calls, i)
        /\ begun' = [begun EXCEPT ![Len(calls) + 1] = Len(ledger)]
    BY <1>3 DEF Submit
  <2>2. \A n \in 1 .. Len(calls) : n \in Calls /\ n # Len(calls) + 1
    BY <1>0 DEF Calls
  <2>3. QED
    BY <1>0, <2>1, <2>2
<1>4. ASSUME NEW w \in Workers, Step(w)
      PROVE  UNCHANGED <<calls, begun>>
  <2>1. UNCHANGED calls
    BY <1>4, WorkerFrame
  <2>2. UNCHANGED begun
    BY <1>4 DEF Step, Replay, Fresh, SnapshotFails, Adjudicate, Apply, ApplyRaises,
         Verify, VerifyRaises, Post, Revert, RevertFails, Reread, LogIntent,
         LogPrev, LogReceipt, LogFails, history
  <2>3. QED
    BY <2>1, <2>2
<1>5. ASSUME Arrive \/ Crash \/ UNCHANGED vars
      PROVE  UNCHANGED <<calls, begun>>
  BY <1>5 DEF Arrive, Crash, vars, history
<1>6. QED
  BY <1>0, <1>1, <1>2, <1>3, <1>4, <1>5 DEF Next

\* The entries stay in order.
LEMMA EntryStep ==
  ASSUME Inv, EntryInv, [Next]_vars
  PROVE  EntryInv'
<1>0. /\ TypeOK /\ Prepared /\ Len(ledger) \in Nat /\ calls \in Seq(Intents)
      /\ Len(calls) \in Nat /\ Len(calls) =< MaxCalls
      /\ begun \in [Calls -> Nat] /\ MaxCalls \in Nat
  BY ConstantsAssumption DEF Inv, BaseInv, TypeOK
<1>1. \A p \in 1 .. Len(ledger') :
        ledger'[p].kind = "receipt" => ledger'[p].receipt.call = ledger'[p].call
  <2>1. CASE UNCHANGED <<ledger, base>>
    BY <2>1 DEF EntryInv
  <2>2. CASE ~UNCHANGED <<ledger, base>>
    <3>1. PICK w \in Workers, e \in Entries :
            /\ AppendEntry(e)
            /\ e.call = call[w]
            /\ e.kind = "receipt" => pc[w] = "log_receipt" /\ e.receipt = receipt[w]
      BY <2>2, LedgerStep
    <3>2. e.kind = "receipt" => e.receipt.call = e.call
      BY <1>0, <3>1 DEF Prepared, Logging
    <3>3. /\ Len(ledger') = Len(ledger) + 1
          /\ \A p \in 1 .. Len(ledger) : ledger'[p] = ledger[p]
          /\ ledger'[Len(ledger) + 1] = e
      BY <1>0, <3>1, AppendType
    <3>4. \A p \in 1 .. Len(ledger') : p \in 1 .. Len(ledger) \/ p = Len(ledger) + 1
      BY <1>0, <3>3
    <3>5. QED
      BY <3>2, <3>3, <3>4 DEF EntryInv
  <2>3. QED
    BY <2>1, <2>2
<1>2. ASSUME NEW n \in 1 .. Len(calls')
      PROVE  begun'[n] \in Nat /\ begun'[n] =< Len(ledger')
  <2>1. CASE n \in 1 .. Len(calls)
    BY <2>1, HistoryStep DEF EntryInv
  <2>2. CASE n \notin 1 .. Len(calls)
    <3>1. PICK w \in Workers, i \in Intents : Submit(w, i)
      <4>1. \A w \in Workers : Step(w) => calls' = calls
        BY WorkerFrame
      <4>2. Arrive \/ Crash \/ UNCHANGED vars => calls' = calls
        BY DEF Arrive, Crash, vars
      <4>3. QED
        BY <1>2, <2>2, <4>1, <4>2 DEF Next
    <3>2. /\ calls' = Append(calls, i) /\ Len(calls) < MaxCalls
          /\ begun' = [begun EXCEPT ![Len(calls) + 1] = Len(ledger)]
          /\ ledger' = ledger
      BY <3>1 DEF Submit
    <3>3. n = Len(calls) + 1 /\ n \in Calls
      BY <1>0, <1>2, <2>2, <3>2 DEF Calls
    <3>4. QED
      BY <1>0, <3>2, <3>3
  <2>3. QED
    BY <2>1, <2>2
<1>3. QED
  BY <1>1, <1>2 DEF EntryInv

\* The active file held a receipt of the intent as call n began.
Answered(n) ==
  \E p \in (base + 1) .. Len(ledger) :
    /\ ledger[p].kind = "receipt" /\ p =< begun[n]
    /\ calls[n] = calls[ledger[p].call]

\* Call n has done nothing and gets no further than the idempotency lookup.
Inert(n) ==
  /\ effects[n] = "none"
  /\ n \notin inflight
  /\ \A w \in Workers : pc[w] # "idle" /\ call[w] = n => pc[w] = "dedupe"

ReplayInv ==
  \A n \in 1 .. Len(calls) :
    calls[n] \in Keyed /\ n \notin unread /\ Answered(n) => Inert(n)

\* A call is answered from the start, or never: rotation only forgets.
LEMMA AnsweredBefore ==
  ASSUME Inv, EntryInv, [Next]_vars, NEW n \in 1 .. Len(calls), Answered(n)'
  PROVE  Answered(n)
<1>1. PICK p \in (base' + 1) .. Len(ledger') :
        /\ ledger'[p].kind = "receipt" /\ p =< begun'[n]
        /\ calls'[n] = calls'[ledger'[p].call]
  BY DEF Answered
<1>2. begun'[n] = begun[n] /\ calls'[n] = calls[n]
  BY HistoryStep
<1>3. begun[n] \in Nat /\ begun[n] =< Len(ledger)
  BY DEF EntryInv
<1>4. p \in (base + 1) .. Len(ledger) /\ p \in 1 .. Len(ledger)
  BY <1>1, <1>2, <1>3, HistoryStep
<1>5. ledger'[p] = ledger[p]
  BY <1>4, HistoryStep
<1>6. ledger[p].call \in 1 .. Len(calls)
  BY <1>4 DEF Inv, BaseInv, Logged
<1>7. calls'[ledger[p].call] = calls[ledger[p].call]
  BY <1>6, HistoryStep
<1>8. QED
  BY <1>1, <1>2, <1>4, <1>5, <1>7 DEF Answered

\* A worker whose call is answered finds the receipt, or fails to read the file.
LEMMA AnsweredReplays ==
  ASSUME Inv, NEW w \in Workers, Step(w), pc[w] = "dedupe",
         Intent(w) \in Keyed, Answered(call[w])
  PROVE  Replay(w) \/ call[w] \in unread'
<1>1. ActiveReceipts(Intent(w)) # {}
  BY DEF Answered, ActiveReceipts, Intent
<1>2. CASE Fresh(w)
  BY <1>1, <1>2 DEF Fresh, ReplayEnabled
<1>3. CASE ~Fresh(w)
  BY <1>3 DEF Step, SnapshotFails, Adjudicate, Apply, ApplyRaises, Verify,
              VerifyRaises, Post, Revert, RevertFails, Reverting, Reread,
              LogIntent, LogPrev, LogReceipt, LogFails
<1>4. QED
  BY <1>2, <1>3

\* A failed lookup is not forgotten.
LEMMA UnreadStays ==
  ASSUME [Next]_vars
  PROVE  unread \subseteq unread'
  BY DEF Next, Step, Submit, Replay, Fresh, SnapshotFails, Adjudicate, Apply,
         ApplyRaises, Verify, VerifyRaises, Post, Revert, RevertFails, Reread,
         LogIntent, LogPrev, LogReceipt, LogFails, Arrive, Crash, vars, history

\* Every step keeps answered calls without effect, however many workers run.
LEMMA ReplayStep ==
  ASSUME Inv, EntryInv, ReplayInv, [Next]_vars
  PROVE  ReplayInv'
<1>0. /\ TypeOK /\ OwnCall /\ Begun /\ EffectInv
      /\ pc \in [Workers -> Steps] /\ call \in [Workers -> 0 .. MaxCalls]
      /\ effects \in [Calls -> {"none", "applied", "reverted"}]
      /\ calls \in Seq(Intents) /\ Len(calls) \in Nat /\ Len(calls) =< MaxCalls
      /\ MaxCalls \in Nat
  BY ConstantsAssumption DEF Inv, BaseInv, TypeOK
<1>a. \A n \in 1 .. Len(calls) : n \in Calls
  BY <1>0 DEF Calls
<1>b. ASSUME NEW n \in 1 .. Len(calls), calls'[n] \in Keyed, n \notin unread',
             Answered(n)'
      PROVE  Inert(n) /\ Answered(n) /\ calls[n] \in Keyed
  <2>1. n \notin unread
    BY <1>b, UnreadStays
  <2>2. calls[n] \in Keyed
    BY <1>b, HistoryStep
  <2>3. QED
    BY <1>b, <2>1, <2>2, AnsweredBefore DEF ReplayInv
<1>1. ASSUME NEW w \in Workers, NEW i \in Intents, Submit(w, i)
      PROVE  ReplayInv'
  <2>1. /\ pc[w] = "idle" /\ calls' = Append(calls, i) /\ Len(calls) < MaxCalls
        /\ call' = [call EXCEPT ![w] = Len(calls) + 1]
        /\ pc' = [pc EXCEPT ![w] = "dedupe"]
        /\ UNCHANGED <<effects, inflight>>
    BY <1>1 DEF Submit, Goto
  <2>2. /\ Len(calls') = Len(calls) + 1
        /\ call'[w] = Len(calls) + 1 /\ pc'[w] = "dedupe"
        /\ \A v \in Workers \ {w} : call'[v] = call[v] /\ pc'[v] = pc[v]
    BY <1>0, <2>1
  <2>3. ASSUME NEW n \in 1 .. Len(calls'), calls'[n] \in Keyed, n \notin unread',
               Answered(n)'
        PROVE  Inert(n)'
    <3>1. CASE n = Len(calls) + 1
      <4>1. n \in Calls /\ n \notin 1 .. Len(calls)
        BY <1>0, <2>1, <3>1 DEF Calls
      <4>2. effects[n] = "none" /\ n \notin inflight
        BY <1>0, <4>1 DEF EffectInv, Begun
      <4>3. \A v \in Workers \ {w} : pc[v] # "idle" => call[v] # n
        BY <1>0, <4>1 DEF OwnCall
      <4>4. QED
        BY <2>1, <2>2, <4>2, <4>3 DEF Inert
    <3>2. CASE n # Len(calls) + 1
      <4>1. n \in 1 .. Len(calls)
        BY <1>0, <2>2, <3>2
      <4>2. Inert(n)
        BY <1>b, <2>3, <4>1
      <4>3. QED
        BY <2>1, <2>2, <3>2, <4>2 DEF Inert
    <3>3. QED
      BY <3>1, <3>2
  <2>4. QED
    BY <2>3 DEF ReplayInv
<1>2. ASSUME NEW w \in Workers, Step(w)
      PROVE  ReplayInv'
  <2>1. /\ pc[w] # "idle" /\ UNCHANGED <<calls, call>>
        /\ \A v \in Workers \ {w} : pc'[v] = pc[v]
    BY <1>2, WorkerFrame
  <2>2. OwnEffect(w)
    BY <1>2, StepOwnEffect
  <2>3. ASSUME NEW n \in 1 .. Len(calls), calls'[n] \in Keyed, n \notin unread',
               Answered(n)'
        PROVE  Inert(n)'
    <3>1. Inert(n) /\ Answered(n) /\ calls[n] \in Keyed
      BY <1>b, <2>3
    <3>2. CASE n # call[w]
      <4>1. effects'[n] = effects[n] /\ (n \in inflight' => n \in inflight)
        BY <1>a, <2>2, <3>2 DEF OwnEffect
      <4>2. QED
        BY <2>1, <3>1, <3>2, <4>1 DEF Inert
    <3>3. CASE n = call[w]
      <4>1. pc[w] = "dedupe"
        BY <2>1, <3>1, <3>3 DEF Inert
      <4>2. Replay(w)
        BY <1>2, <2>3, <3>1, <3>3, <4>1, AnsweredReplays DEF Intent
      <4>3. UNCHANGED <<effects, inflight>> /\ pc'[w] = "idle"
        BY <1>0, <4>2 DEF Replay, Goto
      <4>4. QED
        BY <2>1, <3>1, <4>3 DEF Inert
    <3>4. QED
      BY <3>2, <3>3
  <2>4. QED
    BY <2>1, <2>3 DEF ReplayInv
<1>3. ASSUME UNCHANGED <<calls, call>>,
             \A w \in Workers : pc'[w] \in {pc[w], "idle"},
             \A n \in Calls \ inflight :
               effects'[n] = effects[n] /\ n \notin inflight'
      PROVE  ReplayInv'
  <2>1. ASSUME NEW n \in 1 .. Len(calls), Inert(n)
        PROVE  Inert(n)'
    BY <1>3, <1>a, <2>1 DEF Inert
  <2>2. QED
    BY <1>b, <1>3, <2>1 DEF ReplayInv
<1>4. ASSUME Arrive
      PROVE  ReplayInv'
  <2>1. PICK n \in inflight : inflight' = inflight \ {n} /\ Effect(n)
    BY <1>4 DEF Arrive
  <2>2. /\ effects' = [effects EXCEPT ![n] = "applied"]
        /\ UNCHANGED <<calls, call, pc>>
    BY <1>4, <2>1 DEF Arrive, Effect
  <2>3. \A k \in Calls \ inflight : effects'[k] = effects[k] /\ k \notin inflight'
    BY <1>0, <2>1, <2>2
  <2>4. QED
    BY <1>3, <2>2, <2>3
<1>5. ASSUME Crash \/ UNCHANGED vars
      PROVE  ReplayInv'
  <2>1. /\ UNCHANGED <<calls, call, effects, inflight>>
        /\ \A w \in Workers : pc'[w] \in {pc[w], "idle"}
    BY <1>5 DEF Crash, vars
  <2>2. QED
    BY <1>3, <2>1
<1>6. QED
  BY <1>1, <1>2, <1>4, <1>5 DEF Next

\* A submission whose intent had a receipt in the active TrustLog as it began has
\* no effect, at once or late, however many callers there are and whatever
\* crashed or failed in between; only a TrustLog that cannot be read at the
\* lookup lets it through.  (Two calls that both begin before the first receipt
\* is stored can both pass the lookup: NeverReapplied.)
THEOREM RepeatsHaveNoEffect == Spec => []ReplayPreventsReapply
<1>1. Init => EntryInv /\ ReplayInv
  BY DEF Init, EntryInv, ReplayInv
<1>2. Inv /\ EntryInv /\ [Next]_vars => EntryInv'
  BY EntryStep
<1>3. Inv /\ EntryInv /\ ReplayInv /\ [Next]_vars => ReplayInv'
  BY ReplayStep
<1>4. ReplayInv => ReplayPreventsReapply
  BY DEF ReplayInv, ReplayPreventsReapply, Answered, Inert
<1>5. QED
  BY <1>1, <1>2, <1>3, <1>4, InvInit, InvStep, PTL DEF Spec
-----------------------------------------------------------------------------
(* Committed changes stay, rolled-back ones are gone *)

\* The four kinds of step of a busy worker, by what they do to the target.
LEMMA StepKinds ==
  ASSUME Inv, NEW w \in Workers, Step(w)
  PROVE  \/ /\ UNCHANGED <<target, effects, snap, disturbed>>
            /\ pc'[w] \in Gated => pc[w] \in Gated
         \/ /\ pc[w] = "snapshot" /\ UNCHANGED <<target, effects, disturbed>>
            /\ snap' = [snap EXCEPT ![call[w]] = target]
         \/ /\ pc[w] = "apply" /\ Effect(call[w]) /\ UNCHANGED <<snap, disturbed>>
         \/ /\ pc[w] \in Reverting /\ Undo(w) /\ UNCHANGED snap
<1>0. pc \in [Workers -> Steps]
  BY DEF Inv, BaseInv, TypeOK
<1>1. CASE Replay(w) \/ Fresh(w) \/ SnapshotFails(w)
  <2>1. UNCHANGED <<target, effects, snap, disturbed>>
    BY <1>1 DEF Replay, Fresh, SnapshotFails, history
  <2>2. pc'[w] \in {"idle", "snapshot", "log_intent"}
    BY <1>0, <1>1 DEF Replay, Fresh, SnapshotFails, Finalize, Goto
  <2>3. QED
    BY <2>1, <2>2 DEF Gated
<1>2. CASE Adjudicate(w)
  BY <1>2 DEF Adjudicate, history
<1>3. CASE Apply(w) \/ ApplyRaises(w)
  <2>1. pc[w] = "apply" /\ UNCHANGED <<snap, disturbed>>
    BY <1>3 DEF Apply, ApplyRaises, history
  <2>2. Effect(call[w]) \/ UNCHANGED <<target, effects>>
    BY <1>3 DEF Apply, ApplyRaises
  <2>3. QED
    BY <2>1, <2>2 DEF Gated
<1>4. CASE Verify(w) \/ Post(w)
  <2>1. UNCHANGED <<target, effects, snap, disturbed>> /\ pc[w] \in Gated
    BY <1>4 DEF Verify, Post, Gated, history
  <2>2. QED
    BY <2>1
<1>5. CASE VerifyRaises(w) \/ Reread(w)
  <2>1. UNCHANGED <<target, effects, snap, disturbed>>
    BY <1>5 DEF VerifyRaises, Reread, history
  <2>2. pc'[w] \in {"idle", "log_intent"}
    BY <1>0, <1>5 DEF VerifyRaises, Reread, Raise, Finalize, Goto
  <2>3. QED
    BY <2>1, <2>2 DEF Gated
<1>6. CASE Revert(w) \/ RevertFails(w)
  <2>1. pc[w] \in Reverting /\ UNCHANGED snap
    BY <1>6 DEF Revert, RevertFails
  <2>2. Undo(w) \/ UNCHANGED <<target, effects, disturbed>>
    BY <1>6 DEF Revert, RevertFails
  <2>3. QED
    BY <2>1, <2>2 DEF Gated, Reverting
<1>7. CASE LogIntent(w) \/ LogPrev(w) \/ LogReceipt(w) \/ LogFails(w)
  <2>1. UNCHANGED <<target, effects, snap, disturbed>>
    BY <1>7 DEF LogIntent, LogPrev, LogReceipt, LogFails, history
  <2>2. pc'[w] \in {"idle", "log_prev", "log_receipt"}
    BY <1>0, <1>7 DEF LogIntent, LogPrev, LogReceipt, LogFails, Raise, Goto
  <2>3. QED
    BY <2>1, <2>2 DEF Gated
<1>8. QED
  BY <1>1, <1>2, <1>3, <1>4, <1>5, <1>6, <1>7 DEF Step

\* Only webhook requests can be late.
LEMMA NoneInflight ==
  ASSUME Inv, inflight = {}, [Next]_vars, Adapter # "webhook"
  PROVE  inflight' = {}
<1>1. ASSUME NEW w \in Workers, Step(w)
      PROVE  inflight' = {}
  BY <1>1 DEF Step, Replay, Fresh, SnapshotFails, Adjudicate, Apply, ApplyRaises,
     Verify, VerifyRaises, Post, Revert, RevertFails, Reread, LogIntent,
     LogPrev, LogReceipt, LogFails
<1>2. ASSUME NEW w \in Workers, NEW i \in Intents, Submit(w, i)
      PROVE  inflight' = {}
  BY <1>2 DEF Submit
<1>3. ~Arrive
  BY DEF Arrive
<1>4. CASE Crash \/ UNCHANGED vars
  BY <1>4 DEF Crash, vars
<1>5. QED
  BY <1>1, <1>2, <1>3, <1>4 DEF Next

\* A call that is still running overlaps every other.
LEMMA BusyOverlaps ==
  ASSUME Inv, EntryInv, NEW w \in Workers, pc[w] # "idle", NEW n
  PROVE  Overlaps(n, call[w])
<1>1. ASSUME NEW p \in 1 .. Len(ledger), ledger[p].kind = "receipt"
      PROVE  ledger[p].call # call[w]
  <2>1. ledger[p].receipt \in Stored
    BY <1>1 DEF Stored
  <2>2. ledger[p].receipt.call # call[w]
    BY <2>1 DEF Inv, BaseInv, Logged
  <2>3. QED
    BY <1>1, <2>2 DEF EntryInv
<1>2. QED
  BY <1>1 DEF Overlaps

\* Calls that overlapped do so for good.
LEMMA OverlapStays ==
  ASSUME Inv, EntryInv, [Next]_vars, NEW n \in 1 .. Len(calls), NEW m,
         Overlaps(n, m)
  PROVE  Overlaps(n, m)'
<1>1. SUFFICES ASSUME NEW p \in 1 .. Len(ledger'), ledger'[p].kind = "receipt",
                      ledger'[p].call = m
               PROVE  begun'[n] < p
  BY DEF Overlaps
<1>2. /\ begun'[n] = begun[n] /\ begun[n] \in Nat /\ begun[n] =< Len(ledger)
      /\ Len(ledger) \in Nat /\ Len(ledger') \in Nat
  BY HistoryStep DEF EntryInv
<1>3. CASE p \in 1 .. Len(ledger)
  <2>1. ledger'[p] = ledger[p]
    BY <1>3, HistoryStep
  <2>2. QED
    BY <1>1, <1>2, <1>3, <2>1 DEF Overlaps
<1>4. CASE p \notin 1 .. Len(ledger)
  BY <1>1, <1>2, <1>4
<1>5. QED
  BY <1>3, <1>4

\* A revert is recorded for good.
LEMMA RecordStays ==
  ASSUME [Next]_vars
  PROVE  disturbed \subseteq disturbed'
  BY DEF Next, Step, Submit, Replay, Fresh, SnapshotFails, Adjudicate, Apply,
         ApplyRaises, Verify, VerifyRaises, Post, Revert, RevertFails, Undo, Reread,
         LogIntent, LogPrev, LogReceipt, LogFails, Arrive, Crash, vars, history

LEMMA DisturbedStays ==
  ASSUME Inv, EntryInv, [Next]_vars, NEW m, Disturbed(m)
  PROVE  Disturbed(m)'
<1>1. PICK n \in 1 .. Len(calls) : <<n, m>> \in disturbed /\ Overlaps(n, m)
  BY DEF Disturbed
<1>2. n \in 1 .. Len(calls')
  BY HistoryStep
<1>3. <<n, m>> \in disturbed' /\ Overlaps(n, m)'
  BY <1>1, OverlapStays, RecordStays
<1>4. QED
  BY <1>2, <1>3 DEF Disturbed

\* A revert that does not respect the effect of a call it overlaps is recorded.
LEMMA UndoDisturbs ==
  ASSUME Inv, EntryInv, [Next]_vars, NEW w \in Workers, Step(w), Undo(w),
         NEW m \in Overturned(w), Overlaps(call[w], m)
  PROVE  Disturbed(m)'
<1>1. call[w] \in 1 .. Len(calls) /\ calls' = calls
  BY WorkerFrame
<1>2. Overlaps(call[w], m)'
  <2>1. \A n \in 1 .. Len(calls) : Overlaps(n, m) => Overlaps(n, m)'
    BY OverlapStays
  <2>2. call' = call
    BY WorkerFrame
  <2>3. QED
    BY <1>1, <2>1, <2>2
<1>3. <<call[w], m>> \in disturbed'
  BY DEF Undo
<1>4. call' = call
  BY WorkerFrame
<1>5. QED
  BY <1>1, <1>2, <1>3, <1>4 DEF Disturbed

\* Applied changes are in the target and, while a call may still be reverted, in
\* the snapshot it would write back, or the calls overlapped.
PlaceInv ==
  /\ inflight = {}
  /\ \A m \in 1 .. Len(calls) :
       effects[m] = "applied" => calls[m] \in target \/ Disturbed(m)
  /\ \A w \in Workers, m \in 1 .. Len(calls) :
       pc[w] \in Gated /\ m # call[w] /\ effects[m] = "applied" =>
         calls[m] \in snap[call[w]] \/ Disturbed(m) \/ Overlaps(call[w], m)

\* A step of a worker keeps the applied changes in place.
LEMMA PlaceStep ==
  ASSUME Adapter \in {"snapshot", "sticky"}, Inv, EntryInv, PlaceInv,
         NEW w \in Workers, Step(w), [Next]_vars
  PROVE  PlaceInv'
<1>0. /\ TypeOK /\ OwnCall /\ pc \in [Workers -> Steps]
      /\ snap \in [Calls -> SUBSET Intents]
      /\ effects \in [Calls -> {"none", "applied", "reverted"}]
      /\ MaxCalls \in Nat /\ Len(calls) \in Nat /\ Len(calls) =< MaxCalls
  BY ConstantsAssumption DEF Inv, BaseInv, TypeOK
<1>1. /\ pc[w] # "idle" /\ call[w] \in Calls /\ call[w] \in 1 .. Len(calls)
      /\ UNCHANGED <<calls, call>>
      /\ \A v \in Workers \ {w} : pc'[v] = pc[v]
  BY WorkerFrame
<1>2. \A n \in 1 .. Len(calls) : n \in Calls
  BY <1>0 DEF Calls
<1>3. inflight' = {}
  BY NoneInflight DEF PlaceInv
<1>4. \A v \in Workers : pc[v] # "idle" /\ v # w => call[v] \in Calls /\ call[v] # call[w]
  BY <1>0, <1>1, <1>2 DEF OwnCall
<1>5. \A m : Disturbed(m) => Disturbed(m)'
  BY DisturbedStays
<1>6. ASSUME NEW v \in Workers, pc[v] # "idle", NEW m, Overlaps(call[v], m)
      PROVE  Overlaps(call[v], m)'
  <2>1. call[v] \in 1 .. Len(calls)
    BY <1>0, <1>6 DEF OwnCall
  <2>2. \A n \in 1 .. Len(calls) : Overlaps(n, m) => Overlaps(n, m)'
    BY OverlapStays
  <2>3. QED
    BY <1>1, <1>6, <2>1, <2>2
<1>7. \A v \in Workers : pc[v] \in Gated => pc[v] # "idle"
  BY DEF Gated
\* It is enough to look at the calls that are applied after the step.
<1>8. ASSUME \A m \in 1 .. Len(calls) :
               effects'[m] = "applied" => calls[m] \in target' \/ Disturbed(m)',
             \A v \in Workers, m \in 1 .. Len(calls) :
               pc'[v] \in Gated /\ m # call[v] /\ effects'[m] = "applied" =>
                 \/ calls[m] \in snap'[call[v]] \/ Disturbed(m)'
                 \/ Overlaps(call[v], m)'
      PROVE  PlaceInv'
  BY <1>1, <1>3, <1>8 DEF PlaceInv
<1>9. CASE /\ UNCHANGED <<target, effects, snap, disturbed>>
           /\ pc'[w] \in Gated => pc[w] \in Gated
  <2>1. \A v \in Workers : pc'[v] \in Gated => pc[v] \in Gated
    BY <1>1, <1>9
  <2>2. ASSUME NEW v \in Workers, NEW m \in 1 .. Len(calls), pc'[v] \in Gated,
               m # call[v], effects'[m] = "applied"
        PROVE  \/ calls[m] \in snap'[call[v]] \/ Disturbed(m)'
               \/ Overlaps(call[v], m)'
    <3>1. calls[m] \in snap[call[v]] \/ Disturbed(m) \/ Overlaps(call[v], m)
      BY <1>9, <2>1, <2>2 DEF PlaceInv
    <3>2. QED
      BY <1>5, <1>6, <1>7, <1>9, <2>1, <2>2, <3>1
  <2>3. \A m \in 1 .. Len(calls) :
          effects'[m] = "applied" => calls[m] \in target' \/ Disturbed(m)'
    BY <1>5, <1>9 DEF PlaceInv
  <2>4. QED
    BY <1>8, <2>2, <2>3
<1>10. CASE /\ pc[w] = "snapshot" /\ UNCHANGED <<target, effects, disturbed>>
            /\ snap' = [snap EXCEPT ![call[w]] = target]
  <2>1. snap'[call[w]] = target /\ \A n \in Calls \ {call[w]} : snap'[n] = snap[n]
    BY <1>0, <1>1, <1>10
  <2>2. \A m \in 1 .. Len(calls) :
          effects'[m] = "applied" => calls[m] \in target' \/ Disturbed(m)'
    BY <1>5, <1>10 DEF PlaceInv
  <2>3. ASSUME NEW v \in Workers, NEW m \in 1 .. Len(calls), pc'[v] \in Gated,
               m # call[v], effects'[m] = "applied"
        PROVE  \/ calls[m] \in snap'[call[v]] \/ Disturbed(m)'
               \/ Overlaps(call[v], m)'
    <3>1. CASE v = w
      BY <1>10, <2>1, <2>2, <2>3, <3>1
    <3>2. CASE v # w
      <4>1. pc[v] \in Gated /\ pc[v] # "idle"
        BY <1>1, <1>7, <2>3, <3>2
      <4>2. calls[m] \in snap[call[v]] \/ Disturbed(m) \/ Overlaps(call[v], m)
        BY <1>10, <2>3, <4>1 DEF PlaceInv
      <4>3. snap'[call[v]] = snap[call[v]]
        BY <1>4, <2>1, <3>2, <4>1
      <4>4. QED
        BY <1>5, <1>6, <4>1, <4>2, <4>3
    <3>3. QED
      BY <3>1, <3>2
  <2>4. QED
    BY <1>8, <2>2, <2>3
<1>11. CASE pc[w] = "apply" /\ Effect(call[w]) /\ UNCHANGED <<snap, disturbed>>
  <2>1. /\ effects' = [effects EXCEPT ![call[w]] = "applied"]
        /\ target' = target \union {calls[call[w]]}
    BY <1>11 DEF Effect
  <2>2. \A n \in Calls \ {call[w]} : effects'[n] = effects[n]
    BY <1>0, <1>1, <2>1
  <2>3. ASSUME NEW m \in 1 .. Len(calls), effects'[m] = "applied"
        PROVE  calls[m] \in target' \/ Disturbed(m)'
    <3>1. CASE m = call[w]
      BY <2>1, <3>1
    <3>2. CASE m # call[w]
      BY <1>2, <1>5, <2>1, <2>2, <2>3, <3>2 DEF PlaceInv
    <3>3. QED
      BY <3>1, <3>2
  <2>4. ASSUME NEW v \in Workers, NEW m \in 1 .. Len(calls), pc'[v] \in Gated,
               m # call[v], effects'[m] = "applied"
        PROVE  \/ calls[m] \in snap'[call[v]] \/ Disturbed(m)'
               \/ Overlaps(call[v], m)'
    <3>1. pc[v] \in Gated /\ pc[v] # "idle"
      BY <1>1, <1>7, <1>11, <2>4 DEF Gated
    <3>2. CASE m = call[w]
      BY <1>1, <1>6, <3>1, <3>2, BusyOverlaps
    <3>3. CASE m # call[w]
      <4>1. calls[m] \in snap[call[v]] \/ Disturbed(m) \/ Overlaps(call[v], m)
        BY <1>2, <2>2, <2>4, <3>1, <3>3 DEF PlaceInv
      <4>2. QED
        BY <1>5, <1>6, <1>11, <3>1, <4>1
    <3>4. QED
      BY <3>2, <3>3
  <2>5. QED
    BY <1>8, <2>3, <2>4
<1>12. CASE pc[w] \in Reverting /\ Undo(w) /\ UNCHANGED snap
  <2>1. /\ target' = Restored(w) /\ pc[w] \in Gated
        /\ effects' = [effects EXCEPT ![call[w]] =
                         IF Adapter = "sticky" THEN @ ELSE "reverted"]
    BY <1>12 DEF Undo, Reverting, Gated
  <2>2. \A n \in Calls \ {call[w]} : effects'[n] = effects[n]
    BY <1>0, <1>1, <2>1
  <2>3. \A n \in Calls : effects'[n] = "applied" => effects[n] = "applied"
    BY <1>0, <1>1, <2>1, <2>2
  <2>4. ASSUME NEW m \in 1 .. Len(calls), effects'[m] = "applied"
        PROVE  calls[m] \in target' \/ Disturbed(m)'
    <3>1. CASE Adapter = "sticky"
      <4>1. target' = target
        BY <2>1, <3>1 DEF Restored
      <4>2. QED
        BY <1>2, <1>5, <2>3, <2>4, <4>1 DEF PlaceInv
    <3>2. CASE Adapter = "snapshot"
      <4>1. target' = snap[call[w]] /\ Restored(w) = snap[call[w]]
        BY <2>1, <3>2 DEF Restored
      <4>2. m # call[w] /\ effects[m] = "applied"
        BY <1>0, <1>1, <1>2, <2>1, <2>3, <2>4, <3>2
      <4>3. calls[m] \in snap[call[w]] \/ Disturbed(m) \/ Overlaps(call[w], m)
        BY <2>1, <4>2 DEF PlaceInv
      <4>4. CASE calls[m] \notin snap[call[w]] /\ Overlaps(call[w], m)
        <5>1. m \in Overturned(w)
          BY <4>1, <4>2, <4>4 DEF Overturned
        <5>2. QED
          BY <1>12, <4>4, <5>1, UndoDisturbs
      <4>5. QED
        BY <1>5, <4>1, <4>3, <4>4
    <3>3. QED
      BY <3>1, <3>2
  <2>5. ASSUME NEW v \in Workers, NEW m \in 1 .. Len(calls), pc'[v] \in Gated,
               m # call[v], effects'[m] = "applied"
        PROVE  \/ calls[m] \in snap'[call[v]] \/ Disturbed(m)'
               \/ Overlaps(call[v], m)'
    <3>1. pc[v] \in Gated /\ pc[v] # "idle"
      BY <1>1, <1>7, <2>1, <2>5
    <3>2. effects[m] = "applied"
      BY <1>2, <2>3, <2>5
    <3>3. calls[m] \in snap[call[v]] \/ Disturbed(m) \/ Overlaps(call[v], m)
      BY <2>5, <3>1, <3>2 DEF PlaceInv
    <3>4. QED
      BY <1>5, <1>6, <1>12, <3>1, <3>3
  <2>6. QED
    BY <1>8, <2>4, <2>5
<1>13. QED
  BY <1>9, <1>10, <1>11, <1>12, StepKinds

\* So does every step of the system.
LEMMA PlaceNext ==
  ASSUME Adapter \in {"snapshot", "sticky"}, Inv, EntryInv, PlaceInv, [Next]_vars
  PROVE  PlaceInv'
<1>0. /\ TypeOK /\ pc \in [Workers -> Steps] /\ OwnCall /\ EffectInv
      /\ call \in [Workers -> 0 .. MaxCalls] /\ calls \in Seq(Intents)
      /\ Len(calls) \in Nat /\ MaxCalls \in Nat
  BY ConstantsAssumption DEF Inv, BaseInv, TypeOK
<1>1. inflight' = {}
  BY NoneInflight DEF PlaceInv
<1>2. \A m : Disturbed(m) => Disturbed(m)'
  BY DisturbedStays
<1>3. \A n \in 1 .. Len(calls) : \A m : Overlaps(n, m) => Overlaps(n, m)'
  BY OverlapStays
<1>4. ASSUME NEW w \in Workers, NEW i \in Intents, Submit(w, i)
      PROVE  PlaceInv'
  <2>1. /\ pc[w] = "idle" /\ calls' = Append(calls, i) /\ Len(calls) < MaxCalls
        /\ pc' = [pc EXCEPT ![w] = "dedupe"]
        /\ call' = [call EXCEPT ![w] = Len(calls) + 1]
        /\ UNCHANGED <<target, snap, effects>>
    BY <1>4 DEF Submit, Goto
  <2>2. /\ \A n \in 1 .. Len(calls) : calls'[n] = calls[n]
        /\ Len(calls') = Len(calls) + 1
        /\ pc'[w] = "dedupe"
        /\ \A v \in Workers \ {w} : pc'[v] = pc[v] /\ call'[v] = call[v]
    BY <1>0, <2>1
  <2>3. \A n \in 1 .. Len(calls') : effects'[n] = "applied" => n \in 1 .. Len(calls)
    BY <1>0, <2>1, <2>2 DEF EffectInv, Calls
  <2>4. \A m \in 1 .. Len(calls') :
          effects'[m] = "applied" => calls'[m] \in target' \/ Disturbed(m)'
    BY <1>2, <2>1, <2>2, <2>3 DEF PlaceInv
  <2>5. ASSUME NEW v \in Workers, NEW m \in 1 .. Len(calls'), pc'[v] \in Gated,
               m # call'[v], effects'[m] = "applied"
        PROVE  \/ calls'[m] \in snap'[call'[v]] \/ Disturbed(m)'
               \/ Overlaps(call[v], m)'
    <3>1. pc[v] = pc'[v] /\ call'[v] = call[v] /\ pc[v] # "idle"
      BY <2>2, <2>5 DEF Gated
    <3>2. m \in 1 .. Len(calls) /\ call[v] \in 1 .. Len(calls)
      BY <1>0, <2>3, <2>5, <3>1 DEF OwnCall
    <3>3. calls[m] \in snap[call[v]] \/ Disturbed(m) \/ Overlaps(call[v], m)
      BY <2>1, <2>5, <3>1, <3>2 DEF PlaceInv
    <3>4. QED
      BY <1>2, <1>3, <2>1, <2>2, <3>1, <3>2, <3>3
  <2>6. QED
    BY <1>1, <2>4, <2>5 DEF PlaceInv
<1>5. ASSUME Crash \/ UNCHANGED vars
      PROVE  PlaceInv'
  <2>1. /\ UNCHANGED <<target, calls, call, snap, effects>>
        /\ \A w \in Workers : pc'[w] \in {pc[w], "idle"}
    BY <1>5 DEF Crash, vars
  <2>2. ASSUME NEW v \in Workers, NEW m \in 1 .. Len(calls), pc'[v] \in Gated,
               m # call[v], effects[m] = "applied"
        PROVE  \/ calls[m] \in snap[call[v]] \/ Disturbed(m)'
               \/ Overlaps(call[v], m)'
    <3>1. pc[v] \in Gated /\ pc[v] # "idle"
      BY <2>1, <2>2 DEF Gated
    <3>2. call[v] \in 1 .. Len(calls)
      BY <1>0, <3>1 DEF OwnCall
    <3>3. calls[m] \in snap[call[v]] \/ Disturbed(m) \/ Overlaps(call[v], m)
      BY <2>2, <3>1 DEF PlaceInv
    <3>4. QED
      BY <1>2, <1>3, <2>1, <3>2, <3>3
  <2>3. \A m \in 1 .. Len(calls) :
          effects[m] = "applied" => calls[m] \in target \/ Disturbed(m)'
    BY <1>2 DEF PlaceInv
  <2>4. QED
    BY <1>1, <2>1, <2>2, <2>3 DEF PlaceInv
<1>6. ~Arrive
  BY DEF Arrive, PlaceInv
<1>7. QED
  BY <1>4, <1>5, <1>6, PlaceStep DEF Next

\* A change whose receipt says COMMITTED stays in the target, with an adapter that
\* writes its snapshot back on revert and any number of concurrent callers: the
\* only revert that can take it away is that of a call that had begun before the
\* receipt was stored.
THEOREM CommittedStaysInPlace ==
  ASSUME Adapter \in {"snapshot", "sticky"}
  PROVE  Spec => []CommittedInPlace
<1>1. Init => EntryInv /\ PlaceInv
  BY DEF Init, EntryInv, PlaceInv, Gated
<1>2. Inv /\ EntryInv /\ [Next]_vars => EntryInv'
  BY EntryStep
<1>3. Inv /\ EntryInv /\ PlaceInv /\ [Next]_vars => PlaceInv'
  BY PlaceNext
<1>4. Inv /\ PlaceInv => CommittedInPlace
  <2>1. SUFFICES ASSUME Inv, PlaceInv, NEW r \in Stored, r.outcome = "COMMITTED"
                 PROVE  calls[r.call] \in target \/ Disturbed(r.call)
    BY DEF CommittedInPlace
  <2>2. r.call \in 1 .. Len(calls) /\ effects[r.call] = "applied"
    BY <2>1 DEF Inv, BaseInv, Logged, EffectInv, Truthful
  <2>3. QED
    BY <2>1, <2>2 DEF PlaceInv
<1>5. QED
  BY <1>1, <1>2, <1>3, <1>4, InvInit, InvStep, PTL DEF Spec
RolledBack(r) == r.outcome = "ROLLED_BACK"

\* Call m made the change of its intent, and it may be in what n writes back.
Made(n, m) ==
  \/ effects[m] = "applied"
  \/ Disturbed(m)
  \/ effects[m] = "reverted" /\ Overlaps(n, m)

\* Everything in the target was put there by a call that was not reverted, or was
\* written back by one that overlapped it; so is what a call may yet write back.
UndoneInv ==
  /\ inflight = {}
  /\ \A d \in disturbed : effects[d[2]] # "none"
  /\ \A i \in target : \E m \in 1 .. Len(calls) :
       calls[m] = i /\ (effects[m] = "applied" \/ Disturbed(m))
  /\ \A w \in Workers : pc[w] \in Gated =>
       \A i \in snap[call[w]] : \E m \in 1 .. Len(calls) :
         m # call[w] /\ calls[m] = i /\ Made(call[w], m)

\* Where a receipt says ROLLED_BACK, the revert has taken effect.
RevertInv ==
  /\ \A w \in Workers :
       pc[w] = "reread" \/ (pc[w] \in Logging /\ RolledBack(receipt[w])) =>
         effects[call[w]] = "reverted"
  /\ \A r \in Stored : RolledBack(r) => effects[r.call] = "reverted"

\* A receipt is stored by its own worker, which is then idle.
LEMMA NewReceipt ==
  ASSUME Inv, [Next]_vars, NEW r \in Stored', r \notin Stored
  PROVE  \E w \in Workers : pc[w] = "log_receipt" /\ r = receipt[w] /\ r.call = call[w]
<1>0. TypeOK /\ Prepared
  BY DEF Inv, BaseInv
<1>1. PICK w \in Workers, e \in Entries :
        /\ AppendEntry(e)
        /\ e.kind = "receipt" => pc[w] = "log_receipt" /\ e.receipt = receipt[w]
  BY LedgerStep
<1>2. e.kind = "receipt" /\ r = e.receipt
  BY <1>0, <1>1, StoredAppend
<1>3. receipt[w].call = call[w]
  BY <1>0, <1>1, <1>2 DEF Prepared, Logging
<1>4. QED
  BY <1>1, <1>2, <1>3

\* The outcome and the place a step leaves worker w with.
LEMMA FinalizeEnds ==
  ASSUME Inv, NEW w \in Workers, Step(w), NEW o \in Outcomes,
         NEW f \in BOOLEAN, Finalize(w, o, f)
  PROVE  receipt'[w].outcome = o /\ pc'[w] = "log_intent"
<1>1. TypeOK /\ call[w] \in Calls /\ pc \in [Workers -> Steps]
  BY WorkerFrame DEF Inv, BaseInv, TypeOK
<1>2. receipt'[w].outcome = o /\ pc' = [pc EXCEPT ![w] = "log_intent"]
  BY <1>1, FinalizeType
<1>3. QED
  BY <1>1, <1>2

\* The gate of Adjudicate: an open gate, a refusal or an exception.
LEMMA AdjudicateEnds ==
  ASSUME Inv, NEW w \in Workers, Adjudicate(w)
  PROVE  \/ pc'[w] \in {"apply", "idle"}
         \/ receipt'[w].outcome \in {"BLOCKED", "ESCALATED"} /\ pc'[w] = "log_intent"
<1>0. TypeOK /\ pc \in [Workers -> Steps] /\ Step(w)
  BY DEF Inv, BaseInv, TypeOK, Step
<1>1. PICK e \in Evidence :
        LET gate == Gate(GateInput(w, e)) IN
        \/ gate = "apply" /\ Goto(w, "apply") /\ UNCHANGED <<receipt, result>>
        \/ gate \in Outcomes /\ Finalize(w, gate, FALSE) /\ UNCHANGED result
        \/ gate = "raise" /\ Raise(w) /\ UNCHANGED receipt
  BY DEF Adjudicate
<1> DEFINE g == Gate(GateInput(w, e))
<1>2. g \in {"apply", "raise", "BLOCKED", "ESCALATED"}
  BY GateInputType, GateType
<1>3. \/ Goto(w, "apply")
      \/ g \in Outcomes /\ Finalize(w, g, FALSE)
      \/ Raise(w)
  BY <1>1
<1> HIDE DEF g
<1>4. CASE Goto(w, "apply")
  BY <1>0, <1>4 DEF Goto
<1>5. CASE Raise(w)
  BY <1>0, <1>5 DEF Raise, Goto
<1>6. CASE g \in Outcomes /\ Finalize(w, g, FALSE)
  <2>1. g \in {"BLOCKED", "ESCALATED"}
    BY <1>2, <1>6 DEF Outcomes
  <2>2. QED
    BY <1>0, <1>6, <2>1, FinalizeEnds
<1>7. QED
  BY <1>3, <1>4, <1>5, <1>6

\* A step of a worker leaves RevertInv to its own call.
LEMMA RevertStep ==
  ASSUME Adapter \in {"snapshot", "pointer"}, Inv, RevertInv, NEW w \in Workers,
         Step(w), [Next]_vars
  PROVE  RevertInv'
<1>0. /\ TypeOK /\ Prepared /\ OwnCall /\ Logged /\ pc \in [Workers -> Steps]
      /\ effects \in [Calls -> {"none", "applied", "reverted"}]
      /\ MaxCalls \in Nat /\ Len(calls) \in Nat /\ Len(calls) =< MaxCalls
  BY ConstantsAssumption DEF Inv, BaseInv, TypeOK
<1>1. /\ pc[w] # "idle" /\ call[w] \in Calls /\ UNCHANGED <<calls, call>>
      /\ \A v \in Workers \ {w} : pc'[v] = pc[v] /\ receipt'[v] = receipt[v]
  BY WorkerFrame
<1>2. \A n \in 1 .. Len(calls) : n \in Calls
  BY <1>0 DEF Calls
<1>3. \A n \in Calls \ {call[w]} : effects'[n] = effects[n]
  BY StepOwnEffect DEF OwnEffect
<1>4. pc'[w] = "reread" \/ (pc'[w] \in Logging /\ RolledBack(receipt'[w])) =>
        effects'[call[w]] = "reverted"
  <2>1. CASE Replay(w) \/ VerifyRaises(w) \/ LogFails(w) \/ LogReceipt(w)
    <3>1. pc'[w] = "idle"
      BY <1>0, <2>1 DEF Replay, VerifyRaises, LogFails, LogReceipt, Raise, Goto
    <3>2. QED
      BY <3>1 DEF Logging
  <2>2. CASE Fresh(w) \/ SnapshotFails(w)
    <3>1. \/ pc'[w] = "snapshot"
          \/ Finalize(w, "PRECONDITION_FAILED", FALSE)
          \/ Finalize(w, "SNAPSHOT_FAILED", FALSE)
      BY <1>0, <2>2 DEF Fresh, SnapshotFails, Goto
    <3>2. QED
      BY <3>1, FinalizeEnds DEF Logging, RolledBack, Outcomes
  <2>3. CASE Adjudicate(w)
    BY <2>3, AdjudicateEnds DEF Logging, RolledBack
  <2>4. CASE Apply(w) \/ ApplyRaises(w)
    <3>1. pc'[w] \in {"verify", "revert_apply"} \/ Finalize(w, "APPLY_FAILED", FALSE)
      BY <1>0, <2>4 DEF Apply, ApplyRaises, Goto
    <3>2. QED
      BY <3>1, FinalizeEnds DEF Logging, RolledBack, Outcomes
  <2>5. CASE Verify(w) \/ Post(w)
    <3>1. \/ pc'[w] \in {"post", "revert_verify", "revert_post"}
          \/ Finalize(w, "COMMITTED", FALSE)
      BY <1>0, <2>5 DEF Verify, Post, Goto
    <3>2. QED
      BY <3>1, FinalizeEnds DEF Logging, RolledBack, Outcomes
  <2>6. CASE Revert(w)
    <3>1. effects' = [effects EXCEPT ![call[w]] = "reverted"]
      BY <2>6 DEF Revert, Undo
    <3>2. QED
      BY <1>0, <1>1, <3>1
  <2>7. CASE RevertFails(w)
    <3>1. Finalize(w, "ESCALATED", TRUE)
      BY <2>7 DEF RevertFails
    <3>2. QED
      BY <3>1, FinalizeEnds DEF Logging, RolledBack, Outcomes
  <2>8. CASE Reread(w)
    BY <2>8 DEF Reread, RevertInv
  <2>9. CASE LogIntent(w) \/ LogPrev(w)
    <3>1. effects' = effects /\ pc[w] \in Logging /\ pc'[w] # "reread"
      BY <1>0, <2>9 DEF LogIntent, LogPrev, Logging, Goto
    <3>2. receipt'[w].outcome = receipt[w].outcome
      BY <1>0, <2>9, PrevKept DEF LogIntent
    <3>3. QED
      BY <3>1, <3>2 DEF RevertInv, RolledBack
  <2>10. QED
    BY <2>1, <2>2, <2>3, <2>4, <2>5, <2>6, <2>7, <2>8, <2>9 DEF Step
<1>5. ASSUME NEW v \in Workers, v # w,
             pc'[v] = "reread" \/ (pc'[v] \in Logging /\ RolledBack(receipt'[v]))
      PROVE  effects'[call[v]] = "reverted"
  <2>1. pc[v] = pc'[v] /\ receipt'[v] = receipt[v] /\ pc[v] # "idle"
    BY <1>1, <1>5 DEF Logging
  <2>2. call[v] \in Calls \ {call[w]}
    BY <1>0, <1>1, <1>2, <1>5, <2>1 DEF OwnCall
  <2>3. QED
    BY <1>3, <1>5, <2>1, <2>2 DEF RevertInv
<1>6. ASSUME NEW r \in Stored', RolledBack(r)
      PROVE  effects'[r.call] = "reverted"
  <2>1. CASE r \in Stored
    <3>1. r.call \in Calls \ {call[w]}
      BY <1>0, <1>1, <1>2, <2>1 DEF Logged
    <3>2. QED
      BY <1>3, <1>6, <2>1, <3>1 DEF RevertInv
  <2>2. CASE r \notin Stored
    <3>1. PICK v \in Workers : pc[v] = "log_receipt" /\ r = receipt[v] /\ r.call = call[v]
      BY <2>2, NewReceipt
    <3>2. effects[call[v]] = "reverted"
      BY <1>6, <3>1 DEF RevertInv, Logging
    <3>3. CASE v # w
      <4>1. call[v] \in Calls \ {call[w]}
        BY <1>0, <1>1, <1>2, <3>1, <3>3 DEF OwnCall
      <4>2. QED
        BY <1>3, <3>1, <3>2, <4>1
    <3>4. CASE v = w
      <4>1. effects' = effects
        BY <3>1, <3>4 DEF Step, Replay, Fresh, SnapshotFails, Adjudicate, Apply,
           ApplyRaises, Verify, VerifyRaises, Post, Revert, RevertFails, Reverting,
           Reread, LogIntent, LogPrev, LogReceipt, LogFails
      <4>2. QED
        BY <3>1, <3>2, <4>1
    <3>5. QED
      BY <3>3, <3>4
  <2>3. QED
    BY <2>1, <2>2
<1>7. QED
  BY <1>1, <1>4, <1>5, <1>6 DEF RevertInv

\* A step of a worker keeps the sources of the target known.
LEMMA UndoneStep ==
  ASSUME Adapter \in {"snapshot", "pointer"}, Inv, EntryInv, UndoneInv,
         NEW w \in Workers, Step(w), [Next]_vars
  PROVE  UndoneInv'
<1>0. /\ TypeOK /\ OwnCall /\ EffectInv /\ pc \in [Workers -> Steps]
      /\ snap \in [Calls -> SUBSET Intents]
      /\ effects \in [Calls -> {"none", "applied", "reverted"}]
      /\ disturbed \subseteq Calls \X Calls
      /\ MaxCalls \in Nat /\ Len(calls) \in Nat /\ Len(calls) =< MaxCalls
  BY ConstantsAssumption DEF Inv, BaseInv, TypeOK
<1>1. /\ pc[w] # "idle" /\ call[w] \in Calls /\ call[w] \in 1 .. Len(calls)
      /\ UNCHANGED <<calls, call>>
      /\ \A v \in Workers \ {w} : pc'[v] = pc[v]
  BY WorkerFrame
<1>2. \A n \in 1 .. Len(calls) : n \in Calls
  BY <1>0 DEF Calls
<1>3. inflight' = {}
  BY NoneInflight DEF UndoneInv
<1>4. \A v \in Workers : pc[v] # "idle" /\ v # w => call[v] \in Calls /\ call[v] # call[w]
  BY <1>0, <1>1, <1>2 DEF OwnCall
<1>5. \A m : Disturbed(m) => Disturbed(m)'
  BY DisturbedStays
<1>6. ASSUME NEW v \in Workers, pc[v] # "idle", NEW m, Overlaps(call[v], m)
      PROVE  Overlaps(call[v], m)'
  <2>1. call[v] \in 1 .. Len(calls)
    BY <1>0, <1>6 DEF OwnCall
  <2>2. \A n \in 1 .. Len(calls) : Overlaps(n, m) => Overlaps(n, m)'
    BY OverlapStays
  <2>3. QED
    BY <1>1, <1>6, <2>1, <2>2
<1>7. \A v \in Workers : pc[v] \in Gated => pc[v] # "idle"
  BY DEF Gated
\* What a worker may write back has its maker still: only the step's own call,
\* which overlaps every other, can be undone.
<1> DEFINE KeepsMade(m) ==
      \/ effects'[m] = effects[m] \/ effects'[m] = "applied"
      \/ m = call[w] /\ effects'[m] = "reverted"
<1>8. ASSUME NEW v \in Workers, pc[v] \in Gated, NEW m \in 1 .. Len(calls),
             Made(call[v], m),
             KeepsMade(m)
      PROVE  Made(call[v], m)'
  <2>1. pc[v] # "idle"
    BY <1>7, <1>8
  <2>2. CASE m = call[w]
    <3>1. Overlaps(call[v], m)'
      BY <1>1, <1>6, <2>1, <2>2, BusyOverlaps
    <3>2. QED
      BY <1>1, <1>5, <1>8, <3>1 DEF Made
  <2>3. CASE m # call[w]
    BY <1>1, <1>5, <1>6, <1>8, <2>1, <2>3 DEF Made
  <2>4. QED
    BY <2>2, <2>3
<1>9. ASSUME NEW v \in Workers, pc[v] \in Gated, snap'[call[v]] = snap[call[v]],
             \A m \in 1 .. Len(calls) : KeepsMade(m)
      PROVE  \A i \in snap'[call[v]] : \E m \in 1 .. Len(calls) :
               m # call[v] /\ calls[m] = i /\ Made(call[v], m)'
  <2>1. SUFFICES ASSUME NEW i \in snap[call[v]]
                 PROVE  \E m \in 1 .. Len(calls) :
                          m # call[v] /\ calls[m] = i /\ Made(call[v], m)'
    BY <1>9
  <2>2. PICK m \in 1 .. Len(calls) : m # call[v] /\ calls[m] = i /\ Made(call[v], m)
    BY <1>9, <2>1 DEF UndoneInv
  <2>3. Made(call[v], m)'
    <3> HIDE DEF KeepsMade
    <3>1. QED
      BY <1>8, <1>9, <2>2
  <2>4. QED
    BY <2>2, <2>3
<1>10. ASSUME \A d \in disturbed' : effects'[d[2]] # "none",
              \A i \in target' : \E m \in 1 .. Len(calls) :
                calls[m] = i /\ (effects'[m] = "applied" \/ Disturbed(m)'),
              \A v \in Workers : pc'[v] \in Gated =>
                \A i \in snap'[call[v]] : \E m \in 1 .. Len(calls) :
                  m # call[v] /\ calls[m] = i /\ Made(call[v], m)'
       PROVE  UndoneInv'
  BY <1>1, <1>3, <1>10 DEF UndoneInv
<1>11. CASE /\ UNCHANGED <<target, effects, snap, disturbed>>
            /\ pc'[w] \in Gated => pc[w] \in Gated
  <2>1. \A v \in Workers : pc'[v] \in Gated => pc[v] \in Gated
    BY <1>1, <1>11
  <2>2. \A v \in Workers : pc'[v] \in Gated =>
          \A i \in snap'[call[v]] : \E m \in 1 .. Len(calls) :
            m # call[v] /\ calls[m] = i /\ Made(call[v], m)'
    BY <1>9, <1>11, <2>1
  <2>3. \A i \in target' : \E m \in 1 .. Len(calls) :
          calls[m] = i /\ (effects'[m] = "applied" \/ Disturbed(m)')
    BY <1>5, <1>11 DEF UndoneInv
  <2>4. \A d \in disturbed' : effects'[d[2]] # "none"
    BY <1>11 DEF UndoneInv
  <2>5. QED
    BY <1>10, <2>2, <2>3, <2>4
<1>12. CASE /\ pc[w] = "snapshot" /\ UNCHANGED <<target, effects, disturbed>>
            /\ snap' = [snap EXCEPT ![call[w]] = target]
  <2>1. snap'[call[w]] = target /\ \A n \in Calls \ {call[w]} : snap'[n] = snap[n]
    BY <1>0, <1>1, <1>12
  <2>2. effects[call[w]] = "none"
    BY <1>0, <1>12 DEF EffectInv, Before
  <2>3. ~Disturbed(call[w])
    <3>1. \A n : <<n, call[w]>> \in disturbed => effects[call[w]] # "none"
      <4>1. \A d \in disturbed : effects[d[2]] # "none"
        BY DEF UndoneInv
      <4>2. QED
        BY <4>1
    <3>2. QED
      BY <2>2, <3>1 DEF Disturbed
  <2>4. \A i \in target' : \E m \in 1 .. Len(calls) :
          calls[m] = i /\ (effects'[m] = "applied" \/ Disturbed(m)')
    BY <1>5, <1>12 DEF UndoneInv
  <2>5. ASSUME NEW v \in Workers, pc'[v] \in Gated
        PROVE  \A i \in snap'[call[v]] : \E m \in 1 .. Len(calls) :
                 m # call[v] /\ calls[m] = i /\ Made(call[v], m)'
    <3>1. CASE v = w
      <4>1. ASSUME NEW i \in target
            PROVE  \E m \in 1 .. Len(calls) :
                     m # call[w] /\ calls[m] = i /\ Made(call[w], m)'
        <5>1. PICK m \in 1 .. Len(calls) :
                calls[m] = i /\ (effects[m] = "applied" \/ Disturbed(m))
          BY DEF UndoneInv
        <5>2. m # call[w]
          BY <2>2, <2>3, <5>1
        <5>3. effects'[m] = "applied" \/ Disturbed(m)'
          BY <1>5, <1>12, <5>1
        <5>4. Made(call[w], m)'
          BY <5>3 DEF Made
        <5>5. QED
          BY <5>1, <5>2, <5>4
      <4>2. QED
        BY <2>1, <3>1, <4>1
    <3>2. CASE v # w
      <4>1. pc[v] \in Gated /\ pc[v] # "idle"
        BY <1>1, <1>7, <2>5, <3>2
      <4>2. snap'[call[v]] = snap[call[v]]
        BY <1>4, <2>1, <3>2, <4>1
      <4>3. QED
        BY <1>9, <1>12, <4>1, <4>2
    <3>3. QED
      BY <3>1, <3>2
  <2>6. \A d \in disturbed' : effects'[d[2]] # "none"
    BY <1>12 DEF UndoneInv
  <2>7. QED
    BY <1>10, <2>4, <2>5, <2>6
<1>13. CASE pc[w] = "apply" /\ Effect(call[w]) /\ UNCHANGED <<snap, disturbed>>
  <2>1. /\ effects' = [effects EXCEPT ![call[w]] = "applied"]
        /\ target' \subseteq target \union {calls[call[w]]}
    BY <1>13 DEF Effect
  <2>2. /\ effects'[call[w]] = "applied"
        /\ \A n \in Calls \ {call[w]} : effects'[n] = effects[n]
    BY <1>0, <1>1, <2>1
  <2>3. ASSUME NEW i \in target'
        PROVE  \E m \in 1 .. Len(calls) :
                 calls[m] = i /\ (effects'[m] = "applied" \/ Disturbed(m)')
    <3>1. CASE i = calls[call[w]]
      BY <1>1, <2>2, <3>1
    <3>2. CASE i \in target
      <4>1. PICK m \in 1 .. Len(calls) :
              calls[m] = i /\ (effects[m] = "applied" \/ Disturbed(m))
        BY <3>2 DEF UndoneInv
      <4>2. effects'[m] = "applied" \/ Disturbed(m)'
        BY <1>2, <1>5, <2>2, <4>1
      <4>3. QED
        BY <4>1, <4>2
    <3>3. QED
      BY <2>1, <3>1, <3>2
  <2>4. ASSUME NEW v \in Workers, pc'[v] \in Gated
        PROVE  \A i \in snap'[call[v]] : \E m \in 1 .. Len(calls) :
                 m # call[v] /\ calls[m] = i /\ Made(call[v], m)'
    <3>1. pc[v] \in Gated
      BY <1>1, <1>13, <2>4 DEF Gated
    <3>2. \A m \in 1 .. Len(calls) : effects'[m] = effects[m] \/ effects'[m] = "applied"
      BY <1>2, <2>2
    <3>3. QED
      BY <1>9, <1>13, <3>1, <3>2
  <2>5. ASSUME NEW d \in disturbed'
        PROVE  effects'[d[2]] # "none"
    <3>1. d[2] \in Calls /\ effects[d[2]] # "none"
      BY <1>0, <1>13, <2>5 DEF UndoneInv
    <3>2. QED
      BY <2>2, <3>1
  <2>6. QED
    BY <1>10, <2>3, <2>4, <2>5
<1>14. CASE pc[w] \in Reverting /\ Undo(w) /\ UNCHANGED snap
  <2>1. /\ effects' = [effects EXCEPT ![call[w]] = "reverted"]
        /\ target' = snap[call[w]] /\ Restored(w) = snap[call[w]]
        /\ disturbed' = disturbed \union {<<call[w], m>> : m \in Overturned(w)}
        /\ pc[w] \in Gated
    BY <1>14 DEF Undo, Restored, Reverting, Gated
  <2>2. /\ effects'[call[w]] = "reverted"
        /\ \A n \in Calls \ {call[w]} : effects'[n] = effects[n]
    BY <1>0, <1>1, <2>1
  <2>3. ASSUME NEW i \in target'
        PROVE  \E m \in 1 .. Len(calls) :
                 calls[m] = i /\ (effects'[m] = "applied" \/ Disturbed(m)')
    <3>1. PICK m \in 1 .. Len(calls) :
            m # call[w] /\ calls[m] = i /\ Made(call[w], m)
      BY <2>1, <2>3 DEF UndoneInv
    <3>2. CASE effects[m] = "applied" \/ Disturbed(m)
      BY <1>2, <1>5, <2>2, <3>1, <3>2
    <3>3. CASE effects[m] = "reverted" /\ Overlaps(call[w], m)
      <4>1. m \in Overturned(w)
        BY <2>1, <2>3, <3>1, <3>3 DEF Overturned
      <4>2. Disturbed(m)'
        BY <1>14, <3>3, <4>1, UndoDisturbs
      <4>3. QED
        BY <3>1, <4>2
    <3>4. QED
      BY <3>1, <3>2, <3>3 DEF Made
  <2>4. ASSUME NEW v \in Workers, pc'[v] \in Gated
        PROVE  \A i \in snap'[call[v]] : \E m \in 1 .. Len(calls) :
                 m # call[v] /\ calls[m] = i /\ Made(call[v], m)'
    <3>1. pc[v] \in Gated
      BY <1>1, <2>1, <2>4
    <3>2. \A m \in 1 .. Len(calls) :
            effects'[m] = effects[m] \/ (m = call[w] /\ effects'[m] = "reverted")
      BY <1>2, <2>2
    <3>3. QED
      BY <1>9, <1>14, <3>1, <3>2
  <2>5. ASSUME NEW d \in disturbed'
        PROVE  effects'[d[2]] # "none"
    <3>1. CASE d \in disturbed
      <4>1. d[2] \in Calls /\ effects[d[2]] # "none"
        BY <1>0, <3>1 DEF UndoneInv
      <4>2. QED
        BY <2>2, <4>1
    <3>2. CASE d \notin disturbed
      <4>1. PICK m \in Overturned(w) : d = <<call[w], m>>
        BY <2>1, <2>5, <3>2
      <4>2. m \in Calls \ {call[w]} /\ effects[m] # "none"
        BY <1>2 DEF Overturned
      <4>3. QED
        BY <2>2, <4>1, <4>2
    <3>3. QED
      BY <3>1, <3>2
  <2>6. QED
    BY <1>10, <2>3, <2>4, <2>5
<1>15. QED
  BY <1>11, <1>12, <1>13, <1>14, StepKinds

\* So does every step of the system.
LEMMA UndoneNext ==
  ASSUME Adapter \in {"snapshot", "pointer"}, Inv, EntryInv, UndoneInv, RevertInv,
         [Next]_vars
  PROVE  UndoneInv' /\ RevertInv'
<1>0. /\ TypeOK /\ pc \in [Workers -> Steps] /\ OwnCall /\ Logged
      /\ call \in [Workers -> 0 .. MaxCalls] /\ calls \in Seq(Intents)
      /\ Len(calls) \in Nat
  BY DEF Inv, BaseInv, TypeOK
<1>1. inflight' = {}
  BY NoneInflight DEF UndoneInv
<1>2. \A m : Disturbed(m) => Disturbed(m)'
  BY DisturbedStays
<1>3. \A n \in 1 .. Len(calls) : \A m : Overlaps(n, m) => Overlaps(n, m)'
  BY OverlapStays
\* Nothing but the number of calls and the workers' places changes.
<1>4. ASSUME UNCHANGED <<target, ledger, snap, receipt, effects, disturbed>>,
             Len(calls') \in Nat, Len(calls) =< Len(calls'),
             \A n \in 1 .. Len(calls) : calls'[n] = calls[n],
             \A v \in Workers : pc'[v] \in {"idle", "dedupe"}
                                  \/ (pc'[v] = pc[v] /\ call'[v] = call[v])
      PROVE  UndoneInv' /\ RevertInv'
  <2>1. \A n \in 1 .. Len(calls) : n \in 1 .. Len(calls')
    BY <1>0, <1>4
  <2>2. \A i \in target' : \E m \in 1 .. Len(calls') :
          calls'[m] = i /\ (effects'[m] = "applied" \/ Disturbed(m)')
    BY <1>2, <1>4, <2>1 DEF UndoneInv
  <2>3. ASSUME NEW v \in Workers,
               pc'[v] \in {"reread"} \union Logging \union Gated
        PROVE  pc[v] = pc'[v] /\ call'[v] = call[v] /\ call[v] \in 1 .. Len(calls)
    BY <1>0, <1>4, <2>3 DEF Logging, Gated, OwnCall
  <2>4. ASSUME NEW v \in Workers, pc'[v] \in Gated, NEW i \in snap'[call'[v]]
        PROVE  \E m \in 1 .. Len(calls') :
                 m # call'[v] /\ calls'[m] = i /\ Made(call[v], m)'
    <3>1. pc[v] \in Gated /\ call'[v] = call[v] /\ call[v] \in 1 .. Len(calls)
      BY <2>3, <2>4
    <3>2. PICK m \in 1 .. Len(calls) :
            m # call[v] /\ calls[m] = i /\ Made(call[v], m)
      BY <1>4, <2>4, <3>1 DEF UndoneInv
    <3>3. Overlaps(call[v], m) => Overlaps(call[v], m)'
      BY <1>3, <3>1
    <3>4. Made(call[v], m)'
      BY <1>2, <1>4, <3>1, <3>2, <3>3 DEF Made
    <3>5. QED
      BY <1>4, <2>1, <3>1, <3>2, <3>4
  <2>5. UndoneInv'
    BY <1>1, <1>4, <2>2, <2>4 DEF UndoneInv
  <2>6. Stored' = Stored
    BY <1>4 DEF Stored
  <2>7. RevertInv'
    BY <1>4, <2>3, <2>6 DEF RevertInv
  <2>8. QED
    BY <2>5, <2>7
<1>5. ASSUME NEW w \in Workers, NEW i \in Intents, Submit(w, i)
      PROVE  UndoneInv' /\ RevertInv'
  <2>1. /\ calls' = Append(calls, i) /\ pc' = [pc EXCEPT ![w] = "dedupe"]
        /\ call' = [call EXCEPT ![w] = Len(calls) + 1]
        /\ UNCHANGED <<target, ledger, snap, receipt, effects, disturbed>>
    BY <1>5 DEF Submit, Goto
  <2>2. /\ \A n \in 1 .. Len(calls) : calls'[n] = calls[n]
        /\ Len(calls') \in Nat /\ Len(calls) =< Len(calls')
        /\ \A v \in Workers : pc'[v] = "dedupe" \/ (pc'[v] = pc[v] /\ call'[v] = call[v])
    BY <1>0, <2>1
  <2>3. QED
    BY <1>4, <2>1, <2>2
<1>6. ASSUME Crash \/ UNCHANGED vars
      PROVE  UndoneInv' /\ RevertInv'
  <2>1. /\ UNCHANGED <<target, ledger, calls, call, snap, receipt, effects, disturbed>>
        /\ \A v \in Workers : pc'[v] \in {pc[v], "idle"}
    BY <1>6 DEF Crash, vars, history
  <2>2. QED
    BY <1>0, <1>4, <2>1
<1>7. ~Arrive
  BY DEF Arrive, UndoneInv
<1>8. QED
  BY <1>5, <1>6, <1>7, UndoneStep, RevertStep DEF Next

\* A receipt that says ROLLED_BACK is right about the target, with an adapter that
\* writes its snapshot back and any number of concurrent callers: the change is
\* gone, unless another call of the intent made it or the revert of a call that
\* overlapped wrote it back.
THEOREM RolledBackIsUndone ==
  ASSUME Adapter \in {"snapshot", "pointer"}
  PROVE  Spec => []RolledBackUndone
<1>1. Init => EntryInv /\ UndoneInv /\ RevertInv
  BY DEF Init, EntryInv, UndoneInv, RevertInv, Stored, Logging, Gated
<1>2. Inv /\ EntryInv /\ [Next]_vars => EntryInv'
  BY EntryStep
<1>3. Inv /\ EntryInv /\ UndoneInv /\ RevertInv /\ [Next]_vars => UndoneInv' /\ RevertInv'
  BY UndoneNext
<1>4. UndoneInv /\ RevertInv => RolledBackUndone
  <2>1. SUFFICES ASSUME UndoneInv, RevertInv, NEW r \in Stored, RolledBack(r),
                        calls[r.call] \in target
                 PROVE  \E m \in 1 .. Len(calls) :
                          /\ calls[m] = calls[r.call]
                          /\ (m # r.call /\ effects[m] = "applied") \/ Disturbed(m)
    BY DEF RolledBackUndone, RolledBack
  <2>2. PICK m \in 1 .. Len(calls) :
          calls[m] = calls[r.call] /\ (effects[m] = "applied" \/ Disturbed(m))
    BY <2>1 DEF UndoneInv
  <2>3. effects[r.call] = "reverted"
    BY <2>1 DEF RevertInv
  <2>4. QED
    BY <2>2, <2>3
<1>5. QED
  BY <1>1, <1>2, <1>3, <1>4, InvInit, InvStep, PTL DEF Spec
=============================================================================
