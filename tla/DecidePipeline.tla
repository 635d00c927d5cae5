--------------------------- MODULE DecidePipeline ---------------------------
(***************************************************************************)
(* One request of /v1/decide through core/pipeline: the kernel and its     *)
(* FUJI evaluation, the self-healing loop with its state on disk, the FUJI *)
(* pre-check, the compiled policy, the value core and the gate, the answer *)
(* and its canonical artifact, and what is written afterwards.             *)
(*                                                                         *)
(* The process may crash anywhere; the client submits the same request id  *)
(* again. LLM answers, the policy file, the policy bundle, evidence counts,*)
(* telos, the value EMA and the debate are inputs.                         *)
(***************************************************************************)
EXTENDS DecisionSemantics, FujiGate, SelfHealing

CONSTANTS
  Requests,          \* what a client may ask
  Heads,             \* answers of llm_safety, None when it fails
  Policies,          \* FUJI policies that hot reload may bring in force
  Bundles,           \* evaluations of the compiled policy bundle
  KernelEvidence,    \* how many pieces of evidence the kernel ends up with
  MinEvidence,       \* VERITAS_MIN_EVIDENCE
  EnvPoc,            \* the PoC mode of the environment
  TelosScores,       \* telos score of the kernel, percent
  Emas,              \* stored value EMA, percent
  RejectedCounts,    \* options that the debate rejects
  Outputs,           \* what differs between two outputs of the kernel
  Persisters,        \* best-effort writers after the audit log
  Drifts,            \* gates that a writer may leave in the payload
  MaxSubmissions     \* bound on the submissions of the request

Gates == {"proceed", "hold", "human_review_required", "block"}

ASSUME PipelineAssumption ==
  /\ None \notin Allowing \union Holding \union {"deny", "contract"}
  /\ Drifts \subseteq Gates
  /\ MaxSubmissions \in Nat
  /\ MinEvidence \in Nat
  /\ EnvPoc \in BOOLEAN

VARIABLES
  q,             \* the request
  pc,            \* where the pipeline is
  submissions,   \* how often the request was submitted
  raw,           \* ctx.raw: FUJI's decision and code, the telos score; or None
  healing,       \* healing_state
  tried,         \* ctx.healing_attempts is not empty
  file,          \* the persisted healing state, or None
  payload,       \* the decision payload, or None
  artifact,      \* the canonical decision artifact, or None
  degraded,      \* _stage_failures
  receipt,       \* the trust link receipt in the answer: its artifact, or None
  ledger,        \* entries of the trust log
  retries,       \* history: retries since the healing state was last fresh
  retried,       \* history: codes that were retried
  said,          \* history: what kernel, pre-check and policy said
  why            \* history: what made the last submission fail

vars == <<q, pc, submissions, raw, healing, tried, file, payload, artifact, degraded,
          receipt, ledger, retries, retried, said, why>>

Idle == {"idle", "done", "failed"}

Nothing == [kernel |-> None, pre |-> None, policy |-> None]

-----------------------------------------------------------------------------
(* The kernel *)

\* What may happen in a call of the kernel: FUJI raises, or evaluates.
KernelCases ==
  [fails : BOOLEAN, answer : Heads, policy : Policies, telos : TelosScores,
   evidence : KernelEvidence]

\* kernel.decide passes FUJI neither poc_mode nor min_evidence.
KernelFuji(r, c) ==
  IF c.fails THEN [status |-> "deny", decision |-> "deny", risk |-> 10000, code |-> None]
  ELSE FujiGate(r.text, c.answer, c.policy,
                [stakes |-> r.stakes, telos |-> c.telos, safe |-> r.safe,
                 low |-> c.evidence < MinEvidence, poc |-> EnvPoc])

\* What the pipeline reads of the kernel's result. The risk and the status of
\* FUJI are overwritten by those of the pre-check.
KernelResult(r, c) ==
  LET fuji == KernelFuji(r, c)
  IN [decision |-> fuji.decision, code |-> fuji.code, telos |-> c.telos]

\* The pairs of a request and what the kernel may return for it.
KernelReturns == {<<r, KernelResult(r, c)>> : r \in Requests, c \in KernelCases}

ASSUME KernelAssumption == None \notin {pair[2] : pair \in KernelReturns}

KernelResults == {pair[2] : pair \in {pair \in KernelReturns : pair[1] = q}}

\* load_healing_state: a state that cannot be read is a fresh one.
LoadHealingState ==
  \E h \in {Fresh} \union (IF file = None THEN {} ELSE {file}) :
    /\ healing' = h
    /\ retries' = IF h = Fresh THEN 0 ELSE retries

\* A submission, up to the call of the kernel.
Submit ==
  /\ pc \in Idle
  /\ submissions < MaxSubmissions
  /\ submissions' = submissions + 1
  /\ LoadHealingState
  /\ pc' = "core"
  /\ raw' = None
  /\ tried' = FALSE
  /\ payload' = None
  /\ artifact' = None
  /\ degraded' = {}
  /\ receipt' = None
  /\ said' = Nothing
  /\ why' = None
  /\ UNCHANGED <<q, file, ledger, retried>>

\* stage_core_execute: a kernel that is missing or raises leaves nothing.
CoreDecide ==
  /\ pc = "core"
  /\ raw' \in KernelResults \union {None}
  /\ pc' = IF raw' # None /\ q.healing THEN "heal" ELSE "policy"
  /\ UNCHANGED <<q, submissions, healing, tried, file, payload, artifact, degraded, receipt,
                 ledger, retries, retried, said, why>>

-----------------------------------------------------------------------------
(* Self-healing *)

\* clear_healing_state: an error is logged, and the file stays.
ClearHealingState == file' \in {None, file}

\* No rejection: the loop ends, and the state goes when it was used.
HealAccepted ==
  /\ pc = "heal"
  /\ raw.code = None
  /\ IF tried THEN ClearHealingState ELSE UNCHANGED file
  /\ pc' = "policy"
  /\ UNCHANGED <<q, submissions, raw, healing, tried, payload, artifact, degraded, receipt,
                 ledger, retries, retried, said, why>>

\* append_trust_log in the loop: written, or skipped on some errors.
LogHealing(stop) ==
  ledger' \in {ledger, ledger \union {[kind |-> "healing", ref |-> stop]}}

\* Other errors of the log, and those of the state file, end the request.
HealFails ==
  /\ pc = "heal"
  /\ raw.code # None
  /\ LogHealing(FALSE)
  /\ pc' = "failed"
  /\ why' = "healing"
  /\ UNCHANGED <<q, submissions, raw, healing, tried, file, payload, artifact, degraded,
                 receipt, retries, retried, said>>

\* Mutant: the state is written when the retry is over.
HealStepLatePersist ==
  /\ pc = "heal"
  /\ raw.code # None
  /\ \E output \in Outputs, late \in BOOLEAN :
       LET code == raw.code
           sig == <<code, output>>
           stop == GuardStops(healing, code, sig, late) \/ ~Healable(code)
       IN /\ LogHealing(stop)
          /\ tried' = TRUE
          /\ IF stop
             THEN ClearHealingState /\ pc' = "policy" /\ UNCHANGED healing
             ELSE /\ healing' = Advance(healing, code, sig)
                  /\ file' = IF healing = Fresh THEN file ELSE healing
                  /\ pc' = "retry"
  /\ UNCHANGED <<q, submissions, raw, payload, artifact, degraded, receipt, retries, retried,
                 said, why>>

\* One turn of the loop with a rejection: stop, or persist and retry.
HealStep ==
  /\ pc = "heal"
  /\ raw.code # None
  /\ \E output \in Outputs, late \in BOOLEAN :
       LET code == raw.code
           sig == <<code, output>>
           stop == GuardStops(healing, code, sig, late) \/ ~Healable(code)
       IN /\ LogHealing(stop)
          /\ tried' = TRUE
          /\ IF stop
             THEN ClearHealingState /\ pc' = "policy" /\ UNCHANGED healing
             ELSE /\ healing' = Advance(healing, code, sig)
                  /\ file' = healing'
                  /\ pc' = "retry"
  /\ UNCHANGED <<q, submissions, raw, payload, artifact, degraded, receipt, retries, retried,
                 said, why>>

\* The history counts one retry too many at most.
CountRetry ==
  /\ retries' = IF retries > MaxAttempts THEN retries ELSE retries + 1
  /\ retried' = retried \union {raw.code}

\* The kernel is called again.
Retry ==
  /\ pc = "retry"
  /\ CountRetry
  /\ raw' \in KernelResults
  /\ pc' = "heal"
  /\ UNCHANGED <<q, submissions, healing, tried, file, payload, artifact, degraded, receipt,
                 ledger, said, why>>

\* The retry raises: the state is written again and the rejection stays.
RetryFails ==
  /\ pc = "retry"
  /\ CountRetry
  /\ \/ pc' = "policy" /\ file' = healing /\ UNCHANGED why
     \/ pc' = "failed" /\ why' = "healing" /\ UNCHANGED file
  /\ UNCHANGED <<q, submissions, raw, healing, tried, payload, artifact, degraded, receipt,
                 ledger, said>>

-----------------------------------------------------------------------------
(* Pre-check, compiled policy, value core and gate *)

\* What may happen between the pre-check and the answer.
DecideCases ==
  [fails : BOOLEAN, answer : Heads, policy : Policies, bundle : Bundles, ema : Emas,
   rejected : RejectedCounts]

\* stage_fuji_precheck: an error rejects. validate_action passes no evidence:
\* little evidence counts only when the context says so.
PrecheckFuji(r, c) ==
  FujiGate(r.text, c.answer, c.policy,
           [stakes |-> r.stakes, telos |-> r.telos, safe |-> r.safe \/ r.masked,
            low |-> r.enforceLow /\ r.minEvidence > 0, poc |-> r.poc])

PrecheckResult(r, c) ==
  IF c.fails THEN [status |-> "rejected", risk |-> 10000]
  ELSE [status |-> Precheck(PrecheckFuji(r, c)), risk |-> PrecheckFuji(r, c).risk]

\* _is_enforcement_enabled_for_rollout: an unknown strategy enforces.
Enforced(r, b) ==
  /\ r.enforce
  /\ b.strategy # "disabled"
  /\ b.strategy \in {"canary", "staged"} => b.promoted \/ b.inCanary

\* What the compiled policy says with effect; None without a bundle, when it
\* cannot be loaded or evaluated (outcome None), or when it is not enforced.
PolicySays(r, b) == IF r.bundle /\ b.outcome # None /\ Enforced(r, b) THEN b.outcome ELSE None

\* _apply_compiled_policy_runtime_bridge writes over the status of the pre-check.
Bridge(status, policy) ==
  IF policy \in {"deny", "halt"} THEN "rejected"
  ELSE IF policy \in {"escalate", "require_human_review"} THEN "modify"
  ELSE status

\* stage_value_core and stage_gate_decision: the risk with the debate's part,
\* at most 0.20; the effective risk; the telos threshold, per mille.
DebateRisk(risk, n)        == AtMost(risk + AtMost(500 * n, 2000), 10000)
EffectiveRisk(risk, ema)   == (risk * (10000 - 15 * ema)) \div 10000
TelosThreshold(ema)        == 550 - 2 * (ema - 50)

\* stage_gate_decision: "modify" neither rejects nor looks at the risk.
GateStage(r, status, effective, telos, threshold) ==
  LET first == IF status = "rejected" THEN "rejected"
               ELSE IF status # "modify" /\ effective >= 9000 /\ 10 * telos < threshold
               THEN "rejected" ELSE "allow"
      missing == first = "allow" /\ DeclaredMissing(r) # {}
      ambiguous == \/ "high_risk_ambiguity" \in r.flags
                   \/ "ambiguity_detected" \in r.flags /\ effective >= 8000
      untraced == "irreversible_action" \in r.flags /\ r.audit = "no"
  IN [decision |-> IF untraced THEN "rejected"
                   ELSE IF first = "allow" /\ (missing \/ ambiguous) THEN "hold"
                   ELSE first,
      review |-> missing \/ ambiguous \/ untraced \/ "human_review_required" \in r.flags]

\* _build_response_layers: a lineage that may not be promoted is refused.
Respond(r, fields) == IF NonPromotable(r.signal) THEN Refuse(fields) ELSE fields

\* What the stages from the pre-check to the answer make of a request for which
\* the kernel said k (None: no result) with a telos score.
Decision(r, k, telos, c) ==
  LET pre == PrecheckResult(r, c)
      policy == PolicySays(r, c.bundle)
      status == Bridge(pre.status, policy)
      risk == DebateRisk(pre.risk, c.rejected)
      gate == GateStage(r, status, EffectiveRisk(risk, c.ema), telos, TelosThreshold(c.ema))
      v == [kernel |-> k, status |-> status, decision |-> gate.decision, risk |-> risk,
            review |-> gate.review]
  IN [said |-> [kernel |-> k, pre |-> pre.status, policy |-> policy],
      answer |-> Respond(r, DeriveBusinessFields(r, v))]

KernelSays == {None, "allow", "hold", "deny"}

Decisions ==
  {<<r, k, telos, Decision(r, k, telos, c)>> :
     r \in Requests, k \in KernelSays, telos \in TelosScores \union {0}, c \in DecideCases}

\* Stages 6 and 7 run without a suspension point. The telos score of a request
\* without a kernel result is 0. An answer that breaks the public contract
\* fails the request. The artifact copies the decision; the submission stands
\* for decision_ts. Nothing reads the kernel's result or the healing state after
\* this.
Decide ==
  /\ pc = "policy"
  /\ \E choice \in Decisions :
       /\ choice[1] = q
       /\ choice[2] = IF raw = None THEN None ELSE raw.decision
       /\ choice[3] = IF raw = None THEN 0 ELSE raw.telos
       /\ LET d == choice[4]
              valid == ValidCombination(d.answer.gate, d.answer.business, d.answer.review)
          IN /\ said' = d.said
             /\ payload' = IF valid THEN d.answer ELSE None
             /\ artifact' = IF valid THEN [decision |-> d.answer, at |-> submissions] ELSE None
             /\ pc' = IF valid THEN "audit" ELSE "failed"
             /\ why' = IF valid THEN None ELSE "contract"
  /\ raw' = None
  /\ healing' = Fresh
  /\ tried' = FALSE
  /\ UNCHANGED <<q, submissions, file, degraded, receipt, ledger, retries, retried>>

-----------------------------------------------------------------------------
(* After the decision *)

\* persist_audit_log: most errors are logged and forgotten, some reported. The
\* entry holds FUJI's status, not the decision.
Audit ==
  /\ pc = "audit"
  /\ \/ /\ ledger' = ledger \union {[kind |-> "decide", ref |-> Bridge(said.pre, said.policy)]}
        /\ UNCHANGED degraded
     \/ degraded' \in {degraded, degraded \union {"audit_log"}} /\ UNCHANGED ledger
  /\ pc' = "persist"
  /\ UNCHANGED <<q, submissions, raw, healing, tried, file, payload, artifact, receipt,
                 retries, retried, said, why>>

\* The other writers of _run_post_decision_persistence_phase. They are handed the
\* payload and parts of it by reference: a decision field may be another after.
Persist ==
  /\ pc = "persist"
  /\ \E failed \in SUBSET Persisters : degraded' = degraded \union failed
  /\ \E gate \in Drifts \union {payload.gate} : payload' = [payload EXCEPT !.gate = gate]
  /\ pc' = "verify"
  /\ UNCHANGED <<q, submissions, raw, healing, tried, file, artifact, receipt, ledger, retries,
                 retried, said, why>>

\* The request fails: no answer.
Fail(reason) ==
  /\ pc' = "failed"
  /\ why' = reason
  /\ payload' = None
  /\ artifact' = None

\* Mutant: the artifact is not compared with what the payload has become.
VerifyNothing ==
  /\ pc = "verify"
  /\ \/ pc' = "link" /\ UNCHANGED <<payload, artifact, why>>
     \/ Fail("drift")
  /\ UNCHANGED <<q, submissions, raw, healing, tried, file, degraded, receipt, ledger, retries,
                 retried, said>>

\* verify_canonical_decision_source_unchanged makes the artifact again, which may
\* fail on what the writers left, and compares.
Verify ==
  /\ pc = "verify"
  /\ \/ /\ payload = artifact.decision
        /\ pc' = "link"
        /\ UNCHANGED <<payload, artifact, why>>
     \/ Fail("drift")
  /\ UNCHANGED <<q, submissions, raw, healing, tried, file, degraded, receipt, ledger, retries,
                 retried, said>>

\* record_canonical_decision_trust_link: the append fails, or what it returned
\* does not pass _validate_entry, or there is a receipt.
Link ==
  /\ pc = "link"
  /\ \/ degraded' = degraded \union {"canonical_trust_link"} /\ UNCHANGED <<ledger, receipt>>
     \/ /\ ledger' = ledger \union {[kind |-> "link", ref |-> artifact]}
        /\ \/ degraded' = degraded \union {"canonical_trust_link"} /\ UNCHANGED receipt
           \/ receipt' = artifact /\ UNCHANGED degraded
  /\ pc' = "replay"
  /\ UNCHANGED <<q, submissions, raw, healing, tried, file, payload, artifact, retries, retried,
                 said, why>>

\* _persist_canonical_replay_source, and the answer.
Answer ==
  /\ pc = "replay"
  /\ degraded' \in {degraded, degraded \union {"canonical_replay_source"}}
  /\ pc' = "done"
  /\ UNCHANGED <<q, submissions, raw, healing, tried, file, payload, artifact, receipt, ledger,
                 retries, retried, said, why>>

\* The process stops: only the file and the ledger are left.
Crash ==
  /\ pc \notin Idle
  /\ pc' = "idle"
  /\ raw' = None
  /\ healing' = Fresh
  /\ tried' = FALSE
  /\ payload' = None
  /\ artifact' = None
  /\ degraded' = {}
  /\ receipt' = None
  /\ said' = Nothing
  /\ UNCHANGED <<q, submissions, file, ledger, retries, retried, why>>

-----------------------------------------------------------------------------
Init ==
  /\ q \in Requests
  /\ pc = "idle"
  /\ submissions = 0
  /\ raw = None
  /\ healing = Fresh
  /\ tried = FALSE
  /\ file = None
  /\ payload = None
  /\ artifact = None
  /\ degraded = {}
  /\ receipt = None
  /\ ledger = {}
  /\ retries = 0
  /\ retried = {}
  /\ said = Nothing
  /\ why = None

\* What the worker of the request does once it has it.
Work ==
  \/ CoreDecide
  \/ HealAccepted
  \/ HealFails
  \/ HealStep
  \/ Retry
  \/ RetryFails
  \/ Decide
  \/ Audit
  \/ Persist
  \/ Verify
  \/ Link
  \/ Answer

Next == Submit \/ Work \/ Crash

Spec == Init /\ [][Next]_vars /\ WF_vars(Work)

-----------------------------------------------------------------------------
(* Properties *)

TypeOK ==
  /\ q \in Requests
  /\ pc \in Idle \union {"core", "heal", "retry", "policy", "audit", "persist", "verify", "link",
                          "replay"}
  /\ submissions \in 0 .. MaxSubmissions
  /\ pc \in {"heal", "retry"} => raw # None
  /\ pc = "retry" => raw.code # None
  /\ healing.attempt \in 0 .. MaxAttempts
  /\ file # None => file.attempt \in 1 .. MaxAttempts
  /\ tried \in BOOLEAN
  /\ pc \in {"audit", "persist", "verify", "link", "replay", "done"} =>
       payload.gate \in Gates
  /\ degraded \subseteq Persisters \union
       {"audit_log", "canonical_trust_link", "canonical_replay_source"}
  /\ receipt \in {None, artifact}
  /\ retries \in Nat
  /\ why \in {None, "healing", "contract", "drift"}

\* A denial is never lost on the way to the caller: the gate blocks when the
\* kernel's FUJI denied, when the enforced policy denied or halted, when the
\* pre-check rejected (and no enforced policy asked for a human instead), and
\* when an irreversible action has no complete audit trail.
FailClosed ==
  /\ pc = "done"
  /\ \/ said.kernel = "deny"
     \/ said.policy \in {"deny", "halt"}
     \/ said.pre = "rejected" /\ said.policy \notin {"escalate", "require_human_review"}
     \/ "irreversible_action" \in q.flags /\ q.audit # "complete"
  => payload.gate = "block"

\* An answer that asks for nothing but a bind before execution misses no
\* required evidence, has no sensitive key open, was not held by the kernel's
\* FUJI, and does not come from a lineage that may not be promoted.
ActionableIsClean ==
  (pc = "done" /\ payload.actionability = "bind_required_before_execution") =>
    /\ MissingEvidence(q) = {}
    /\ SensitiveMissing(q) = {}
    /\ said.kernel \in {None, "allow"}
    /\ ~payload.review
    /\ ~NonPromotable(q.signal)

\* What _derive_business_fields derives never breaks the public contract: a
\* request fails on it only when its lineage was refused.
ContractHolds == why = "contract" => NonPromotable(q.signal)

\* However often the process crashes and the request comes back, the kernel is
\* called again at most MaxAttempts times on one healing state: the state is
\* written before the retry that it counts.
RetryBudget == retries <= MaxAttempts

\* A rejection for safety is never retried, nor is any rejection of a text
\* with a prompt injection.
SafetyNotRetried ==
  /\ retried \intersect Unhealable = {}
  /\ q.text.injection > 0 => retried = {}

\* A receipt in an answer attests the decision that the caller gets, made by this
\* submission, and the ledger has its entry: whatever the writers between the
\* artifact and the link did to the payload, and whatever earlier submissions
\* left in the ledger.
ReceiptTrue ==
  pc = "done" /\ receipt # None =>
    /\ receipt = [decision |-> payload, at |-> submissions]
    /\ [kind |-> "link", ref |-> receipt] \in ledger

\* Every submission ends: with an answer, with an error, or with a crash. The
\* worker goes on while it can; the guard rails end the retry loop.
Answered == pc \notin Idle ~> pc \in Idle
=============================================================================
