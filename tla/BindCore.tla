------------------------------ MODULE BindCore ------------------------------
(***************************************************************************)
(* execute_bind_adjudication (policy/bind_core/core.py) as its callers run *)
(* it: API threads that submit intents for one governed target, adapters   *)
(* that snapshot, change and restore the target, receipts appended to the  *)
(* TrustLog, and the idempotency lookup over those receipts.               *)
(*                                                                         *)
(* Nothing but the TrustLog append is under a lock, so every read and      *)
(* every effect is a step of its own.                                      *)
(***************************************************************************)
EXTENDS BindGate, Sequences

CONSTANTS
  Workers,      \* threads
  Intents,      \* execution intents, one decision each
  Malformed,    \* intents without target_resource or intended_action
  Adapter,      \* which adapter is bound: see Adapters
  Keyed,        \* intents whose approval context carries an idempotency_key
  RollbackOnApplyFailure,
  Evidence,     \* inputs of the gate a call may meet
  MaxLines,     \* rotation threshold of the TrustLog, in bind entries
  Faults,       \* the kinds of fault the environment may inject
  MaxCalls,     \* bound: calls
  MaxFaults     \* bound: faults injected

(***************************************************************************)
(* snapshot: apply patches the target, revert writes the pre-apply snapshot *)
(*           back (governance policy, compliance config, reference adapter) *)
(* pointer:  apply replaces the target, revert restores the snapshot       *)
(*           (policy bundle promotion)                                     *)
(* webhook:  apply and revert are requests to another system; revert asks  *)
(*           it to compensate this intent                                  *)
(* sticky:   revert does nothing and reports success (system halt, resume) *)
(***************************************************************************)
Adapters == {"snapshot", "pointer", "webhook", "sticky"}

(***************************************************************************)
(* crash:  the process dies; target and TrustLog keep their contents       *)
(* read:   snapshot or fingerprint raises                                  *)
(* apply:  adapter.apply raises, before or after its effect                *)
(* late:   adapter.apply times out with the request still on its way       *)
(* verify: verify_postconditions is False                                  *)
(* escape: verify_postconditions raises                                    *)
(* revert: adapter.revert raises, before or after its effect, or returns   *)
(*         False                                                           *)
(* log:    a TrustLog append raises, before or after writing its line      *)
(* lookup: the TrustLog cannot be read; iter_trust_log then yields nothing *)
(***************************************************************************)
FaultKinds ==
  {"crash", "read", "apply", "late", "verify", "escape", "revert", "log", "lookup"}

ASSUME ConstantsAssumption ==
  /\ Malformed \subseteq Intents
  /\ Adapter \in Adapters
  /\ Keyed \subseteq Intents
  /\ RollbackOnApplyFailure \in BOOLEAN
  /\ Evidence \subseteq Inputs
  /\ MaxLines \in Nat \ {0}
  /\ Faults \subseteq FaultKinds
  /\ MaxCalls \in Nat
  /\ MaxFaults \in Nat

VARIABLES
  target,    \* the governed state: the intents whose change it contains
  inflight,  \* calls whose apply request is still on its way
  ledger,    \* bind entries of the TrustLog, oldest first
  base,      \* trust_log.jsonl holds ledger[base+1 .. Len(ledger)]
  calls,     \* the intent of every call, in the order they began
  pc,        \* next step of each worker
  call,      \* the call a worker runs
  expected,  \* expected_state_fingerprint of each call
  snap,      \* pre_snapshot of each call
  receipt,   \* the receipt in preparation
  result,    \* what the worker's last call returned
  effects,   \* what each call has done to the target
  begun,     \* history: the entries stored when a call began
  unread,    \* history: calls whose lookup of earlier receipts failed
  disturbed, \* history: <<n, m>>: what the revert of n wrote back takes away the
             \* change m has applied, or holds the one m has reverted
  faults

history == <<begun, unread, disturbed>>

vars == <<target, inflight, ledger, base, calls, pc, call, expected, snap,
          receipt, result, effects, begun, unread, disturbed, faults>>

Outcomes ==
  {"COMMITTED", "BLOCKED", "ESCALATED", "ROLLED_BACK", "APPLY_FAILED",
   "SNAPSHOT_FAILED", "PRECONDITION_FAILED"}

Calls == 1 .. MaxCalls

RetrySafeties == {"SAFE", "UNSAFE", "REQUIRES_ESCALATION"}
Rollbacks ==
  {"rolled_back", "rollback_failed", "rollback_not_attempted",
   "manual_intervention_required", "not_required"}

\* prev is prev_bind_hash: the call of an earlier receipt, 0 when None.
Receipt ==
  [call : Calls, outcome : Outcomes, rollback : Rollbacks,
   retry : RetrySafeties, prev : 0 .. MaxCalls]

NoReceipt == [outcome |-> "none"]
Raised    == [outcome |-> "raised"]

\* governance.execution_intent and governance.bind_receipt entries
Entries == [kind : {"intent"}, call : Calls] \union
           [kind : {"receipt"}, call : Calls, receipt : Receipt]

Steps ==
  {"idle", "dedupe", "snapshot", "apply", "verify", "post", "revert_apply",
   "revert_post", "revert_verify", "reread", "log_intent", "log_prev",
   "log_receipt"}

TypeOK ==
  /\ target \subseteq Intents
  /\ inflight \subseteq Calls
  /\ ledger \in Seq(Entries)
  /\ base \in Nat
  /\ base =< Len(ledger)
  /\ calls \in Seq(Intents)
  /\ Len(calls) =< MaxCalls
  /\ pc \in [Workers -> Steps]
  /\ call \in [Workers -> 0 .. MaxCalls]
  /\ expected \in [Calls -> SUBSET Intents]
  /\ snap \in [Calls -> SUBSET Intents]
  /\ receipt \in [Workers -> Receipt \union {NoReceipt}]
  /\ result \in [Workers -> Receipt \union {NoReceipt, Raised}]
  /\ effects \in [Calls -> {"none", "applied", "reverted"}]
  /\ begun \in [Calls -> Nat]
  /\ unread \subseteq Calls
  /\ disturbed \subseteq Calls \X Calls
  /\ faults \in Nat

Init ==
  /\ target = {}
  /\ inflight = {}
  /\ ledger = <<>>
  /\ base = 0
  /\ calls = <<>>
  /\ pc = [w \in Workers |-> "idle"]
  /\ call = [w \in Workers |-> 0]
  /\ expected = [n \in Calls |-> {}]
  /\ snap = [n \in Calls |-> {}]
  /\ receipt = [w \in Workers |-> NoReceipt]
  /\ result = [w \in Workers |-> NoReceipt]
  /\ effects = [n \in Calls |-> "none"]
  /\ begun = [n \in Calls |-> 0]
  /\ unread = {}
  /\ disturbed = {}
  /\ faults = 0

Intent(w) == calls[call[w]]

Fault(kind) ==
  /\ kind \in Faults
  /\ faults < MaxFaults
  /\ faults' = faults + 1

Goto(w, step) == pc' = [pc EXCEPT ![w] = step]

-----------------------------------------------------------------------------
(* Receipts *)

RetrySafety(outcome) ==
  CASE outcome \in {"COMMITTED", "ROLLED_BACK", "BLOCKED"} -> "SAFE"
    [] outcome \in {"ESCALATED", "APPLY_FAILED"} -> "REQUIRES_ESCALATION"
    [] outcome \in {"SNAPSHOT_FAILED", "PRECONDITION_FAILED"} -> "UNSAFE"

RollbackStatus(outcome, revertFailed) ==
  CASE outcome = "ROLLED_BACK"  -> "rolled_back"
    [] outcome = "APPLY_FAILED" -> "rollback_not_attempted"
    [] outcome = "ESCALATED"    ->
         IF revertFailed THEN "rollback_failed" ELSE "manual_intervention_required"
    [] outcome \notin {"ROLLED_BACK", "APPLY_FAILED", "ESCALATED"} -> "not_required"

\* The receipt is complete but for prev_bind_hash; what is left is to log it.
Finalize(w, outcome, revertFailed) ==
  /\ receipt' = [receipt EXCEPT ![w] =
                   [call |-> call[w], outcome |-> outcome,
                    rollback |-> RollbackStatus(outcome, revertFailed),
                    retry |-> RetrySafety(outcome), prev |-> 0]]
  /\ Goto(w, "log_intent")

\* An exception leaves execute_bind_adjudication.
Raise(w) ==
  /\ result' = [result EXCEPT ![w] = Raised]
  /\ Goto(w, "idle")

\* iter_trust_log reads the active file only.
ActiveReceipts(i) ==
  {p \in (base + 1) .. Len(ledger) :
     ledger[p].kind = "receipt" /\ calls[ledger[p].call] = i}

Latest(positions) == {p \in positions : \A q \in positions : q =< p}

\* append_trust_log rotates a full file first.
AppendEntry(e) ==
  /\ ledger' = Append(ledger, e)
  /\ base' = IF Len(ledger) - base >= MaxLines THEN Len(ledger) ELSE base

-----------------------------------------------------------------------------
(* The steps of a call *)

\* The caller reads the target to form the intent and its expected fingerprint.
Submit(w, i) ==
  /\ pc[w] = "idle"
  /\ Len(calls) < MaxCalls
  /\ calls' = Append(calls, i)
  /\ call' = [call EXCEPT ![w] = Len(calls) + 1]
  /\ expected' = [expected EXCEPT ![Len(calls) + 1] = target]
  /\ begun' = [begun EXCEPT ![Len(calls) + 1] = Len(ledger)]
  /\ result' = [result EXCEPT ![w] = NoReceipt]
  /\ Goto(w, "dedupe")
  /\ UNCHANGED <<target, inflight, ledger, base, snap, receipt, effects,
                 unread, disturbed, faults>>

\* Mutant: the key is recorded but never looked up.
ReplayEnabledNever(i) == FALSE

\* Only the webhook adapter builds a key of its own.
ReplayEnabled(i) == Adapter = "webhook" \/ i \in Keyed

\* The latest receipt of the intent is returned, whatever its outcome, with
\* retry_safety SAFE; nothing is appended.
Replay(w) ==
  /\ pc[w] = "dedupe"
  /\ ReplayEnabled(Intent(w))
  /\ \E p \in Latest(ActiveReceipts(Intent(w))) :
       result' = [result EXCEPT ![w] = [ledger[p].receipt EXCEPT !.retry = "SAFE"]]
  /\ Goto(w, "idle")
  /\ UNCHANGED <<target, inflight, ledger, base, calls, call, expected, snap,
                 receipt, effects, faults, history>>

\* No earlier receipt, or the TrustLog cannot be read: the call goes on.
Fresh(w) ==
  /\ pc[w] = "dedupe"
  /\ \/ /\ ReplayEnabled(Intent(w)) => ActiveReceipts(Intent(w)) = {}
        /\ UNCHANGED <<unread, faults>>
     \/ /\ ReplayEnabled(Intent(w))
        /\ Fault("lookup")
        /\ unread' = unread \union {call[w]}
  /\ \/ /\ Intent(w) \in Malformed
        /\ Finalize(w, "PRECONDITION_FAILED", FALSE)
     \/ /\ Intent(w) \notin Malformed
        /\ Goto(w, "snapshot")
        /\ UNCHANGED receipt
  /\ UNCHANGED <<target, inflight, ledger, base, calls, call, expected, snap,
                 result, effects, begun, disturbed>>

SnapshotFails(w) ==
  /\ pc[w] = "snapshot"
  /\ Fault("read")
  /\ Finalize(w, "SNAPSHOT_FAILED", FALSE)
  /\ UNCHANGED <<target, inflight, ledger, base, calls, call, expected, snap,
                 result, effects, history>>

\* The gate's input for worker w: the fingerprints decide the drift signal.
GateInput(w, e) ==
  [authority |-> e.authority, constraints |-> e.constraints, risk |-> e.risk,
   ttl |-> e.ttl, approval |-> e.approval, severity |-> e.severity,
   boundary |-> e.boundary, policy |-> e.policy,
   drift |-> IF e.drift = "missing" THEN "missing"
             ELSE IF target = expected[call[w]] THEN "same" ELSE "differs"]

\* Snapshot, signals, admissibility, precedence and commit boundary.
Adjudicate(w) ==
  /\ pc[w] = "snapshot"
  /\ snap' = [snap EXCEPT ![call[w]] = target]
  /\ \E e \in Evidence :
       LET gate == Gate(GateInput(w, e)) IN
       \/ gate = "apply" /\ Goto(w, "apply") /\ UNCHANGED <<receipt, result>>
       \/ gate \in Outcomes /\ Finalize(w, gate, FALSE) /\ UNCHANGED result
       \/ gate = "raise" /\ Raise(w) /\ UNCHANGED receipt
  /\ UNCHANGED <<target, inflight, ledger, base, calls, call, expected,
                 effects, faults, history>>

\* The change of call n reaches the target.
Effect(n) ==
  /\ target' = IF Adapter = "pointer" THEN {calls[n]} ELSE target \union {calls[n]}
  /\ effects' = [effects EXCEPT ![n] = "applied"]

Apply(w) ==
  /\ pc[w] = "apply"
  /\ Effect(call[w])
  /\ Goto(w, "verify")
  /\ UNCHANGED <<inflight, ledger, base, calls, call, expected, snap,
                 receipt, result, faults, history>>

\* Mutant: a failed apply is reported as a refusal.
ApplyRaisesBlocked(w) ==
  /\ pc[w] = "apply"
  /\ Fault("late")
  /\ inflight' = inflight \union {call[w]}
  /\ Finalize(w, "BLOCKED", FALSE)
  /\ UNCHANGED <<target, ledger, base, calls, call, expected, snap, result,
                 effects, history>>

\* A failed apply is reverted only when the policy says so.
ApplyRaises(w) ==
  /\ pc[w] = "apply"
  /\ \/ /\ Fault("apply")
        /\ UNCHANGED <<target, effects, inflight>>
     \/ /\ Fault("apply")
        /\ Effect(call[w])
        /\ UNCHANGED inflight
     \/ /\ Adapter = "webhook"
        /\ Fault("late")
        /\ inflight' = inflight \union {call[w]}
        /\ UNCHANGED <<target, effects>>
  /\ IF RollbackOnApplyFailure
       THEN Goto(w, "revert_apply") /\ UNCHANGED receipt
       ELSE Finalize(w, "APPLY_FAILED", FALSE)
  /\ UNCHANGED <<ledger, base, calls, call, expected, snap, result, history>>

\* A request that timed out arrives after all.
Arrive ==
  \E n \in inflight :
    /\ inflight' = inflight \ {n}
    /\ Effect(n)
    /\ UNCHANGED <<ledger, base, calls, pc, call, expected, snap, receipt, result, faults, history>>

\* Governance policy and compliance config check what their own update
\* returned, the other adapters read the target.
Verify(w) ==
  /\ pc[w] = "verify"
  /\ \/ /\ Adapter = "snapshot" \/ Intent(w) \in target
        /\ Goto(w, "post")
        /\ UNCHANGED faults
     \/ /\ \/ Adapter # "snapshot" /\ Intent(w) \notin target /\ UNCHANGED faults
           \/ Fault("verify")
        /\ Goto(w, "revert_verify")
  /\ UNCHANGED <<target, inflight, ledger, base, calls, call, expected, snap,
                 receipt, result, effects, history>>

\* Only the webhook adapter catches what its verification raises.
VerifyRaises(w) ==
  /\ pc[w] = "verify"
  /\ Adapter # "webhook"
  /\ Fault("escape")
  /\ Raise(w)
  /\ UNCHANGED <<target, inflight, ledger, base, calls, call, expected, snap,
                 receipt, effects, history>>

\* The second snapshot.
Post(w) ==
  /\ pc[w] = "post"
  /\ \/ Finalize(w, "COMMITTED", FALSE) /\ UNCHANGED faults
     \/ Fault("read") /\ Goto(w, "revert_post") /\ UNCHANGED receipt
  /\ UNCHANGED <<target, inflight, ledger, base, calls, call, expected, snap,
                 result, effects, history>>

Reverting == {"revert_apply", "revert_post", "revert_verify"}

\* Mutant: the defaults are restored instead of the snapshot.
RestoredDefaults(w) == {}

\* What a revert that takes effect makes of the target.
Restored(w) ==
  CASE Adapter \in {"snapshot", "pointer"} -> snap[call[w]]
    [] Adapter = "webhook" -> target \ {Intent(w)}
    [] Adapter = "sticky"  -> target

\* The other calls whose effect that does not respect.
Overturned(w) ==
  {m \in 1 .. Len(calls) : /\ m # call[w]
                          /\ effects[m] = IF calls[m] \in Restored(w)
                                            THEN "reverted" ELSE "applied"}

Undo(w) ==
  /\ target' = Restored(w)
  /\ disturbed' = disturbed \union {<<call[w], m>> : m \in Overturned(w)}
  /\ effects' = [effects EXCEPT ![call[w]] =
                   IF Adapter = "sticky" THEN @ ELSE "reverted"]

\* Mutant: the outcome is decided without calling revert.
RevertSkipped(w) ==
  /\ pc[w] \in Reverting
  /\ Finalize(w, "ROLLED_BACK", FALSE)
  /\ UNCHANGED <<target, inflight, ledger, base, calls, call, expected, snap,
                 result, effects, faults, history>>

\* After a failed verification the target is read once more.
Revert(w) ==
  /\ pc[w] \in Reverting
  /\ Undo(w)
  /\ IF pc[w] = "revert_verify"
       THEN Goto(w, "reread") /\ UNCHANGED receipt
       ELSE Finalize(w, "ROLLED_BACK", FALSE)
  /\ UNCHANGED <<inflight, ledger, base, calls, call, expected, snap, result,
                 faults, begun, unread>>

\* Mutant: the exception of revert is not caught.
RevertFailsRaises(w) ==
  /\ pc[w] \in Reverting
  /\ Fault("revert")
  /\ Raise(w)
  /\ UNCHANGED <<target, inflight, ledger, base, calls, call, expected, snap,
                 receipt, effects, history>>

RevertFails(w) ==
  /\ pc[w] \in Reverting
  /\ Fault("revert")
  /\ Undo(w) \/ UNCHANGED <<target, effects, disturbed>>
  /\ Finalize(w, "ESCALATED", TRUE)
  /\ UNCHANGED <<inflight, ledger, base, calls, call, expected, snap, result,
                 begun, unread>>

Reread(w) ==
  /\ pc[w] = "reread"
  /\ \/ Finalize(w, "ROLLED_BACK", FALSE) /\ UNCHANGED faults
     \/ Fault("read") /\ Finalize(w, "ESCALATED", FALSE)
  /\ UNCHANGED <<target, inflight, ledger, base, calls, call, expected, snap,
                 result, effects, history>>

-----------------------------------------------------------------------------
(* _finalize_receipt: two TrustLog appends *)

IntentEntry(w)  == [kind |-> "intent", call |-> call[w]]
ReceiptEntry(w) == [kind |-> "receipt", call |-> call[w], receipt |-> receipt[w]]

LogIntent(w) ==
  /\ pc[w] = "log_intent"
  /\ AppendEntry(IntentEntry(w))
  /\ Goto(w, "log_prev")
  /\ UNCHANGED <<target, inflight, calls, call, expected, snap, receipt,
                 result, effects, faults, history>>

\* get_previous_bind_hash
Previous(i) == {ledger[p].call : p \in Latest(ActiveReceipts(i))}

\* Mutant: the answer is given before the receipt is stored.
LogPrevAnswers(w) ==
  /\ pc[w] = "log_prev"
  /\ result' = [result EXCEPT ![w] = receipt[w]]
  /\ Goto(w, "log_receipt")
  /\ UNCHANGED <<target, inflight, ledger, base, calls, call, expected, snap,
                 receipt, effects, faults, history>>

LogPrev(w) ==
  /\ pc[w] = "log_prev"
  /\ \/ /\ \E n \in Previous(Intent(w)) :
             receipt' = [receipt EXCEPT ![w] = [@ EXCEPT !.prev = n]]
        /\ UNCHANGED faults
     \/ /\ \/ Previous(Intent(w)) = {} /\ UNCHANGED faults
           \/ Fault("lookup")
        /\ UNCHANGED receipt
  /\ Goto(w, "log_receipt")
  /\ UNCHANGED <<target, inflight, ledger, base, calls, call, expected, snap,
                 result, effects, history>>

LogReceipt(w) ==
  /\ pc[w] = "log_receipt"
  /\ AppendEntry(ReceiptEntry(w))
  /\ result' = [result EXCEPT ![w] = receipt[w]]
  /\ Goto(w, "idle")
  /\ UNCHANGED <<target, inflight, calls, call, expected, snap, receipt,
                 effects, faults, history>>

\* An exception of either append leaves the call, with or without the line.
LogFails(w) ==
  /\ Fault("log")
  /\ \/ /\ pc[w] \in {"log_intent", "log_receipt"}
        /\ UNCHANGED <<ledger, base>>
     \/ pc[w] = "log_intent" /\ AppendEntry(IntentEntry(w))
     \/ pc[w] = "log_receipt" /\ AppendEntry(ReceiptEntry(w))
  /\ Raise(w)
  /\ UNCHANGED <<target, inflight, calls, call, expected, snap, receipt,
                 effects, history>>

Crash ==
  /\ Fault("crash")
  /\ pc' = [w \in Workers |-> "idle"]
  /\ result' = [w \in Workers |-> NoReceipt]
  /\ UNCHANGED <<target, inflight, ledger, base, calls, call, expected, snap,
                 receipt, effects, history>>

Step(w) ==
  \/ Replay(w)
  \/ Fresh(w)
  \/ SnapshotFails(w)
  \/ Adjudicate(w)
  \/ Apply(w)
  \/ ApplyRaises(w)
  \/ Verify(w)
  \/ VerifyRaises(w)
  \/ Post(w)
  \/ Revert(w)
  \/ RevertFails(w)
  \/ Reread(w)
  \/ LogIntent(w)
  \/ LogPrev(w)
  \/ LogReceipt(w)
  \/ LogFails(w)

Next ==
  \/ \E w \in Workers : (\E i \in Intents : Submit(w, i)) \/ Step(w)
  \/ Arrive
  \/ Crash

Spec == Init /\ [][Next]_vars

\* A worker inside execute_bind_adjudication is eventually scheduled.
FairSpec == Spec /\ \A w \in Workers : WF_vars(Step(w))

-----------------------------------------------------------------------------
(* Properties *)

Stored == {ledger[p].receipt : p \in {q \in 1 .. Len(ledger) :
                                        ledger[q].kind = "receipt"}}

\* A stored receipt tells the truth about the effect of its call: COMMITTED was
\* applied, and a refusal or an early failure left the target untouched.
ReceiptTruthful ==
  \A r \in Stored :
    /\ r.outcome = "COMMITTED" => effects[r.call] = "applied"
    /\ r.outcome \in {"BLOCKED", "SNAPSHOT_FAILED", "PRECONDITION_FAILED"} =>
         effects[r.call] = "none"

\* Call n began before call m had stored its receipt.
Overlaps(n, m) ==
  \A p \in 1 .. Len(ledger) :
    ledger[p].kind = "receipt" /\ ledger[p].call = m => begun[n] < p

\* The revert of a call that overlapped call m did not respect m's effect.
Disturbed(m) ==
  \E n \in 1 .. Len(calls) : <<n, m>> \in disturbed /\ Overlaps(n, m)

\* A stored ROLLED_BACK means that the change is gone ("approved, attempted, then
\* rolled back"), unless another call of the intent made it, or an overlapping
\* call, reverted later, wrote back a snapshot that held it. A call that began
\* after the receipt was stored never brings it back.
RolledBackUndone ==
  \A r \in Stored :
    r.outcome = "ROLLED_BACK" /\ calls[r.call] \in target =>
      \E m \in 1 .. Len(calls) :
        /\ calls[m] = calls[r.call]
        /\ (m # r.call /\ effects[m] = "applied") \/ Disturbed(m)

\* Only a call whose pre_snapshot is the state its intent was formed against
\* has an effect, whatever other workers changed in between.
DriftChecked == \A n \in Calls : effects[n] # "none" => snap[n] = expected[n]

\* A call with an idempotency key has no effect when the TrustLog held a receipt
\* of its intent as it began, whatever other workers did in the meantime ("do not
\* re-apply external effects"): unless a rotation has put the receipt out of
\* reach, or the TrustLog could not be read.
ReplayPreventsReapply ==
  \A p \in (base + 1) .. Len(ledger), n \in 1 .. Len(calls) :
    /\ ledger[p].kind = "receipt"
    /\ p =< begun[n]
    /\ calls[n] = calls[ledger[p].call]
    /\ calls[n] \in Keyed
    /\ n \notin unread
    => effects[n] = "none"

\* The same of every later submission of the intent, as the adapter contract has
\* it: also of one that overlaps the first.
NeverReapplied ==
  base = 0 =>
    \A r \in Stored, n \in 1 .. Len(calls) :
      r.call < n /\ calls[n] = calls[r.call] /\ calls[n] \in Keyed =>
        effects[n] = "none"

\* A committed change is in the target ("approved and applied"), unless the revert
\* of a call that overlapped it wrote back a snapshot without it. The revert of a
\* call that began after the receipt was stored never takes it away.
CommittedInPlace ==
  \A r \in Stored :
    r.outcome = "COMMITTED" => calls[r.call] \in target \/ Disturbed(r.call)

\* What a caller is told has been stored: the receipt a call returns, its own
\* or a replayed one, is on the TrustLog, whatever the other workers do.
ReturnedIsStored ==
  \A w \in Workers :
    result[w].outcome \in Outcomes =>
      \E r \in Stored : result[w] = [r EXCEPT !.retry = result[w].retry]

\* An effect on the target is followed by a receipt for it, whatever fails in
\* the adapter (the TrustLog itself working).
EffectRecorded ==
  \A n \in Calls : effects[n] # "none" ~> \E r \in Stored : r.call = n
=============================================================================
