# TLA+ verification of VERITAS OS

VERITAS OS is a control plane for decisions of AI agents. Its promise is that a
decision is safe to act on only when every gate let it through, that an approved
decision reaches the outside world only through a *bind boundary* that checks it
again, and that everything is recorded in a tamper-evident *TrustLog*. This
directory holds TLA+ models of the parts that carry this promise (the decision
pipeline with its safety gate, the governance policy store, runtime authority,
the bind boundary, the promotion packets, the ledgers, and the API process around
them), TLC configurations that check them on small instances, and TLAPS proofs
of their central properties for every size of the system. `PROJECT.json` maps every
definition to the lines it models and lists runs, mutants, findings, hazards and
theorems; paths below are relative to `veritas_os/`.

## 1. Inventory

| Component | State it keeps | Operations | What is hard |
|---|---|---|---|
| **TrustLog, files** `logging/trust_log.py`, `trust_log_core.py`, `rotate.py`, `encryption.py` | `trust_log.jsonl`, `trust_log_old.jsonl`, `.last_hash`, `trust_log.json`, one process-wide lock | `append_trust_log`, `get_last_hash`, `rotate_if_needed`, readers | five files changed by one call; crash, I/O error or torn line between any two steps; reads whose errors are swallowed; rotation while the chain must go on |
| **Signed witness ledger** `audit/trustlog_signed.py`, `storage_mirror.py`, `anchor_backends.py` | `trustlog.jsonl` of signed witness lines, WORM mirror | `append_signed_decision`, called at the end of every append | best effort after the entry is durable; which errors are swallowed |
| **TrustLog, PostgreSQL** `storage/postgresql.py`, `storage/db.py` | `trustlog_entries`, `trustlog_chain_state`, an advisory lock | `append`, `import_entry`, readers | several processes; connections that drop; answers to COMMIT that are lost |
| **veritas-migrate** `cli/migrate.py` | position in the file, report | `migrate trustlog`, `--verify` | fails line by line and goes on; dies and is run again; request ids that repeat or are absent |
| **Bind core** `policy/bind_core/`, `policy/bind_artifacts.py` | none of its own: target, TrustLog entries | `execute_bind_adjudication` | runs in API threads without a lock: lookup, snapshot, gate, apply, verify, revert and log are separate steps |
| **Bind adapters** `policy/bind_boundary_adapters.py`, `policy/webhook_bind_adapter.py` | the governed targets: policy, compliance config, halt flag, bundle pointer, remote system | `snapshot`, `apply`, `verify_postconditions`, `revert` | each may fail before or after its effect; a request may arrive after its timeout |
| **Bind gate** `core/continuation_runtime/bind_admissibility.py`, `core/decision_semantics.py` | none | `evaluate_bind_admissibility`, `resolve_decision_precedence` | order of evaluation of nine inputs under four policy switches |
| **Commit boundary, runtime authority, approvals** `governance/commit_boundary.py`, `runtime_authority.py`, `human_approval_receipt.py`, `authority_evidence.py` | registries of verified proofs; proofs, receipts and evidence that callers keep | verification into proofs, evaluation at bind time | windows that close, keys that are withdrawn and authority that is revoked between verification and use |
| **Governance policy store** `api/governance.py`, `governance/*_repository.py` | policy, history of events, subscribers | `update_policy`, `rollback_policy`, `save_policy`, four-eyes check | read-merge-write; policy and history are two writes; retention lock-in against what was loaded |
| **Decision pipeline** `core/pipeline/`, `core/kernel.py` | healing state on disk, trust log, the request's context | `run_decide_pipeline`: kernel, healing loop, pre-check, compiled policy, gate, response, persistence | four parts judge one request one after the other; errors are absorbed; a crash in the retry loop; writers between the decision and its receipt |
| **Decision semantics** `core/decision_semantics.py`, `core/pipeline/pipeline_response.py`, `core/lineage_promotability.py` | none | gate, business decision, required evidence, actionability | precedence of many flags |
| **FUJI gate** `core/fuji/` | none | head, deterministic layer, policy, rejection codes | floors, caps, tiers and limits applied in order |
| **Self healing** `core/self_healing.py` | `healing_state` file per request | guard rails, action table | budget across crashes and resubmissions |
| **Promotion packets** `policy/canonical_decision_handoff.py`, `policy/guarded_promotion_eligibility.py` to `policy/live_adapter_dry_run_bind_authorization_gate_review.py` | 20 documents, each embedding the one before | a builder and a verify function for each | documents pass through many hands; what is checked at one stage must still be true of the chain at the last |
| **SSE hub** `api/sse_hub.py` | history, bounded queues | publish, register, unregister | delivery outside the lock |
| **Nonces and rate limits** `api/rate_limiting.py`, `api/auth.py` | nonce store, buckets, cleanup timers | check, cleanup, start, stop | eviction at the limits; timers that outlive a stop |
| **API lifespan** `api/lifespan.py`, `api/middleware.py` | in-flight counter, shutdown flag | admit, leave, drain, stop | requests and callbacks that overlap the shutdown |
| **Continuation runtime** `core/continuation_runtime/` | claim lineage and its status | revalidate, enforce | order of statuses over a long history |
| **Memory, planner, debate, world, value core, replay, compliance, WAT, policy compiler, evidence bundles, frontend, SDK** | memory files or tables, otherwise per request | `/v1/memory`, exports and others | mostly sequential computation over text and documents |

How they interact: a request of `/v1/decide` passes the guards of the API
process and runs through the pipeline, which asks the kernel's FUJI, the
pre-check's FUJI and the compiled policy, derives the public gate, and writes
the TrustLog. A decision that may be acted on becomes a canonical handoff, and
packet after packet is built on it up to the review of the bind authorization
gate. An API thread forms an *execution intent* from a decision and the current
state of a target and calls `execute_bind_adjudication`. That looks for an earlier
receipt of the intent in the TrustLog, takes a snapshot of the target, runs the
gate (which asks the commit boundary and its runtime authority), lets the
adapter act, and appends the intent and a *bind receipt* to the TrustLog. The
policy that the adapters and gates read is kept by the governance store. The
TrustLog is either the file ledger (one process, several threads) or PostgreSQL
(several processes), moved from one to the other by `veritas-migrate`. Threads
share targets, stores and ledgers and nothing else.

What makes each part correct:

* a ledger is one chain that only grows, no returned entry is ever lost, mirror
  and witness agree with it, and a swallowed read error costs a link or old
  items and never gives a wrong one; a migrated ledger is the same chain as its
  source, or verification says that it is not;
* a bind has an effect only when its gate opened, tells the truth about it in a
  receipt, does not have it again once a receipt is stored, and its revert
  touches no change of a call that was over before it began;
* the gate fails closed and never gets looser when evidence gets worse;
* authority and approval are in force, and for this action, at the moment an
  action may be committed, whenever they were verified;
* the policy's history is the history of the policy, and a lock-in is checked
  against what is replaced, not against what was read;
* no denial is lost on the way to the answer, retries are bounded whatever
  crashes, and every request is answered;
* a receipt attests the decision that the caller gets;
* a promotion chain that verifies is about one operation, passed over no
  refusal, and could have been built;
* the API's guards, events and shutdown keep their promises when stores and
  queues are full and callbacks overlap.

## 2. Modules

| Module | Models |
|---|---|
| `HashChain` | abstract: one growing chain of entries, acknowledged entries are on it |
| `TrustLog` | the file ledger with rotation, marker, mirror and witness; implements `HashChain` |
| `PgTrustLog` | the PostgreSQL ledger and the migration into it; implements `HashChain` |
| `BindGate` | the gate as a pure function of its inputs |
| `BindAdmissibility` | the gate under evidence that gets worse and policy that gets stricter |
| `BindCore` | `execute_bind_adjudication` in several threads over one target, composed with `BindGate` and the rotating TrustLog |
| `GovernanceStore` | the governance policy on its two repositories |
| `RuntimeAuthority` | proofs, approvals and the commit boundary against a clock, revocation and withdrawn keys |
| `FujiGate`, `DecisionSemantics`, `SelfHealing` (with `Optional`) | the safety gate, the public decision and the guard rails of retries, as operators |
| `DecidePipeline` | one request through the pipeline, composed of the three above, with crashes and resubmission |
| `SseHub` | the event hub |
| `ApiServer` | the API process: lifespan, guards, stores, timers, composed with `SseHub` |
| `DecisionHandoff` | the verdict on a canonical handoff |
| `PromotionPackets` | builder and verify function of every packet |
| `PromotionChain` | the chain as it grows and as documents in it are changed by hand |
| `MC*` | constants for TLC |
| `*Proofs` | theorems |

### 2.1 TrustLog

All lines ever written are one sequence `log`; the two files are windows of it
(`activeBase`, `oldBase`), so that "what is still readable" and "what was ever
written" can be compared. `marker`, `items` (trust_log.json), `witness` and
`worm` are the other files; `lock` is `_trust_log_lock`.

`Begin` takes the lock, reads the previous hash (`LastHash`, the search order
of `_get_last_hash_unlocked`) and `trust_log.json`, and sees whether the file is
full; then come `Rotate` and `MarkerWrite` (truncate, then write), `Replace` (the
rename), `Write`, `Mirror`, `Sign`. They are separate actions because a crash or
an `OSError` may come between any two. `Fails`, `MarkerFails` and `SignerFails`
are the paths on which an error ends the call or is swallowed by rotation; a
rotation that meets an undecodable last line leaves the marker as it was (JSON
error) or ends the call (`DecryptionError`). `Crash` keeps the files and what the
interrupted step left of its line.

The two reads of `Begin` swallow their errors. `Read` gives what the code gives
then: no previous hash, or that of the rotated file when only the marker could
not be read (`HashOnError`, `trust_log.py:263` and `311`), and an empty list of
items (`trust_log.py:367`), which the next save writes back with one entry in
it. The history variables `blind` and `reset` name the entries this happened to,
so that the properties can say how far the damage goes: such an entry names no
predecessor, never a wrong one; and the mirror lacks what is older than it.

SHA-256 is taken to be collision free: a digest is a fresh number. Redaction,
canonical JSON and encryption are reduced to what decoding a line gives: `ok`,
`decrypt` or `json`. A line without its newline is glued to the next one
(`Put`, `Glue`), as appending to such a file does.

### 2.2 PgTrustLog

`Lock`, `Read`, `Insert` or `Conflict`, `Commit`, `Return` are the statements
of `PostgresTrustLogStore.append`; committed rows and chain state change in
`Commit` only, locks are released with the transaction, and a spent id is not
given back. `Drop` ends a transaction, `LostAnswer` loses the answer to a
COMMIT that happened. `Start`, `ImportLine`, `Duplicate`, `LineFails`, `Exit`
are the loop of `_migrate_trustlog`, `Killed` its death before or after a
line's COMMIT, `Switch` the operator's change of backend after a migration that
reported success. Appends and migration do not overlap, as
`docs/en/operations/postgresql-production-guide.md` requires.

The unique column holds an entry's request id, or its digest when it has none
(`Taken`, `postgresql.py:153`); a repeated append without a request id has a new
digest and is stored again. `source` is the file that is migrated: one with
different request ids, files in which two lines share one (every decide request
writes two entries under its id), and lines without any. The history variable
`gap` notes when a line was first stored ahead of one that the table lacked.

### 2.3 BindGate and BindAdmissibility

`Inputs` holds what the gate looks at: three signals, drift, two freshness
windows, the severity of the carried decisions, the commit boundary's answer,
and the policy's four switches. `Gate` follows the order of the code, including
the two ways an exception leaves it. `BindAdmissibility` starts from every
input (373 248) and worsens one field at a time.

### 2.4 BindCore

`target` is the set of intents whose change is in the governed state, `ledger`
the bind entries of the TrustLog with `base` where the active file begins,
`calls` the intents of all calls. Every worker runs one call through the steps
`dedupe` (`Replay` or `Fresh`), `snapshot` (`Adjudicate`, which evaluates
`Gate` against the target as it is then), `apply`, `verify`, `post`, one of
three reverts, `reread`, and the two appends with the lookup of the previous
receipt between them. The constant `Adapter` selects how `apply`,
`verify_postconditions` and `revert` treat the target. A webhook request that
timed out stays in `inflight` and may `Arrive` at any later time. Faults are
those of the adapter's calls, before or after their effect, of the TrustLog
append, of the reads of the TrustLog (`iter_trust_log` then yields nothing, so
that an earlier receipt is not found), and a crash that keeps target and ledger.

`effects` is a history variable: what each call has really done. Receipts are
compared with it. `begun` is the length of the ledger as a call began, which
orders calls and receipts; `disturbed` names the calls whose effect a revert did
not respect, because the snapshot it wrote back was older or younger than that
effect. No lock joins snapshot and revert, so this happens whenever calls
overlap; the properties say that it happens then only.

### 2.5 GovernanceStore

`Update`, `Rollback` and `SavePolicy` are the entry points of
`api/governance.py` up to the repository: approvals, load, merge, lock-in. Then
the steps of the repository that was chosen at start (`backend`): `FileSave`,
`FileAppend` with trimming, or `PgSelect`, `PgLock`, `PgInsert`, `PgCommit` of
`_write_policy_event` at READ COMMITTED, where a row that lost its flag while the
transaction waited for the lock is not returned. `Notify` calls the
hot-reload subscribers. A policy keeps the two retention fields and one section
that only updates touch; digests are equal when policies are, so a policy
stands for its digest. A retention version has its text without the spaces
around it, which may be empty: the lock-in compares only versions that say
something (`RetentionKept`, `governance.py:513`). `RequireFourEyes` is the switch
of the approval check, the event type is what the patch asks for, and the file
repository keeps the names of the reviewers and not their approval records
(`NewEvent`). Faults: an unreadable file (the code falls back to the
default), failed writes, lost transactions, lost answers, a crash.

### 2.6 RuntimeAuthority

`VerifyAuthority` and `VerifyApproval` make proofs and register them,
`Evaluate` runs the validator or the commit boundary with whatever evidence,
proof and form of approval its entry point can pass, and `Answer` ends the
evaluation; between them `Tick`, `Revoke`, `WithdrawKey` and `Restart` may
happen. `AuthorityStatuses` and `ActionStatuses` are the predicates of
`validate` in two groups, `Recommended` is `_build_result` with its precedence of
indeterminate over stale over failed. A revocation checker reports what was true
at the instant it names; the code only bounds that instant's age. Signatures
verify or not by their key; times are integers, and a timestamp may be
unreadable.

### 2.7 DecidePipeline

`Submit` to `Answer` are the stages of one request: the kernel's FUJI
(`CoreDecide`), the self-healing loop with its file (`HealAccepted`, `HealStep`,
`Retry`, `RetryFails`, `HealFails`), one step for the stages without a
suspension point from pre-check to response and canonical artifact (`Decide`),
the writers after it (`Audit`, `Persist`), the comparison of what they left with
the artifact (`Verify`, `verify_canonical_decision_source_unchanged`), which
ends the request when they differ, and the trust link with its receipt (`Link`,
which may also fail after the ledger entry is written). `Crash` may come
anywhere, and the client submits the same request id again. What kernel,
pre-check and policy `said` is kept as history, so that the answer can be
compared with it. `Drifts` are gates that a writer may leave in the payload: the
drift check is what stands between that and the caller.

`FujiGate` follows `fuji_gate`: fallback of the safety head, deterministic
layer, policy with its categories, tiers and limits, PoC mode, rejection code.
`DecisionSemantics` derives gate, business decision, next action, required
evidence and actionability. Risks are integers in units of 1/10000 and telos in
percent, so that thresholds keep their exact comparisons. `SelfHealing` has the
six guard rails. The texts are abstracted to the hits that the pattern
matchers find.

### 2.8 ApiServer and SseHub

`SseHub` keeps `_seq`, `_history`, `_subscribers` and the queues: `Publish`
numbers and stores an event under the lock, `Deliver` puts it into one queue at a
time after the lock is released; `Register` takes history and membership
together and `Fill` puts the history into the new queue. What a full queue
refuses is counted in `dropped`.

`ApiServer` is one process. A request goes through `Arrive` (middleware and API
key), `RateLimit`, `CheckTimestamp`, `CheckSignature`, handler and `Respond`, on
the memory or on the redis store, which may be unreachable. `Clean` and `Rearm`
are the two halves of a timer's callback, `Stop` and `Cancel` those of the
scheduler's stop. `ShutDown`, `Drained` and `Stopped` are the lifespan. The
in-flight counter falls when the response starts (`middleware.py:195`): bodies that
are still being sent are in `body` and are not waited for. The rate buckets are
a dictionary with a capacity; what `_cleanup_rate_bucket_unsafe` removes, the old
ones and the oldest over `BucketMax`, is `Old` and `Pushed`, and `evicted` notes
the keys that lost a bucket for lack of room.

The nonces in hand are a set of records with the order in which they were
registered; what the code keeps in an ordered dictionary, and evicts from its old
end, is a condition on that order (`After`, `Newest`, `CleanupNonces`).

### 2.9 PromotionChain

`DecisionHandoff` is `validate_canonical_decision_handoff`: its checks in order,
on documents whose ids, hashes and times are small values. `PromotionPackets` has
for each of the 20 stages what the builder accepts and what the verify function
checks, and only that: they differ in places. `PromotionChain` appends packets
with any inputs a caller may give and the builder takes (`Build`, `Admits`), and
`Edit` changes one packet by hand: its time, an input, its result or a copied
field. The rest of the chain then keeps its digests, has them computed again, or
has everything that it derives computed again (`Again`, `Remade`, a recursive
function over the packets that follow; no builder is asked whether it would take
the documents). A rehearsal's output holds the intent and the target it was made
for besides the fixture; the builder derives them, an edit may state others. A
target is a system and a resource, and the places that look at the resource only
do so here (`ApprovalInvalid`, `canonical_decision_handoff.py:430`).

## 3. Runs

Passing runs:

| Run | Instance | Shows |
|---|---|---|
| `trustlog_chain` | 2 threads, 6 appends, files of 2 lines, 2 faults (crash, I/O error, failed read, signer error) | one chain across rotations, cut only where a read failed (`ChainContinuity`), `trust_log.json` misses only what was trimmed or what a failed load discarded (`MirrorComplete`), witness lines refer to written entries in order (`WitnessFollowsLedger`), refinement of `HashChain`, the lock is always given back (`LockReleased`) |
| `trustlog_torn` | files of 3 lines, WORM hard fail, 2 faults (crash, I/O error, failed read, torn line, marker failure) | the active file verifies but for entries whose writer could not read it (`ActiveLinked`) |
| `bind_gate` | every input, every worsening | `FailClosed`, `NeverLoosens` |
| `bind_overlap` | 2 workers, 3 calls, 2 faults of all kinds but timeouts, failed lookups included, snapshot adapter, log files of 4 entries; an intent with an idempotency key, one without, a malformed one | a call whose intent had a receipt as it began has no effect (`ReplayPreventsReapply`); only the revert of an overlapping call takes a committed change away (`CommittedInPlace`) or brings a rolled-back one back (`RolledBackUndone`) |
| `bind_concurrent` | 2 workers, 2 calls, 3 faults, webhook adapter with late requests, log files of 2 entries | `ReceiptTruthful`, `ReturnedIsStored`, and `EffectRecorded`: every effect ends in a receipt |
| `pg_trustlog` | 2 connections, 4 files of up to 3 lines with request ids that differ, repeat or are absent, 3 migration runs, 6 ids, 3 faults (drop, lost answer, kill, a line that fails) | when a migrated table verifies and when it does not (`MigrationVerifies`), every line of a migration that exits with 0 has a row under its key (`MigrationComplete`), what row count and verification together show (`ChecklistSound`), refinement of `HashChain` until a line is stored ahead of a missing one |
| `governance_store` | 2 workers, both repositories, 3 requests, a history of 2 events, 1 fault of 6 kinds, blank retention versions, event types chosen by the caller | `AuditChain`, `HistoryTruthful`, `RetentionLocked`, and `Answered`: every request ends |
| `runtime_authority` | 3 postures, 3 pieces of evidence, 2 receipts, 8 requests, times 0 to 3, revocation status good for 1, 1 revocation | `RevocationWindow`, `AuthorityInForce`, `ApprovalInForce`, `BoundaryClosed` |
| `decide_pipeline` | 13 requests, 4 answers of the safety head, 3 FUJI policies, 6 bundle evaluations, a writer that opens the gate, 2 submissions, 2 attempts | `FailClosed`, `ActionableIsClean`, `RetryBudget`, `ReceiptTrue`, and `Answered` |
| `api_server` | 2 workers, 1 stream, 2 keys and 1 bucket, history and queue of 1, 2 events, a limit of 2 per window, both stores, 6 workloads of 2 to 5 requests over up to 5 windows | `NonceOnce`, `RateBound`, `DrainHonest`, `NothingLost`, `NoDuplicates`, `SweepersSilent` |
| `promotion_chain` | 30 handoffs (three can become ready, one is ready without evidence, each other has one defect), 3 contracts, 2 times, edits at three lengths of the chain | `OneOperation`, `NothingRefused`, `Replayable` |

One violation run, a disagreement between the code and what the repository
says of it; the finding in `PROJECT.json` quotes both:

| Run | Counterexample |
|---|---|
| `bind_replay_race` | two overlapping submissions of one intent both miss the receipt and both apply |

Why the bounds are enough: a rotation needs a full file, the errors around it
a fault before and one after it, and the recovery of a lost hash a second
rotation: six appends over files of two lines give three. A failed load of the
mirror needs entries before it and the trimming after it: items are kept two
deep. The races of the bind core need two workers; a receipt that is stored
before a call begins, and a revert that overlaps another call, three calls; the
interplay of failures inside a call (apply fails, then revert fails, then the log
fails) three faults. Migration needs a line before and one after the one that
fails, and a rerun after a rerun; a repeated request id in the middle of a file
and at its end. In the policy store a lost update needs two overlapping requests
and a first row a third; trimming a history of two events needs a third, and so
does a version that is blanked and set again. A revocation window of one needs a
proof before the revocation, a time at which the proof is still good and one at
which it is not. The retry budget needs a crash in the middle of the loop and
one resubmission. In the API, two workers, one nonce more than the store holds,
one key more than there are buckets and one event more than a queue holds reach
every limit; five requests with a limit of two are one more than two limits,
and five windows pass the four after which a bucket is swept. A promotion chain
has a fixed length, so that only the documents are bounded: every check has a
document that fails it.

The free times of a promotion chain are limited to the stages 1 and 18 (`Timed`)
and edits to the lengths 5, 14 and 20 (`EditAt`): after the formation of the
intent, after the credential, and at the end; an edit reaches every packet before
that length, and its time as well. Workers of `api_server` and of `bind_overlap`
are interchangeable (symmetry, with invariants only).

Deadlock is checked in the file-ledger runs, where `prepare_entry` may always
be called. The other models are bounded (`MaxCalls`, `MaxIds`, `MaxOps`,
`MaxSubmissions`, `MaxRequests`, `MaxTime`, a last packet, inputs that cannot get
worse) and may simply stop when nobody calls: their configurations say
`CHECK_DEADLOCK FALSE`. That a request in progress never gets stuck is what the
liveness properties say.

Fairness: `LockReleased`, `EffectRecorded` and both `Answered` assume weak fairness
of the steps of a thread inside a call, that is, the operating system schedules
a runnable thread and a file, database, adapter or LLM call returns, raises or
times out; a wait for a row lock ends when the lock is free. Nothing is
assumed about calls being made, faults happening, or late requests arriving.

Every property of a passing run has a mutant in the module it is about: a
change of one mapped definition, such as a missing lock, a swapped rename, a
digest that is not compared, that makes TLC find the property violated.

### Limits of the properties that hold

Where the properties stop holding when a premise is dropped. These are stated
so that the premises are not overlooked; each can be reproduced by the change
in the second column.

| Property | Change | What happens |
|---|---|---|
| `ChainContinuity` | without `blind` | an `OSError` while the previous hash is read is swallowed: the entry names no predecessor, and verification stops there (`trust_log.py:311`) |
| `MirrorComplete` | without `reset` | an unreadable `trust_log.json` counts as empty and is overwritten with one entry (`trust_log.py:367`) |
| `ChainContinuity` | `trustlog_chain` with the fault `torn` | a torn line that is alone in the file hides the marker: the next entry starts a new chain |
| `AckedDurable` | the same | an entry appended after a torn line is glued to it, is returned, and can never be decoded (`trust_log.py:424`) |
| `ChainContinuity` | `trustlog_chain` with the fault `marker_open` | the old marker survives the rotation and is trusted after a crash: the chain forks |
| `ReplayPreventsReapply` | over the whole ledger instead of the active file, `MaxLines = 2` | lookups read the active file only: a rotated receipt is not found |
| `ReplayPreventsReapply` | without `unread` | a lookup that cannot read the TrustLog finds no receipt, and the effect happens again (`trust_log.py:567`) |
| `ReplayPreventsReapply` | for receipts stored after the call began | `bind_replay_race` |
| `ReplayPreventsReapply` | for intents outside `Keyed` | the default idempotency key is empty and the lookup is skipped |
| `CommittedInPlace` | without `Disturbed` | the revert of an overlapping call writes back a snapshot older than the committed change (`bind_boundary_adapters.py:111`): no lock and no comparison joins snapshot and revert |
| `RolledBackUndone` | without `Disturbed` | the revert of an overlapping call brings the rolled-back change back |
| `RolledBackUndone` | `Adapter = "sticky"`, fault `read` | a halt is not undone by its revert, the receipt says ROLLED_BACK |
| `RolledBackUndone` | `Adapter = "webhook"`, fault `late` | the request arrives after its compensation |
| `MigrationVerifies` | `VerifyOk` for every `report = "ok"` | a run repeated after a failed line puts that line last; the second of two entries with one request id is skipped as a duplicate and its successor has no predecessor. Both runs exit with 0, and the chain does not verify, where `postgresql-production-guide.md:553-560` and `648-662` call the tool idempotent and resume-safe |
| `ChecklistSound` | without the row count | a table that lacks the first lines of the file verifies: the first row is compared with nothing |
| `RetentionLocked` | for versions that are blank | an update may set the version to spaces, and the next one to another: the lock-in holds for one update, not for "Immutable once retention_enforced_at_write=true" (`governance.py:152`) |
| `RetentionLocked` | for rollbacks and saves as well | a rollback takes its target as it is |
| `FailClosed` (pipeline) | with holds and escalations as well | the kernel's allow goes before a hold of the pre-check and an enforced escalation (`pipeline_response.py`) |
| `FailClosed` (pipeline) | for every rejection of the pre-check | an enforced escalation writes over the rejection (`pipeline_policy.py:258`) |
| `RateBound` | for evicted keys as well, `Limit = 1`, five requests of two keys | a key whose bucket was dropped for lack of room begins a new window (`rate_limiting.py:45`) |
| `DrainHonest` | for bodies as well | the counter falls as the response starts: a clean drain may cut off a body |
| `OneOperation` | without `~edited`, for the rehearsal | no verify function compares the intent and target that a rehearsal's output states with the chain's (`reference_adapter_rehearsal.py:537-563`) |
| `OneOperation`, `Replayable` | without `~edited`, or for the 14th packet | verification of the credential authorization does not repeat the builder's check that the reference is for the chain's contract and endpoint (`live_adapter_dry_run_credential_authorization.py:540-547`) |

Other behaviour that a reader of the code may not expect, met while modelling:

* **TrustLog.** A torn last line in a full file makes rotation, and so every
  later append, end in `DecryptionError`, which the docstring of
  `append_trust_log` does not list. An exception of the signing backend that is
  not an `OSError`, `ValueError` or `TypeError` leaves `append_trust_log` although
  the entry is durable. With WORM hard fail an append still returns when its
  mirror write failed: the error raised at `trustlog_signed.py:957` is swallowed
  at `trust_log.py:446`.
* **PostgreSQL.** `import_entry` takes no advisory lock; the operations guide
  requires appends to be quiesced. An append without a request id that is
  repeated after a lost answer is stored twice; one with a request id ends in a
  unique violation.
* **Bind.** The freshness timestamp is taken before the snapshot; two receipts
  of one intent may name the same previous hash, and after a rotation none. A
  replayed receipt is always labelled `retry_safety=SAFE`, and a crash between
  the effect and the first append leaves nothing a resubmission could find.
* **Policy store.** The file repository has no lock around load and save: of two
  overlapping updates one is lost, and the retention lock-in with it. An
  unreadable policy file is the default policy. Switching
  enforcement off and then changing the version are two legal updates. The file
  repository's history names reviewers without their signatures. On a
  fresh PostgreSQL table every update conflicts until a save has written a row.
  Callbacks may arrive out of order.
* **Runtime authority.** In dev an approval given as a dictionary never expires
  and is bound to nothing. Context binding compares only values that callers
  pass. An approval proof is not compared with the signer policy or the registry
  again. Stale evidence gives `escalate` although other predicates fail.
* **Pipeline.** Without a kernel result and with a clean pre-check the gate is
  open. A category over its limit ignores the risk tiers; tiers that do not
  cover the risk allow. "modify" skips the check of high risk with low telos.
  Caps can undo floors. An illicit text with little evidence is rejected as
  F-1002, which may be retried. The audit entry holds FUJI's status, not the
  gate. A refused lineage under an open gate fails the request. A link whose
  validation fails late leaves a ledger entry without a receipt. A policy bundle
  that cannot be loaded has no effect.
* **API.** Events may arrive out of order, which nothing promises otherwise.
  Fixed windows let up to two limits through in one window length, and requests
  let through while the store is unreachable in open mode are not charged.
* **Promotion chain.** After the credential authorization no times are compared
  between stages: authority that has expired by the gate review still passes.
  Endpoint and credential need not have the intent's target: an endpoint
  candidate's contract and target are compared with the allowlist only. An
  approval names the resource of its target and not the system. A ready handoff
  without authority or approval evidence makes the eligibility builder raise
  `TypeError`. Digests are not signatures: a chain made anew from other
  documents is a new chain.

## 4. Proofs

The theorems hold for every number of threads, connections, calls, files,
lines and faults, under the assumptions on constants in the modules
(`ConstantsAssumption`).

**`TrustLogProofs`.** `TypeCorrect` rests on `LockInv` (only the holder of the
lock is inside a call) and `RotationInv` (rotation meets a file with a line).
`ActiveFileLinked` holds under all faults, torn lines and failed reads included:
the reason is `PrevInv`, that until its line is written the writer holds the hash
of the newest decodable line of the active file, or none when it could not read
the file; a rename empties the file and makes the claim void, a glued line is
undecodable and drops out. `ChainUnbroken`, `AckedEntriesDurable` and
`LedgerImplementsHashChain` assume `ReliableFiles`: no torn lines, and the marker
can be opened; reads may fail. The invariant `ChainInv` adds that lines are whole
and chained, that the writer holds the head hash (or none) also across the
rename, and `MarkerInv`: when the active file is empty the marker is right or
absent, and if it is absent the rotated file is there. The refinement maps the
chain to `log`; every step is an abstract append, an acknowledgement or a
stutter. The abstract append links to the head, or to nothing where `Restarts`
allows it, which the file ledger does exactly when reads may fail.

`MirrorIsComplete` holds under all faults. That nothing is missing from
`trust_log.json` but its old end is not inductive: trimming could take away an
entry newer than one that stays, and a call could return before its entry is
there. `MirrorInv` adds that the items are ordered and at most `MaxItems`, that a
thread has loaded all of them or, when its read failed, none, that an entry
between its preparation and the mirror step is newer than all of them, and that
it is among them from the mirror step until the call returns. `WitnessIsOnLedger`
needs `ReliableFiles` (a glued line takes the entry of an earlier witness line
with it) and `WitnessInv`: until its thread has signed, the entry in hand is newer
than all witness lines.

**`PgTrustLogProofs`.** All theorems hold under all faults and for every file,
whichever request ids repeat or are absent. `TypeCorrect` and `HeadIsCurrent` come
from the invariant `Inv`: open transactions hold the advisory lock (`Serial`),
what they have read is still current (`Current`), and digests tell migrated from
appended rows (`Numbered`). `MigratedChainVerifies` and
`BackendImplementsHashChain` need `SoundInv`: as long as no line was stored ahead
of a missing one the migrated rows are the first lines of the file in order,
however often the migration died (`InOrder`), and every row names the one before
it (`Linked`); once one was, the row behind the gap names another row than the
one before it, for good (`Broken`). `ChecklistIsSound` adds `Consecutive`: rows
that verify before the switch are lines that follow each other in the file, so
that as many rows as lines can only be all of them. For `MigrationIsComplete`,
`CopyInv` says what a run has done so far: unless it has counted a failure, the
key of every line behind it is taken, by the line or by another entry with its
request id.

**`BindCoreProofs`.** `TypeCorrect`, `ReceiptsTellTruth` and `DriftIsChecked`, for
every adapter, interleaving and fault. The invariant says that busy workers run
different calls that have begun (`OwnCall`), that a receipt in preparation is of
the worker's own call (`Prepared`), that a stored receipt's call has ended
(`Logged`), and `EffectInv`: before its apply a call has no effect and no request
on its way, between apply and its second snapshot it has one, and every receipt,
prepared or stored, is true of it, now and after any request that may still
arrive. `DriftIsChecked` assumes `DriftRequired`, the default of the policy.

`GateFailsClosed` and `GateNeverLoosens` are about `BindAdmissibility`: the gate's
order of evaluation is replaced by two order-free descriptions, `Eligible` and
`Barred`, shown equal to it.

`ReturnedReceiptsStored` also holds for everything: a call returns its receipt after
the append that stores it, or one it found stored, and entries stay. The other
three results say what a receipt means later, for any number of concurrent
callers and any crashes and faults. All use `EntryInv`, that entries stay where
they are and calls began at a length of the ledger.

* `RepeatsHaveNoEffect`: a call whose intent has a receipt in the active file that
  was stored before the call began is `Inert`, without effect, without a request
  on its way, and not past the lookup (`ReplayInv`). Such a call is answered from
  its start or never, since entries are only added and rotation only forgets.
* `CommittedStaysInPlace` is about adapters that write their snapshot back, or
  whose revert does nothing. `PlaceInv` carries an applied change not only in the
  target but in the snapshot that a call past its gate would write back, unless
  that call overlaps the change or the change was disturbed already.
* `RolledBackIsUndone` is about adapters that restore a snapshot. `UndoneInv` says
  that every change in the target is that of a call which was applied and not
  reverted, or was written back by one that overlapped it (`Made` for snapshots),
  and `RevertInv` that whoever says ROLLED_BACK has been reverted.

The assumptions on `Adapter` are the two that the table of limits shows to be
needed: a halt is not undone by its revert, and a webhook request may arrive late.

**`GovernanceStoreProofs`.** `AuditChainHolds`, `NewestIsCurrent`,
`HistoryIsTruthful`, `ReviewersNamed`, `RetentionIsLocked`, from one invariant:
a request in hand is well formed, so that an update has passed the lock-in against
the policy it was computed from, and has its approvals if they are required
(`Formed`); a transaction
past its lock still holds the newest row, and that row has the digest its caller
read (`HoldsRow`); only one transaction does (`Exclusive`); and whatever is stored
or about to be reported has been current (`Remembered`). The lock-in then holds
because the policy that is replaced is the policy that was checked.
`ReviewersNamed` is for `RequireFourEyes` switched on, and speaks of signatures on
PostgreSQL only, where they are kept.

**`RuntimeAuthorityProofs`.** `RevocationBounded`, `AuthorityIsInForce`,
`ApprovalIsInForce`, `BoundaryIsClosed`, `ContractIsKept`, for any evidence,
requests, keys and length of time. The invariant that carries a proof object
over time is `ProofSound`: its status was true when it was checked, and its key was
allowed by the signer policy it names. The rest is the case analysis of one
evaluation: `commit` needs every predicate to pass.

**`DecidePipelineProofs`.** `PipelineFailsClosed`, `ActionableAnswersClean`,
`ContractKept`, `ReceiptsAreTrue`, `BudgetKept`, `SafetyIsFinal`, for all requests,
LLM answers, policies and bundles and any number of crashes and submissions.
The retry budget needs `Counted`: the file never says less than has been
retried, because it is written before the retry it counts. What is promised of the
answer is an invariant of the artifact's decision (`ClosedDecision`,
`CleanDecision`), and the payload agrees with the artifact everywhere but between
the writers and the drift check (`Undrifted`), which is also what `ReceiptsAreTrue`
needs. `PipelineFailsClosed` exempts, as the code does, a rejected pre-check that
an enforced escalation writes over. `SafetyIsFinal` needs
that the code in the loop came from the kernel for this request (`FromKernel`) and
lemmas about the operators of `FujiGate`.

**`ApiServerProofs`.** `ApiImplementsHub` shows that the process uses the hub
only through the hub's own steps; `NothingIsLost` and `NoEventTwice` are proved
of the hub from `HubInv`: for each client the places an event can be in (read,
queued, to be filled in, with a publisher, dropped) are disjoint and together
hold everything since the client's history began. `DrainIsHonest` rests on the
counter being the number of requests before their response, `SweepersAreSilent`
on stopped timers staying stopped. `RateIsBounded` needs `Charged` of every key
that never lost its bucket for lack of room: the last requests that passed are
those of the current window, those a limit further back are more than a window
old, and a bucket that was swept leaves none that is younger than a window.
`RefusalsDeserved` needs only what is left of it for the others (`Counted`).
`NoncesAreRegisteredOnce` needs `NonceInv`: the store holds entries of
registrations only, and every one that lives and that fewer than `NonceMax`
later ones followed. Eviction keeps this because an entry is evicted only when
`NonceMax` newer ones are in the store, each of which is a registration of its
own.

**`PromotionChainProofs`.** `ChainIsOneOperation`, `ChainRefusesNothing` and
`ChainIsReplayable`, for all handoffs, contracts, fixtures, endpoints,
credentials, references and times, and whatever packet was edited, resealed or
made again. The state invariants are small: `ChainInv`, that packets have their
fields, times and inputs of their stage, and `BuiltInv`, that while nobody has
changed a document the rehearsal and the credential reference are those their
builders took. The rest is about any chain that the verify functions accept,
however it came about. What they need is an argument over the length of the
chain: `SlotsCarried`, that what a stage derives (the intent, the target, the
contract, the endpoint, the credential) is what the last packet still repeats,
since each verify function compares the copied fields with those of the embedded
packet and adds only its own. The identity checks of the last linkages, which
look at copied fields only, then speak of the documents of the first stages
(`IntentOfChain`, `SelectedTarget`, `NamesOperation`). For `ChainIsReplayable`
an accepted packet is shown to be the one that its stage derives from its inputs
and its time (`VerifiedIsMade`), by induction the chain that `Remade` gives is
the chain itself, and every packet but the 14th meets the guards of its builder
(`VerifiedIsAdmitted`). Both inductions use a least counterexample (`LeastNat`,
from `WFMin` of `WellFoundedInduction`), for a set of lengths rather than for a
predicate. The only assumption is that times are integers (`TimesAssumption`):
the code refuses timestamps it cannot parse.

Assumptions on constants are those the code gives (sizes and limits are
positive where the code needs it; `None` is no policy, evidence, receipt or
answer). TLC evaluates all of them.

Proved and not part of a run: the type invariants, `AckedDurable`,
`HeadCurrent`, `DriftChecked`, `NewestCurrent`, `TwoReviewers`, `WithinContract`,
`ContractHolds`, `SafetyNotRetried`, `RefusedOverLimit`.

Only model-checked is liveness (`LockReleased`, `EffectRecorded`, both
`Answered`), which the prover does not support. Every invariant, action property
and refinement that a run checks is also proved.

## 5. Not modelled

The map covers the parts of the repository that keep state, race, fail halfway
or decide. What it leaves out is most of the repository by lines:

* Computation over text and numbers without state of its own: debate, planner,
  critique, reason, world model, value core, retrieval, web search,
  sanitisation, pattern matching of FUJI and of the EU AI Act module. The
  decision only reads their results, which are inputs of the models.
* Schemas, configuration, posture, routes and response shaping, dashboards,
  reports, metrics, scripts, benchmarks, the frontend and the SDK.
* Pure computations over one document that golden tests cover: the policy
  compiler and evaluator, evidence bundles and their verification, canonical
  decision artifact, canonical replay and the replay binding upstream of the
  handoff (the handoff validator repeats the binding's identity checks).
* Cryptography, redaction, canonical JSON: digests are equal when contents are,
  signatures verify or do not.

Inside the modelled parts:

* `append_trustlog=False` of the bind core (neither lookup nor log).
* `write_shadow_decide`, which writes an independent file per request.
* Two processes on one file ledger: the documentation restricts the file
  backend to one process. The witness ledger's cross-process file lock and torn
  witness lines.
* Appends during a migration (quiesced by procedure), the memory migration.
* Two concurrent submissions of one request id to the pipeline, and the
  unlocked value EMA, which is an input.
* The throttle of failed API keys, which only chooses between 401 and 429;
  several lifespans in one process.
* The order in which a guard reads the clock and takes its lock: one step.

## 6. Plan

Modelled, in this order: file TrustLog, bind gate, bind core, PostgreSQL
TrustLog with migration, governance policy store, runtime authority, decision
pipeline, API process, promotion chain. Next:

1. `ContinuationRuntime`: claim status over a sequence of revalidations.
   REVOKED and a durable HALTED should be terminal; a durably narrowed claim
   reopens on the next pass without restrictions, and a degraded claim that is
   evaluated with better evidence becomes LIVE although the docstring at
   `revalidator.py:443` says that statuses are never upgraded. Today no decision
   depends on it: the pipeline imports it from a package that does not exist and
   swallows the error.
2. `MemoryLifecycle`: legal hold and retention against erasure, compaction and
   the two backends.
3. `WatTokens`: issue, replay check and revocation, with the retention
   boundary of the policy store.
4. Composition of `GovernanceStore` with `BindCore`: the policy adapter's
   apply is a `SavePolicy` there and a snapshot restore here.
