--------------------------- MODULE GovernanceStore --------------------------
(***************************************************************************)
(* The governance policy and its audit history (api/governance.py) on the  *)
(* two repositories that may back it: a JSON file with a JSONL history     *)
(* (governance/file_repository.py) and PostgreSQL                          *)
(* (governance/postgresql_repository.py, at READ COMMITTED).               *)
(*                                                                         *)
(* A policy keeps one section that only updates touch (rules) and the two  *)
(* retention fields of the section wat. Digests are equal when policies    *)
(* are, so a policy stands for its digest.                                 *)
(***************************************************************************)
EXTENDS Naturals, Sequences

CONSTANTS
  Workers,     \* threads that serve governance requests
  None,        \* no policy, no request, no change of a field
  Backends,    \* the values VERITAS_GOVERNANCE_BACKEND may have
  Rules,       \* values of the section rules
  Versions,    \* what a retention_policy_version says, spaces around it apart
  Default,     \* what GovernancePolicy() gives
  Patches,     \* the patches of requests
  Targets,     \* the policies a rollback or a save may ask for
  Approvals,   \* the approval lists of requests
  Labels,      \* the _event_type of a patch, "update" when it has none
  RequireFourEyes, \* VERITAS_GOVERNANCE_REQUIRE_FOUR_EYES is not switched off
  HistoryMax,  \* _POLICY_HISTORY_MAX
  Faults,      \* the kinds of fault the environment may inject
  MaxOps,      \* bound: requests
  MaxFaults    \* bound: faults injected

\* min_length=1 lets a version of nothing but spaces pass.
Version ==
  [text : Versions \union {""}, spaces : BOOLEAN] \ {[text |-> "", spaces |-> FALSE]}

Policies == [rules : Rules, retention : Version, enforced : BOOLEAN]

\* A patch names the fields it sets; None leaves a field as it is.
Patch == [rules : Rules \union {None}, retention : Version \union {None},
          enforced : BOOLEAN \union {None}]

(***************************************************************************)
(* read: the policy file cannot be read and the default stands in for it   *)
(* save: the policy cannot be written                                      *)
(* append: the event is not written; this is logged, not raised            *)
(* drop: the transaction is lost before its COMMIT                         *)
(* lost: the answer to the COMMIT is lost                                  *)
(* crash: the process dies between two steps of a request                  *)
(***************************************************************************)
FaultKinds == {"read", "save", "append", "drop", "lost", "crash"}

ASSUME ConstantsAssumption ==
  /\ None \notin Policies \union Rules \union Version \union BOOLEAN
  /\ Backends \subseteq {"file", "postgresql"}
  /\ Default \in Policies
  /\ Patches \subseteq Patch
  /\ Targets \subseteq Policies
  /\ <<>> \in Approvals
  /\ RequireFourEyes \in BOOLEAN
  /\ HistoryMax \in Nat \ {0}
  /\ MaxOps \in Nat
  /\ MaxFaults \in Nat

VARIABLES
  backend,  \* fixed when the process starts
  file,     \* the policy file, None before the first save
  rows,     \* committed rows of governance_policies
  events,   \* history lines of the file, or rows of governance_policy_events
  rowlock,  \* the row a transaction holds FOR UPDATE, 0 when none
  pc,       \* next step of each worker
  req,      \* its request: what it read, what it will write
  cached,   \* what the last callback handed to the hot-reload subscribers
  past,     \* every policy that has been current
  ops,
  faults

vars == <<backend, file, rows, events, rowlock, pc, req, cached, past, ops, faults>>

Ops == {"update", "rollback", "save"}

\* approver_ids: who approved, blank names left out.
Reviewers(approvals) ==
  {approvals[k].reviewer : k \in 1 .. Len(approvals)} \ {""}

EventTypes == Ops \union Labels

\* previous is None for a save, which passes previous={}.
Request ==
  [op : Ops, type : EventTypes, previous : Policies \union {None}, new : Policies,
   approvals : Approvals, candidate : Nat, locked : Nat]

\* A transaction sees committed rows; row numbers stand for ids.
Row   == [policy : Policies, revision : Nat, current : BOOLEAN]
\* approvers are names; the records, with signatures, are rows of their own.
Event == [type : EventTypes, previous : Policies \union {None}, new : Policies,
          approvers : SUBSET UNION {Reviewers(a) : a \in Approvals}, records : Approvals]

Steps == {"idle", "save", "append", "select", "lock", "insert", "commit", "notify"}

TypeOK ==
  /\ backend \in Backends
  /\ file \in Policies \union {None}
  /\ rows \in Seq(Row)
  /\ events \in Seq(Event)
  /\ rowlock \in Nat
  /\ pc \in [Workers -> Steps]
  /\ req \in [Workers -> Request \union {None}]
  /\ cached \in Policies \union {None}
  /\ past \subseteq Policies
  /\ ops \in Nat
  /\ faults \in Nat

Init ==
  /\ backend \in Backends
  /\ file = None
  /\ rows = <<>>
  /\ events = <<>>
  /\ rowlock = 0
  /\ pc = [w \in Workers |-> "idle"]
  /\ req = [w \in Workers |-> None]
  /\ cached = None
  /\ past = {Default}
  /\ ops = 0
  /\ faults = 0

Fault(kind) ==
  /\ kind \in Faults
  /\ faults < MaxFaults
  /\ faults' = faults + 1

Goto(w, step) == pc' = [pc EXCEPT ![w] = step]

\* The request ends: it answered, was refused, or raised.
End(w) ==
  /\ Goto(w, "idle")
  /\ req' = [req EXCEPT ![w] = None]

-----------------------------------------------------------------------------
(* update_policy, rollback_policy and save_policy up to the repository *)

\* The row flagged current; 0 when there is none.
CurrentRow ==
  IF \E i \in 1 .. Len(rows) : rows[i].current
    THEN CHOOSE i \in 1 .. Len(rows) : rows[i].current
    ELSE 0

\* get_current_policy
Current ==
  CASE backend = "file" /\ file # None -> file
    [] backend = "postgresql" /\ CurrentRow # 0 -> rows[CurrentRow].policy
    [] OTHER -> Default

\* What _load returns: a file that cannot be read gives the default policy.
Loaded(p) ==
  \/ p = Current /\ UNCHANGED faults
  \/ p = Default /\ backend = "file" /\ Fault("read")

Set(field, old) == IF field = None THEN old ELSE field

Merge(p, patch) ==
  [rules |-> Set(patch.rules, p.rules), retention |-> Set(patch.retention, p.retention),
   enforced |-> Set(patch.enforced, p.enforced)]

\* enforce_four_eyes_approval, unless it is switched off: two entries with
\* reviewers and signatures of their own.
FourEyes(approvals) ==
  RequireFourEyes =>
    /\ Len(approvals) = 2
    /\ \A k \in 1 .. 2 : approvals[k].reviewer # "" /\ approvals[k].signature # ""
    /\ approvals[1].reviewer # approvals[2].reviewer
    /\ approvals[1].signature # approvals[2].signature

\* What PostgreSQL's repository stores, the switch on or off: named reviewers,
\* none twice, and no signature twice.
Normalized(approvals) ==
  /\ \A k \in 1 .. Len(approvals) : approvals[k].reviewer # ""
  /\ \A k, n \in 1 .. Len(approvals) :
       k # n => /\ approvals[k].reviewer # approvals[n].reviewer
                /\ approvals[k].signature = approvals[n].signature =>
                     approvals[k].signature = ""

\* Mutant: the version may change while retention is enforced.
RetentionKeptAlways(p, new) == TRUE

\* The retention lock-in of update_policy looks at the policy it loaded. It
\* compares the versions without the spaces around them, if both say anything.
RetentionKept(p, new) ==
  p.enforced /\ p.retention.text # "" /\ new.retention.text # "" =>
    new.retention.text = p.retention.text

\* The first step inside the repository.
FirstStep == IF backend = "file" THEN "save" ELSE "select"

Start(w, op, type, previous, new, approvals) ==
  /\ backend = "postgresql" => Normalized(approvals)
  /\ req' = [req EXCEPT ![w] = [op |-> op, type |-> type, previous |-> previous,
                                new |-> new, approvals |-> approvals,
                                candidate |-> 0, locked |-> 0]]
  /\ Goto(w, FirstStep)

\* PUT /v1/governance/policy: enforce_four_eyes_approval, then update_policy
\* loads, merges and validates. A refused request changes nothing. The event
\* gets the type the patch asks for.
Update(w, patch, approvals, label) ==
  /\ pc[w] = "idle"
  /\ ops < MaxOps
  /\ FourEyes(approvals)
  /\ \E p \in Policies :
       /\ Loaded(p)
       /\ RetentionKept(p, Merge(p, patch))
       /\ Start(w, "update", label, p, Merge(p, patch), approvals)
  /\ ops' = ops + 1
  /\ UNCHANGED <<backend, file, rows, events, rowlock, cached, past>>

\* rollback_policy enforces four eyes itself and takes the target as it is.
Rollback(w, target, approvals) ==
  /\ pc[w] = "idle"
  /\ ops < MaxOps
  /\ FourEyes(approvals)
  /\ \E p \in Policies :
       Loaded(p) /\ Start(w, "rollback", "rollback", p, target, approvals)
  /\ ops' = ops + 1
  /\ UNCHANGED <<backend, file, rows, events, rowlock, cached, past>>

\* save_policy: no approvals, and no previous policy to compare with.
SavePolicy(w, target) ==
  /\ pc[w] = "idle"
  /\ ops < MaxOps
  /\ Start(w, "save", "save", None, target, <<>>)
  /\ ops' = ops + 1
  /\ UNCHANGED <<backend, file, rows, events, rowlock, cached, past, faults>>

\* The file repository deletes the approval records.
NewEvent(w) ==
  [type |-> req[w].type, previous |-> req[w].previous, new |-> req[w].new,
   approvers |-> Reviewers(req[w].approvals),
   records |-> IF backend = "postgresql" THEN req[w].approvals ELSE <<>>]

-----------------------------------------------------------------------------
(* FileGovernanceRepository *)

\* The policy file is replaced; save_policy on its own ends here.
FileSave(w) ==
  /\ pc[w] = "save"
  /\ file' = req[w].new
  /\ past' = past \union {req[w].new}
  /\ IF req[w].op = "save" THEN End(w) ELSE Goto(w, "append") /\ UNCHANGED req
  /\ UNCHANGED <<backend, rows, events, rowlock, cached, ops, faults>>

\* Mutant: the event is appended before the policy is saved.
FileAppendEarly(w) ==
  /\ pc[w] = "save"
  /\ events' = Append(events, NewEvent(w))
  /\ Goto(w, "append")
  /\ UNCHANGED <<backend, file, rows, rowlock, req, cached, past, ops, faults>>

\* _trim_policy_history_locked
Trim(history) ==
  IF Len(history) <= HistoryMax THEN history
  ELSE SubSeq(history, Len(history) - HistoryMax + 1, Len(history))

FileAppend(w) ==
  /\ pc[w] = "append"
  /\ events' = Trim(Append(events, NewEvent(w)))
  /\ Goto(w, "notify")
  /\ UNCHANGED <<backend, file, rows, rowlock, req, cached, past, ops, faults>>

\* save_policy raises.
FileSaveFails(w) ==
  /\ pc[w] = "save"
  /\ Fault("save")
  /\ End(w)
  /\ UNCHANGED <<backend, file, rows, events, rowlock, cached, past, ops>>

\* append_policy_event swallows its exceptions.
FileAppendFails(w) ==
  /\ pc[w] = "append"
  /\ Fault("append")
  /\ Goto(w, "notify")
  /\ UNCHANGED <<backend, file, rows, events, rowlock, req, cached, past, ops>>

-----------------------------------------------------------------------------
(* PostgresGovernanceRepository._write_policy_event *)

\* SELECT ... FOR UPDATE finds the row that is current in its snapshot.
PgSelect(w) ==
  /\ pc[w] = "select"
  /\ req' = [req EXCEPT ![w].candidate = CurrentRow]
  /\ Goto(w, "lock")
  /\ UNCHANGED <<backend, file, rows, events, rowlock, cached, past, ops, faults>>

\* Mutant: the digest of the locked row is not compared with the caller's.
PgLockBlind(w) ==
  LET row == req[w].candidate IN
    /\ pc[w] = "lock"
    /\ row # 0 => rowlock # row
    /\ LET found == row # 0 /\ rows[row].current IN
         /\ req' = [req EXCEPT ![w].locked = IF found THEN row ELSE 0]
         /\ rowlock' = IF found THEN row ELSE rowlock
         /\ Goto(w, "insert")
    /\ UNCHANGED <<backend, file, rows, events, cached, past, ops, faults>>

\* Once the lock is granted the row is read again: a row that is no longer
\* current is not returned. A caller that names a previous policy needs a row
\* with that digest.
PgLock(w) ==
  LET row == req[w].candidate IN
    /\ pc[w] = "lock"
    /\ row # 0 => rowlock # row
    /\ LET found == row # 0 /\ rows[row].current IN
         IF req[w].previous # None /\ (found => rows[row].policy # req[w].previous)
           THEN /\ End(w)
                /\ UNCHANGED rowlock
           ELSE /\ req' = [req EXCEPT ![w].locked = IF found THEN row ELSE 0]
                /\ rowlock' = IF found THEN row ELSE rowlock
                /\ Goto(w, "insert")
    /\ UNCHANGED <<backend, file, rows, events, cached, past, ops, faults>>

\* Mutant: a transaction that fails keeps its lock.
ReleaseNever(w) == rowlock' = rowlock

Release(w) == rowlock' = IF rowlock = req[w].locked THEN 0 ELSE rowlock

NextRevision(w) ==
  IF req[w].locked = 0 THEN 1 ELSE rows[req[w].locked].revision + 1

\* The unique indexes on is_current and on policy_revision.
UniqueHolds(w) ==
  \A i \in 1 .. Len(rows) :
    /\ rows[i].revision # NextRevision(w)
    /\ rows[i].current => i = req[w].locked

\* The insert of another transaction that found no current row is pending.
InsertPending(w) == \E v \in Workers \ {w} : pc[v] = "commit"

PgInsert(w) ==
  /\ pc[w] = "insert"
  /\ ~InsertPending(w)
  /\ UniqueHolds(w)
  /\ Goto(w, "commit")
  /\ UNCHANGED <<backend, file, rows, events, rowlock, req, cached, past, ops, faults>>

\* A unique violation: the transaction is rolled back and the call raises.
PgConflict(w) ==
  /\ pc[w] = "insert"
  /\ ~InsertPending(w)
  /\ ~UniqueHolds(w)
  /\ Release(w)
  /\ End(w)
  /\ UNCHANGED <<backend, file, rows, events, cached, past, ops, faults>>

\* The row that was current is unflagged, the new row inserted.
NewRows(w) ==
  Append([i \in 1 .. Len(rows) |-> [rows[i] EXCEPT !.current = FALSE]],
         [policy |-> req[w].new, revision |-> NextRevision(w), current |-> TRUE])

\* The row, the event and the approvals become visible at once.
Write(w) ==
  /\ rows' = NewRows(w)
  /\ events' = Append(events, NewEvent(w))
  /\ past' = past \union {req[w].new}
  /\ Release(w)

PgCommit(w) ==
  /\ pc[w] = "commit"
  /\ Write(w)
  /\ IF req[w].op = "save" THEN End(w) ELSE Goto(w, "notify") /\ UNCHANGED req
  /\ UNCHANGED <<backend, file, cached, ops, faults>>

\* conn.commit() raises although the transaction is committed.
PgAnswerLost(w) ==
  /\ pc[w] = "commit"
  /\ Fault("lost")
  /\ Write(w)
  /\ End(w)
  /\ UNCHANGED <<backend, file, cached, ops>>

PgDrop(w) ==
  /\ pc[w] \in {"select", "lock", "insert", "commit"}
  /\ Fault("drop")
  /\ Release(w)
  /\ End(w)
  /\ UNCHANGED <<backend, file, rows, events, cached, past, ops>>

-----------------------------------------------------------------------------

\* _notify_policy_update
Notify(w) ==
  /\ pc[w] = "notify"
  /\ cached' = req[w].new
  /\ End(w)
  /\ UNCHANGED <<backend, file, rows, events, rowlock, past, ops, faults>>

\* The process dies between two steps of a request. Open transactions are
\* rolled back and the subscribers start again without a policy.
Crash ==
  /\ \E w \in Workers : pc[w] # "idle"
  /\ Fault("crash")
  /\ pc' = [w \in Workers |-> "idle"]
  /\ req' = [w \in Workers |-> None]
  /\ rowlock' = 0
  /\ cached' = None
  /\ UNCHANGED <<backend, file, rows, events, past, ops>>

Begin(w) ==
  \/ \E patch \in Patches, a \in Approvals, l \in Labels : Update(w, patch, a, l)
  \/ \E target \in Targets, a \in Approvals : Rollback(w, target, a)
  \/ \E target \in Targets : SavePolicy(w, target)

Proceed(w) ==
  \/ FileSave(w)
  \/ FileAppend(w)
  \/ FileSaveFails(w)
  \/ FileAppendFails(w)
  \/ PgSelect(w)
  \/ PgLock(w)
  \/ PgInsert(w)
  \/ PgConflict(w)
  \/ PgCommit(w)
  \/ PgAnswerLost(w)
  \/ PgDrop(w)
  \/ Notify(w)

Next == Crash \/ \E w \in Workers : Begin(w) \/ Proceed(w)

Spec == Init /\ [][Next]_vars

\* A thread in a request goes on, and a lock wait ends when the lock is free.
FairSpec == Spec /\ \A w \in Workers : WF_vars(Proceed(w))

-----------------------------------------------------------------------------
(* Properties *)

\* On PostgreSQL the history is the history of the policy: every committed
\* row has its event, revisions have no gap, and what names a previous policy,
\* an update or a rollback whatever its event type says, was computed from the
\* row it replaces, so no committed change is lost. It also follows that nothing
\* but a save can write the first row.
AuditChain ==
  backend = "postgresql" =>
    /\ Len(events) = Len(rows)
    /\ \A i \in 1 .. Len(rows) :
         /\ rows[i].revision = i
         /\ events[i].new = rows[i].policy
         /\ events[i].previous # None =>
              i > 1 /\ events[i].previous = rows[i - 1].policy

\* At most one row is current, and it is the newest: what get_current_policy
\* returns is what the last committed transaction wrote.
NewestCurrent ==
  \A i \in 1 .. Len(rows) : rows[i].current <=> i = Len(rows)

\* On PostgreSQL no update makes one retention version into another while the
\* policy enforces it, whatever was committed between its load and its write:
\* only a rollback or a save does. (An update may blank the version, and the
\* next one may then set another.)
RetentionStep ==
  /\ backend = "postgresql" /\ Current.enforced
  /\ Current.retention.text # "" /\ Current'.retention.text # ""
  /\ Current'.retention.text # Current.retention.text
  => \E w \in Workers : pc[w] = "commit" /\ req[w].op # "update"

RetentionLocked == [][RetentionStep]_vars

\* The history and the hot-reload callbacks only report policies that were
\* stored: an event is never written for a policy that was not saved, on
\* either backend and with any fault in between.
HistoryTruthful ==
  /\ \A i \in 1 .. Len(events) :
       /\ events[i].new \in past
       /\ events[i].previous \in past \union {None}
  /\ cached \in past \union {None}

\* With the four-eyes check switched on every update and rollback in the history
\* names two reviewers, and on PostgreSQL with signatures of their own.
TwoReviewers ==
  RequireFourEyes =>
    \A i \in 1 .. Len(events) : events[i].previous # None =>
      /\ \E a, b \in events[i].approvers : a # b
      /\ backend = "postgresql" =>
           \E a, b \in 1 .. Len(events[i].records) :
             /\ events[i].records[a].reviewer # events[i].records[b].reviewer
             /\ events[i].records[a].signature # events[i].records[b].signature

\* Every request ends: no lock wait, and no unique violation, holds one up
\* for ever.
Answered == \A w \in Workers : pc[w] # "idle" ~> pc[w] = "idle"
=============================================================================
