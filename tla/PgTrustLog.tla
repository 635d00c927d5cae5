----------------------------- MODULE PgTrustLog -----------------------------
(***************************************************************************)
(* The PostgreSQL backend of the TrustLog (storage/postgresql.py): append  *)
(* as the statements of one transaction, issued by the workers of a        *)
(* multi-process deployment, and the migration of a JSONL ledger with      *)
(* veritas-migrate (cli/migrate.py), run before the backend is switched.   *)
(*                                                                         *)
(* Digests are numbers: line k of the migrated file has digest k and names *)
(* k - 1, an appended row has a digest that no other entry has. Lines and  *)
(* appended entries may share a request id, or have none: a decide request *)
(* writes two ledger entries under its id.                                 *)
(***************************************************************************)
EXTENDS Naturals, Sequences

CONSTANTS
  Workers,   \* connections that append
  None,      \* no worker, no request id
  Requests,  \* request ids of entries
  Sources,   \* ledger files to migrate: the request id, or None, of every line
  MaxLines,  \* bound: lines of a file
  Faults,    \* the kinds of fault the environment may inject
  MaxIds,    \* bound: ids drawn from the sequence of trustlog_entries
  MaxRuns,   \* bound: runs of veritas-migrate
  MaxFaults  \* bound: faults injected

(***************************************************************************)
(* drop: the connection of an append is lost, or a statement times out     *)
(* lost: the answer to a COMMIT is lost                                    *)
(* kill: veritas-migrate dies, before or after the COMMIT of a line        *)
(* line: the import of a line fails; veritas-migrate goes on with the next *)
(***************************************************************************)
FaultKinds == {"drop", "lost", "kill", "line"}

ASSUME ConstantsAssumption ==
  /\ None \notin Workers
  /\ None \notin Nat
  /\ None \notin Requests
  /\ MaxLines \in Nat
  /\ \A s \in Sources : s \in Seq(Requests \union {None}) /\ Len(s) =< MaxLines
  /\ Faults \subseteq FaultKinds
  /\ MaxIds \in Nat
  /\ MaxRuns \in Nat
  /\ MaxFaults \in Nat

VARIABLES
  source,    \* the file that is migrated
  rows,      \* committed rows of trustlog_entries, in order of commit
  state,     \* committed row of trustlog_chain_state, NoState before the first
  seq,       \* last id drawn; a rollback does not give ids back
  advisory,  \* holder of the transaction-scoped advisory lock
  rowlock,   \* holder of the FOR UPDATE lock on the chain-state row
  pc,        \* next statement of each worker
  tx,        \* what the worker's transaction has read and written
  acked,     \* digests of the entries whose append returned
  line,      \* next line of the migration, 0 when none runs
  failed,    \* the running migration has counted a failed line
  gap,       \* rows there were when a line was first stored ahead of one the
             \* table did not hold, None as long as none was
  report,    \* exit of the last migration: "none", "ok" or "failed"
  switched,  \* VERITAS_TRUSTLOG_BACKEND=postgresql
  runs,
  faults

migration == <<source, line, failed, gap, report, switched, runs>>
vars == <<rows, state, seq, advisory, rowlock, pc, tx, acked, migration, faults>>

Ids     == 1 .. MaxIds
ReqIds  == Requests \union {None}
Digests == 1 .. (MaxLines + MaxIds)
Row     == [id : Ids, req : ReqIds, sha : Digests, prev : {0} \union Digests]
NoRow   == [id |-> 0]

\* The columns last_hash and last_id; 0 is NULL.
NoState == [hash |-> 0, id |-> 0]

TypeOK ==
  /\ source \in Sources
  /\ rows \in Seq(Row)
  /\ state \in [hash : {0} \union Digests, id : {0} \union Ids]
  /\ seq \in 0 .. MaxIds
  /\ advisory \in Workers \union {None}
  /\ rowlock \in Workers \union {None}
  /\ pc \in [Workers -> {"idle", "read", "insert", "commit", "return"}]
  /\ tx \in [Workers -> [req : ReqIds, prev : {0} \union Digests,
                         row : Row \union {NoRow}] \union {NoRow}]
  /\ acked \subseteq Digests
  /\ line \in 0 .. (Len(source) + 1)
  /\ failed \in BOOLEAN
  /\ gap \in Nat \union {None}
  /\ report \in {"none", "ok", "failed"}
  /\ switched \in BOOLEAN
  /\ runs \in 0 .. MaxRuns
  /\ faults \in 0 .. MaxFaults

Init ==
  /\ source \in Sources
  /\ rows = <<>>
  /\ state = NoState
  /\ seq = 0
  /\ advisory = None
  /\ rowlock = None
  /\ pc = [w \in Workers |-> "idle"]
  /\ tx = [w \in Workers |-> NoRow]
  /\ acked = {}
  /\ line = 0
  /\ failed = FALSE
  /\ gap = None
  /\ report = "none"
  /\ switched = FALSE
  /\ runs = 0
  /\ faults = 0

Fault(kind) ==
  /\ kind \in Faults
  /\ faults < MaxFaults
  /\ faults' = faults + 1

Goto(w, step) == pc' = [pc EXCEPT ![w] = step]

\* The unique column holds the key of an entry: its request id, or its digest
\* when it has none.
Taken(req, sha) ==
  \E i \in 1 .. Len(rows) :
    rows[i].req = req /\ (req = None => rows[i].sha = sha)

-----------------------------------------------------------------------------
(* append *)

\* Mutant: last_hash is read before the transaction takes its locks.
LockStale(w, r) ==
  /\ pc[w] = "idle"
  /\ switched
  /\ seq < MaxIds
  /\ tx' = [tx EXCEPT ![w] = [req |-> r, prev |-> state.hash, row |-> NoRow]]
  /\ Goto(w, "insert")
  /\ UNCHANGED <<rows, state, seq, advisory, rowlock, acked, migration, faults>>

\* pg_advisory_xact_lock
Lock(w, r) ==
  /\ pc[w] = "idle"
  /\ switched
  /\ seq < MaxIds
  /\ advisory = None
  /\ advisory' = w
  /\ tx' = [tx EXCEPT ![w] = [req |-> r, prev |-> 0, row |-> NoRow]]
  /\ Goto(w, "read")
  /\ UNCHANGED <<rows, state, seq, rowlock, acked, migration, faults>>

\* SELECT last_hash ... FOR UPDATE; the first append of all inserts the row.
Read(w) ==
  /\ pc[w] = "read"
  /\ rowlock = None
  /\ rowlock' = w
  /\ tx' = [tx EXCEPT ![w] = [req |-> tx[w].req, prev |-> state.hash,
                              row |-> NoRow]]
  /\ Goto(w, "insert")
  /\ UNCHANGED <<rows, state, seq, advisory, acked, migration, faults>>

\* The locks w holds are released.
Release(w) ==
  /\ advisory' = IF advisory = w THEN None ELSE advisory
  /\ rowlock' = IF rowlock = w THEN None ELSE rowlock

\* The transaction is rolled back and append raises.
Rollback(w) ==
  /\ Release(w)
  /\ tx' = [tx EXCEPT ![w] = NoRow]
  /\ Goto(w, "idle")

NewRow(w) ==
  [id |-> seq + 1, req |-> tx[w].req, sha |-> MaxLines + seq + 1,
   prev |-> tx[w].prev]

\* prepare_entry and the INSERT into trustlog_entries. An entry without a
\* request id has a digest of its own, also when its append is repeated.
Insert(w) ==
  /\ pc[w] = "insert"
  /\ ~Taken(NewRow(w).req, NewRow(w).sha)
  /\ seq' = seq + 1
  /\ tx' = [tx EXCEPT ![w] = [req |-> tx[w].req, prev |-> tx[w].prev,
                              row |-> NewRow(w)]]
  /\ Goto(w, "commit")
  /\ UNCHANGED <<rows, state, advisory, rowlock, acked, migration, faults>>

\* The request id is taken. The id is spent all the same.
Conflict(w) ==
  /\ pc[w] = "insert"
  /\ Taken(NewRow(w).req, NewRow(w).sha)
  /\ seq' = seq + 1
  /\ Rollback(w)
  /\ UNCHANGED <<rows, state, acked, migration, faults>>

\* UPDATE trustlog_chain_state, then COMMIT; both become visible at once.
Commit(w) ==
  /\ pc[w] = "commit"
  /\ rows' = Append(rows, tx[w].row)
  /\ state' = [hash |-> tx[w].row.sha, id |-> tx[w].row.id]
  /\ Release(w)
  /\ Goto(w, "return")
  /\ UNCHANGED <<seq, tx, acked, migration, faults>>

Return(w) ==
  /\ pc[w] = "return"
  /\ acked' = acked \union {tx[w].row.sha}
  /\ tx' = [tx EXCEPT ![w] = NoRow]
  /\ Goto(w, "idle")
  /\ UNCHANGED <<rows, state, seq, advisory, rowlock, migration, faults>>

Drop(w) ==
  /\ pc[w] \in {"read", "insert", "commit"}
  /\ Fault("drop")
  /\ Rollback(w)
  /\ UNCHANGED <<rows, state, seq, acked, migration>>

\* append raises although its entry is stored.
LostAnswer(w) ==
  /\ pc[w] = "return"
  /\ Fault("lost")
  /\ Rollback(w)
  /\ UNCHANGED <<rows, state, seq, acked, migration>>

-----------------------------------------------------------------------------
(* veritas-migrate trustlog *)

Start ==
  /\ line = 0
  /\ ~switched
  /\ runs < MaxRuns
  /\ runs' = runs + 1
  /\ line' = 1
  /\ failed' = FALSE
  /\ UNCHANGED <<source, rows, state, seq, advisory, rowlock, pc, tx, acked, gap,
                 report, switched, faults>>

\* Mutant: the entry takes the digest of the row before it for its own.
SourceRowShifted ==
  [id |-> seq + 1, req |-> source[line], sha |-> line, prev |-> line]

\* The stored digests of the line are kept.
SourceRow ==
  [id |-> seq + 1, req |-> source[line], sha |-> line, prev |-> line - 1]

\* The conditional upsert of the chain state.
Advance(row) ==
  state' = IF state.id < row.id THEN [hash |-> row.sha, id |-> row.id] ELSE state

\* A line is in the table.
InTable(k) == \E i \in 1 .. Len(rows) : rows[i].sha = k

\* import_entry writes one row.
ImportRow ==
  /\ ~Taken(source[line], line)
  /\ seq < MaxIds
  /\ seq' = seq + 1
  /\ rows' = Append(rows, SourceRow)
  /\ Advance(SourceRow)
  /\ gap' = IF gap = None /\ \E k \in 1 .. (line - 1) : ~InTable(k)
            THEN Len(rows) ELSE gap

ImportLine ==
  /\ line \in 1 .. Len(source)
  /\ ImportRow
  /\ line' = line + 1
  /\ UNCHANGED <<source, advisory, rowlock, pc, tx, acked, failed, report,
                 switched, runs, faults>>

\* import_entry returns (request_id, False): the line is there already, or
\* another entry under its request id is.
Duplicate ==
  /\ line \in 1 .. Len(source)
  /\ Taken(source[line], line)
  /\ line' = line + 1
  /\ UNCHANGED <<source, rows, state, seq, advisory, rowlock, pc, tx, acked,
                 failed, gap, report, switched, runs, faults>>

\* Mutant: the failure is logged and not counted.
LineFailsSilently ==
  /\ line \in 1 .. Len(source)
  /\ Fault("line")
  /\ line' = line + 1
  /\ UNCHANGED <<source, rows, state, seq, advisory, rowlock, pc, tx, acked,
                 failed, gap, report, switched, runs>>

\* import_entry raises; the line is counted and the next one is tried.
LineFails ==
  /\ line \in 1 .. Len(source)
  /\ Fault("line")
  /\ ImportRow \/ UNCHANGED <<rows, state, seq, gap>>
  /\ line' = line + 1
  /\ failed' = TRUE
  /\ UNCHANGED <<source, advisory, rowlock, pc, tx, acked, report, switched, runs>>

Killed ==
  /\ line \in 1 .. Len(source)
  /\ Fault("kill")
  /\ ImportRow \/ UNCHANGED <<rows, state, seq, gap>>
  /\ line' = 0
  /\ report' = "failed"
  /\ UNCHANGED <<source, advisory, rowlock, pc, tx, acked, failed, switched, runs>>

\* Exit code 0 when no line failed, 1 otherwise.
Exit ==
  /\ line = Len(source) + 1
  /\ line' = 0
  /\ report' = IF failed THEN "failed" ELSE "ok"
  /\ UNCHANGED <<source, rows, state, seq, advisory, rowlock, pc, tx, acked,
                 failed, gap, switched, runs, faults>>

\* The operator switches the backend, after a migration that succeeded or
\* with nothing to migrate.
Switch ==
  /\ ~switched
  /\ line = 0
  /\ report = "ok" \/ source = <<>>
  /\ switched' = TRUE
  /\ UNCHANGED <<source, rows, state, seq, advisory, rowlock, pc, tx, acked, line,
                 failed, gap, report, runs, faults>>

Worker(w) ==
  \/ \E r \in ReqIds : Lock(w, r)
  \/ Read(w)
  \/ Insert(w)
  \/ Conflict(w)
  \/ Commit(w)
  \/ Return(w)
  \/ Drop(w)
  \/ LostAnswer(w)

Migrate ==
  \/ Start
  \/ ImportLine
  \/ Duplicate
  \/ LineFails
  \/ Killed
  \/ Exit
  \/ Switch

Next == Migrate \/ \E w \in Workers : Worker(w)

Spec == Init /\ [][Next]_vars

-----------------------------------------------------------------------------
(* Properties *)

\* The chain state names the newest row, which has the highest id: what the
\* next append links to is what ORDER BY id ends with.
HeadCurrent ==
  /\ \A i, j \in 1 .. Len(rows) : i < j => rows[i].id < rows[j].id
  /\ state = IF rows = <<>> THEN NoState
             ELSE [hash |-> rows[Len(rows)].sha, id |-> rows[Len(rows)].id]

\* Mutant: an entry without a predecessor begins a chain of its own.
VerifyLax ==
  \A i \in 2 .. Len(rows) : rows[i].prev \in {0, rows[i - 1].sha}

\* What _verify_pg_trustlog_chain computes; the first row is not compared.
VerifyOk ==
  \A i \in 2 .. Len(rows) : rows[i].prev = rows[i - 1].sha

\* When the table verifies, after any runs of the migration and any appends: as
\* long as no line was stored ahead of a line the table lacked, also when a
\* migration that died was resumed; and never again once one was, unless it was
\* stored first of all. So a run repeated after a failed line, and a file that
\* repeats a request id before its last entry, end with exit code 0 and a chain
\* that does not verify.
MigrationVerifies ==
  /\ gap = None => VerifyOk
  /\ gap \in Nat \ {0} => ~VerifyOk

\* A migration that ends without failures has stored every line of the file, or
\* another entry under the line's request id.
MigrationComplete ==
  report = "ok" => \A k \in 1 .. Len(source) : Taken(source[k], k)

\* What the checklist before the switch is good for: a table that verifies and
\* has as many rows as the file has lines is the file, line by line, whichever
\* lines failed, came late or were taken for duplicates on the way.
ChecklistSound ==
  ~switched /\ VerifyOk /\ Len(rows) = Len(source) =>
    \A k \in 1 .. Len(source) :
      rows[k].sha = k /\ rows[k].prev = k - 1 /\ rows[k].req = source[k]

\* The rows stored before a line was stored ahead of a missing one, and what
\* was acknowledged if none was: appends begin after the last migration.
Chain ==
  [i \in 1 .. (IF gap = None THEN Len(rows) ELSE gap) |->
     [sha |-> rows[i].sha, prev |-> rows[i].prev]]

Acked == IF gap = None THEN acked ELSE {}

Abstract == INSTANCE HashChain WITH chain <- Chain, acked <- Acked, Restarts <- FALSE

\* The PostgreSQL backend, migrated or not, implements the same chain as the
\* file-backed ledger, as long as no line is stored ahead of a missing one: it
\* only grows, never forks, and holds every entry whose append returned.
ImplementsHashChain == Abstract!Spec
=============================================================================
