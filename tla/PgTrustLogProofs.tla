-------------------------- MODULE PgTrustLogProofs --------------------------
(***************************************************************************)
(* Theorems about the PostgreSQL TrustLog for any number of connections,   *)
(* requests, lines to migrate, runs and faults.                            *)
(***************************************************************************)
EXTENDS PgTrustLog, SequenceTheorems, TLAPS

\* A transaction that holds the advisory lock.
Open == {"read", "insert", "commit"}
Tx   == [req : ReqIds, prev : {0} \union Digests, row : Row \union {NoRow}]

\* Appends and migrations exclude each other, and so do open transactions.
Serial ==
  /\ \A w \in Workers : pc[w] # "idle" => switched
  /\ switched => line = 0
  /\ \A w \in Workers : pc[w] \in Open => advisory = w

\* What a worker's transaction knows of the committed tables is current.
Current(w) ==
  /\ pc[w] # "idle" => tx[w] \in Tx
  /\ pc[w] \in {"read", "insert"} => seq < MaxIds
  /\ pc[w] \in {"insert", "commit"} => tx[w].prev = state.hash
  /\ pc[w] = "commit" =>
       /\ tx[w].row \in Row
       /\ tx[w].row.id = seq
       /\ tx[w].row.sha = MaxLines + seq
       /\ tx[w].row.prev = state.hash
       /\ \A i \in 1 .. Len(rows) : rows[i].id < seq
  /\ pc[w] = "return" =>
       tx[w].row \in Row /\ \E i \in 1 .. Len(rows) : rows[i].sha = tx[w].row.sha

\* The row holds a line of the file as it is.
FromLine(r) ==
  r.sha \in 1 .. Len(source) /\ r.prev = r.sha - 1 /\ r.req = source[r.sha]

\* Ids have been drawn; digests tell appended from migrated rows.
Numbered ==
  \A i \in 1 .. Len(rows) :
    /\ rows[i].id =< seq
    /\ \/ rows[i].sha = MaxLines + rows[i].id
       \/ FromLine(rows[i])

Inv ==
  /\ TypeOK
  /\ Serial
  /\ \A w \in Workers : Current(w)
  /\ Numbered
  /\ HeadCurrent
 

-----------------------------------------------------------------------------
(* Rows *)

\* What committing a row does to the table.
LEMMA RowAppended ==
  ASSUME TypeOK, NEW r \in Row, rows' = Append(rows, r)
  PROVE  /\ rows' \in Seq(Row)
         /\ Len(rows) \in Nat /\ Len(rows') = Len(rows) + 1
         /\ \A i \in 1 .. Len(rows) : rows'[i] = rows[i]
         /\ rows'[Len(rows) + 1] = r
         /\ rows' # <<>>
  BY DEF TypeOK

\* A row with a fresh id keeps the table in order.
LEMMA RowKeeps ==
  ASSUME Inv, NEW r \in Row, rows' = Append(rows, r),
         \A i \in 1 .. Len(rows) : rows[i].id < r.id,
         state' = [hash |-> r.sha, id |-> r.id],
         seq' \in Nat, seq' >= seq, r.id =< seq',
         source' = source, r.sha = MaxLines + r.id \/ FromLine(r)
  PROVE  Numbered' /\ HeadCurrent'
<1>0. /\ TypeOK /\ Numbered /\ HeadCurrent
  BY DEF Inv
<1>1. /\ rows' \in Seq(Row)
      /\ Len(rows) \in Nat /\ Len(rows') = Len(rows) + 1
      /\ \A i \in 1 .. Len(rows) : rows'[i] = rows[i]
      /\ rows'[Len(rows) + 1] = r
      /\ rows' # <<>>
  BY <1>0, RowAppended
<1>2. \A i \in 1 .. Len(rows') : i \in 1 .. Len(rows) \/ i = Len(rows) + 1
  BY <1>1
<1>3. seq \in Nat /\ \A i \in 1 .. Len(rows) : rows[i].id \in Nat
  <2>1. \A i \in 1 .. Len(rows) : rows[i] \in Row
    BY <1>0 DEF TypeOK
  <2>2. \A x \in Row : x.id \in Nat
    BY ConstantsAssumption DEF Row, Ids
  <2>3. seq \in Nat
    BY <1>0, ConstantsAssumption DEF TypeOK
  <2>4. QED
    BY <2>1, <2>2, <2>3
<1>4. Numbered'
  <2>1. SUFFICES ASSUME NEW i \in 1 .. Len(rows')
                 PROVE  /\ rows'[i].id =< seq'
                        /\ \/ rows'[i].sha = MaxLines + rows'[i].id
                           \/ FromLine(rows'[i])
    BY DEF Numbered, FromLine
  <2>2. CASE i = Len(rows) + 1
    BY <1>1, <2>2
  <2>3. CASE i \in 1 .. Len(rows)
    <3>1. rows'[i] = rows[i] /\ rows[i].id =< seq' /\ rows[i].id =< seq
      BY <1>0, <1>1, <1>3, <2>3 DEF Numbered
    <3>2. QED
      BY <1>0, <2>3, <3>1 DEF Numbered
  <2>4. QED
    BY <1>2, <2>2, <2>3
<1>5. HeadCurrent'
  <2>1. ASSUME NEW i \in 1 .. Len(rows'), NEW j \in 1 .. Len(rows'), i < j
        PROVE  rows'[i].id < rows'[j].id
    <3>1. i \in 1 .. Len(rows) /\ rows'[i] = rows[i]
      BY <1>1, <2>1
    <3>2. CASE j = Len(rows) + 1
      BY <1>1, <3>1, <3>2
    <3>3. CASE j \in 1 .. Len(rows)
      BY <1>0, <1>1, <2>1, <3>1, <3>3 DEF HeadCurrent
    <3>4. QED
      BY <1>2, <3>2, <3>3
  <2>2. state' = [hash |-> rows'[Len(rows')].sha, id |-> rows'[Len(rows')].id]
    BY <1>1
  <2>3. QED
    BY <1>1, <2>1, <2>2 DEF HeadCurrent
<1>6. QED
  BY <1>4, <1>5

\* A worker outside a transaction, or past its COMMIT, is not affected by
\* others: rows stay.
LEMMA OtherKeeps ==
  ASSUME TypeOK, NEW v \in Workers, Current(v), pc[v] \in {"idle", "return"},
         pc'[v] = pc[v], tx'[v] = tx[v],
         \/ rows' = rows
         \/ \E r \in Row : rows' = Append(rows, r)
  PROVE  Current(v)'
<1>1. /\ Len(rows) \in Nat /\ Len(rows') \in Nat /\ Len(rows') >= Len(rows)
      /\ \A i \in 1 .. Len(rows) : rows'[i] = rows[i]
  <2>1. Len(rows) \in Nat
    BY DEF TypeOK
  <2>2. CASE rows' = rows
    BY <2>1, <2>2
  <2>3. ASSUME NEW r \in Row, rows' = Append(rows, r)
        PROVE  /\ Len(rows') \in Nat /\ Len(rows') >= Len(rows)
               /\ \A i \in 1 .. Len(rows) : rows'[i] = rows[i]
    BY <2>3, RowAppended
  <2>4. QED
    BY <2>1, <2>2, <2>3
<1>2. CASE pc[v] = "idle"
  BY <1>2 DEF Current
<1>3. CASE pc[v] = "return"
  <2>1. PICK i \in 1 .. Len(rows) : rows[i].sha = tx[v].row.sha
    BY <1>3 DEF Current
  <2>2. i \in 1 .. Len(rows') /\ rows'[i].sha = tx'[v].row.sha
    BY <1>1, <2>1
  <2>3. QED
    BY <1>3, <2>2 DEF Current
<1>4. QED
  BY <1>2, <1>3

\* The transaction that holds the advisory lock is the only open one.
LEMMA OnlyOpen ==
  ASSUME TypeOK, Serial, NEW w \in Workers, pc[w] \in Open, NEW v \in Workers \ {w}
  PROVE  pc[v] \in {"idle", "return"}
<1>1. advisory = w /\ (pc[v] \in Open => advisory = v)
  BY DEF Serial
<1>2. pc[v] \in {"idle", "read", "insert", "commit", "return"}
  BY DEF TypeOK
<1>3. QED
  BY <1>1, <1>2 DEF Open

\* While veritas-migrate runs no worker does.
LEMMA AllIdle ==
  ASSUME Serial, line # 0 \/ ~switched
  PROVE  \A w \in Workers : pc[w] = "idle"
  BY DEF Serial
\* Without a new row the tables stay in order, whatever ids are drawn.
LEMMA QuietKeeps ==
  ASSUME Inv, UNCHANGED <<source, rows, state>>, seq' = seq \/ seq' = seq + 1
  PROVE  Numbered' /\ HeadCurrent'
<1>1. seq \in Nat /\ \A i \in 1 .. Len(rows) : rows[i].id \in Nat
  <2>1. \A i \in 1 .. Len(rows) : rows[i] \in Row
    BY DEF Inv, TypeOK
  <2>2. \A x \in Row : x.id \in Nat
    BY ConstantsAssumption DEF Row, Ids
  <2>3. seq \in Nat
    BY ConstantsAssumption DEF Inv, TypeOK
  <2>4. QED
    BY <2>1, <2>2, <2>3
<1>2. \A i \in 1 .. Len(rows) : rows[i].id =< seq'
  BY <1>1 DEF Inv, Numbered
<1>3. Numbered'
  BY <1>2 DEF Inv, Numbered, FromLine
<1>4. HeadCurrent'
  BY DEF Inv, HeadCurrent
<1>5. QED
  BY <1>3, <1>4

-----------------------------------------------------------------------------
(* Appends *)

LEMMA WorkerStep ==
  ASSUME Inv, NEW w \in Workers, Worker(w)
  PROVE  Inv'
<1>0. /\ TypeOK /\ Serial /\ Numbered /\ HeadCurrent
      /\ \A v \in Workers : Current(v)
  BY DEF Inv
<1>a. /\ pc \in [Workers -> {"idle", "read", "insert", "commit", "return"}]
      /\ tx \in [Workers -> Tx \union {NoRow}]
      /\ seq \in Nat /\ seq =< MaxIds /\ MaxIds \in Nat
      /\ state.hash \in {0} \union Digests
  BY <1>0, ConstantsAssumption DEF TypeOK, Tx
<1>1. ASSUME NEW r \in ReqIds, Lock(w, r)
      PROVE  Inv'
  <2>1. /\ pc' = [pc EXCEPT ![w] = "read"] /\ seq < MaxIds /\ switched
        /\ advisory = None /\ advisory' = w
        /\ tx' = [tx EXCEPT ![w] = [req |-> r, prev |-> 0, row |-> NoRow]]
        /\ UNCHANGED <<source, rows, state, seq, rowlock, acked, line, failed, gap,
                       report, switched, runs, faults>>
    BY <1>1 DEF Lock, Goto, migration
  <2>2. [req |-> r, prev |-> 0, row |-> NoRow] \in Tx
    BY DEF Tx
  <2>3. /\ pc'[w] = "read" /\ tx'[w] \in Tx
        /\ \A v \in Workers \ {w} : pc'[v] = pc[v] /\ tx'[v] = tx[v]
    BY <1>a, <2>1, <2>2
  <2>4. \A v \in Workers : pc[v] \notin Open
    BY <1>0, <2>1, ConstantsAssumption DEF Serial
  <2>5. Current(w)'
    BY <2>1, <2>3 DEF Current
  <2>6. ASSUME NEW v \in Workers \ {w}
        PROVE  Current(v)'
    <3>1. pc[v] \in {"idle", "return"}
      BY <1>a, <2>4 DEF Open
    <3>2. QED
      BY <1>0, <2>1, <2>3, <3>1, OtherKeeps
  <2>7. Serial'
    BY <1>0, <2>1, <2>3, <2>4 DEF Serial
  <2>8. TypeOK'
    <3>1. tx' \in [Workers -> Tx \union {NoRow}]
      BY <1>a, <2>1, <2>2
    <3>2. QED
      BY <1>0, <1>a, <2>1, <3>1 DEF TypeOK, Tx
  <2>9. Numbered' /\ HeadCurrent'
    BY <2>1, QuietKeeps
  <2>10. QED
    BY <2>5, <2>6, <2>7, <2>8, <2>9 DEF Inv
<1>2. CASE Read(w)
  <2>1. /\ pc[w] = "read" /\ pc' = [pc EXCEPT ![w] = "insert"] /\ rowlock' = w
        /\ tx' = [tx EXCEPT ![w] = [req |-> tx[w].req, prev |-> state.hash,
                                    row |-> NoRow]]
        /\ UNCHANGED <<source, rows, state, seq, advisory, acked, line, failed, gap,
                       report, switched, runs, faults>>
    BY <1>2 DEF Read, Goto, migration
  <2> DEFINE t == [req |-> tx[w].req, prev |-> state.hash, row |-> NoRow]
  <2>2. t \in Tx /\ t.prev = state.hash
    <3>1. tx[w] \in Tx
      BY <1>0, <2>1 DEF Current
    <3>2. tx[w].req \in ReqIds
      BY <3>1 DEF Tx
    <3>3. QED
      BY <1>a, <3>2 DEF Tx
  <2> HIDE DEF t
  <2>3. /\ pc'[w] = "insert" /\ tx'[w] = t
        /\ \A v \in Workers \ {w} : pc'[v] = pc[v] /\ tx'[v] = tx[v]
    BY <1>a, <2>1 DEF t
  <2>4. pc[w] \in Open /\ seq < MaxIds
    BY <1>0, <2>1 DEF Open, Current
  <2>5. Current(w)'
    BY <2>1, <2>2, <2>3, <2>4 DEF Current
  <2>6. ASSUME NEW v \in Workers \ {w}
        PROVE  Current(v)'
    <3>1. pc[v] \in {"idle", "return"}
      BY <1>0, <2>4, OnlyOpen
    <3>2. QED
      BY <1>0, <2>1, <2>3, <3>1, OtherKeeps
  <2>7. Serial'
    BY <1>0, <2>1, <2>3, <2>4 DEF Serial
  <2>8. TypeOK'
    <3>1. tx' \in [Workers -> Tx \union {NoRow}]
      BY <1>a, <2>1, <2>2 DEF t
    <3>2. QED
      BY <1>0, <1>a, <2>1, <3>1 DEF TypeOK, Tx
  <2>9. Numbered' /\ HeadCurrent'
    BY <2>1, QuietKeeps
  <2>10. QED
    BY <2>5, <2>6, <2>7, <2>8, <2>9 DEF Inv
<1>3. CASE Insert(w)
  <2>1. /\ pc[w] = "insert" /\ pc' = [pc EXCEPT ![w] = "commit"]
        /\ seq' = seq + 1
        /\ tx' = [tx EXCEPT ![w] = [req |-> tx[w].req, prev |-> tx[w].prev,
                                    row |-> NewRow(w)]]
        /\ UNCHANGED <<source, rows, state, advisory, rowlock, acked, line, failed, gap,
                       report, switched, runs, faults>>
    BY <1>3 DEF Insert, Goto, migration
  <2>2. /\ tx[w].req \in ReqIds /\ tx[w].prev = state.hash
        /\ seq < MaxIds /\ pc[w] \in Open
    <3>1. tx[w] \in Tx /\ tx[w].prev = state.hash /\ seq < MaxIds
      BY <1>0, <2>1 DEF Current
    <3>2. QED
      BY <2>1, <3>1 DEF Tx, Open
  <2>3. /\ NewRow(w) \in Row /\ NewRow(w).id = seq + 1
        /\ NewRow(w).sha = MaxLines + (seq + 1)
        /\ NewRow(w).prev = state.hash /\ NewRow(w).req = tx[w].req
    <3>1. MaxLines \in Nat
      BY ConstantsAssumption
    <3>2. seq + 1 \in Ids /\ MaxLines + seq + 1 \in Digests
      BY <1>a, <2>2, <3>1 DEF Ids, Digests
    <3>3. QED
      BY <1>a, <2>2, <3>1, <3>2 DEF NewRow, Row
  <2> DEFINE t == [req |-> tx[w].req, prev |-> tx[w].prev, row |-> NewRow(w)]
  <2>4. t \in Tx /\ t.prev = state.hash /\ t.row = NewRow(w)
    BY <1>a, <2>2, <2>3 DEF Tx
  <2> HIDE DEF t
  <2>5. /\ pc'[w] = "commit" /\ tx'[w] = t
        /\ \A v \in Workers \ {w} : pc'[v] = pc[v] /\ tx'[v] = tx[v]
    BY <1>a, <2>1 DEF t
  <2>7. \A i \in 1 .. Len(rows) : rows[i].id < seq + 1
    <3>1. \A i \in 1 .. Len(rows) : rows[i] \in Row
      BY <1>0 DEF TypeOK
    <3>2. \A x \in Row : x.id \in Nat
      BY ConstantsAssumption DEF Row, Ids
    <3>3. QED
      BY <1>0, <1>a, <3>1, <3>2 DEF Numbered
  <2>8. Current(w)'
    BY <2>1, <2>3, <2>4, <2>5, <2>7 DEF Current
  <2>9. ASSUME NEW v \in Workers \ {w}
        PROVE  Current(v)'
    <3>1. pc[v] \in {"idle", "return"}
      BY <1>0, <2>2, OnlyOpen
    <3>2. QED
      BY <1>0, <2>1, <2>5, <3>1, OtherKeeps
  <2>10. Serial'
    BY <1>0, <2>1, <2>2, <2>5 DEF Serial
  <2>11. TypeOK'
    <3>1. tx' \in [Workers -> Tx \union {NoRow}]
      BY <1>a, <2>1, <2>4 DEF t
    <3>2. seq' \in 0 .. MaxIds
      BY <1>a, <2>1, <2>2
    <3>3. QED
      BY <1>0, <1>a, <2>1, <3>1, <3>2 DEF TypeOK, Tx
  <2>12. Numbered' /\ HeadCurrent'
    BY <2>1, QuietKeeps
  <2>13. QED
    BY <2>8, <2>9, <2>10, <2>11, <2>12 DEF Inv
<1>4. CASE Commit(w)
  <2> DEFINE r == tx[w].row
  <2>1. /\ pc[w] = "commit" /\ pc' = [pc EXCEPT ![w] = "return"]
        /\ rows' = Append(rows, r) /\ state' = [hash |-> r.sha, id |-> r.id]
        /\ Release(w)
        /\ UNCHANGED <<source, seq, tx, acked, line, failed, gap, report, switched,
                       runs, faults>>
    BY <1>4 DEF Commit, Goto, migration
  <2>2. /\ r \in Row /\ r.id = seq /\ r.sha = MaxLines + r.id
        /\ \A i \in 1 .. Len(rows) : rows[i].id < r.id
        /\ tx[w] \in Tx
    BY <1>0, <2>1 DEF Current
  <2> HIDE DEF r
  <2>3. Numbered' /\ HeadCurrent'
    <3>1. seq' \in Nat /\ seq' >= seq /\ r.id =< seq'
      BY <1>a, <2>1, <2>2
    <3>2. QED
      BY <2>1, <2>2, <3>1, RowKeeps
  <2>4. /\ rows' \in Seq(Row)
        /\ Len(rows) \in Nat /\ Len(rows') = Len(rows) + 1
        /\ rows'[Len(rows) + 1] = r
    BY <1>0, <2>1, <2>2, RowAppended
  <2>5. pc[w] \in Open
    BY <2>1 DEF Open
  <2>6. /\ pc'[w] = "return"
        /\ \A v \in Workers \ {w} : pc'[v] = pc[v] /\ tx'[v] = tx[v]
    BY <1>a, <2>1
  <2>7. Current(w)'
    <3>1. Len(rows) + 1 \in 1 .. Len(rows')
      BY <2>4
    <3>2. tx'[w].row \in Row /\ rows'[Len(rows) + 1].sha = tx'[w].row.sha
      BY <2>1, <2>2, <2>4 DEF r
    <3>3. QED
      BY <2>1, <2>2, <2>6, <3>1, <3>2 DEF Current
  <2>8. ASSUME NEW v \in Workers \ {w}
        PROVE  Current(v)'
    <3>1. pc[v] \in {"idle", "return"}
      BY <1>0, <2>5, OnlyOpen
    <3>2. QED
      BY <1>0, <2>1, <2>2, <2>6, <3>1, OtherKeeps
  <2>9. Serial'
    <3>1. \A v \in Workers : pc'[v] \notin Open
      BY <1>0, <2>5, <2>6, OnlyOpen DEF Open
    <3>2. \A v \in Workers : pc'[v] # "idle" => pc[v] # "idle"
      BY <2>1, <2>6
    <3>3. QED
      BY <1>0, <2>1, <3>1, <3>2 DEF Serial
  <2>10. TypeOK'
    <3>1. state' \in [hash : {0} \union Digests, id : {0} \union Ids]
      BY <2>1, <2>2 DEF Row
    <3>2. advisory' \in Workers \union {None} /\ rowlock' \in Workers \union {None}
      BY <1>0, <2>1 DEF TypeOK, Release
    <3>3. QED
      BY <1>0, <1>a, <2>1, <2>4, <3>1, <3>2 DEF TypeOK, Tx
  <2>11. QED
    BY <2>3, <2>7, <2>8, <2>9, <2>10 DEF Inv
<1>5. CASE Conflict(w) \/ Return(w) \/ Drop(w) \/ LostAnswer(w)
  <2>1. /\ pc[w] # "idle" /\ pc' = [pc EXCEPT ![w] = "idle"]
        /\ tx' = [tx EXCEPT ![w] = NoRow]
        /\ UNCHANGED <<source, rows, state, line, failed, gap, report, switched, runs>>
        /\ advisory' = advisory \/ (advisory' = None /\ advisory = w)
        /\ rowlock' \in {rowlock, None}
    <3>1. CASE Return(w)
      BY <3>1 DEF Return, Goto, migration
    <3>2. CASE Conflict(w) \/ Drop(w) \/ LostAnswer(w)
      <4>1. /\ pc[w] # "idle" /\ Rollback(w)
            /\ UNCHANGED <<source, rows, state, line, failed, gap, report, switched, runs>>
        BY <3>2 DEF Conflict, Drop, LostAnswer, migration
      <4>2. QED
        BY <4>1 DEF Rollback, Release, Goto
    <3>3. QED
      BY <1>5, <3>1, <3>2
  <2>2. /\ pc'[w] = "idle"
        /\ \A v \in Workers \ {w} : pc'[v] = pc[v] /\ tx'[v] = tx[v]
    BY <1>a, <2>1
  <2>3. \/ seq' = seq
        \/ pc[w] = "insert" /\ seq' = seq + 1
    BY <1>5 DEF Conflict, Return, Drop, LostAnswer
  <2>4. Current(w)'
    BY <2>2 DEF Current
  <2>5. ASSUME NEW v \in Workers \ {w}
        PROVE  Current(v)'
    <3>1. CASE pc[v] \in {"idle", "return"}
      BY <1>0, <2>1, <2>2, <3>1, OtherKeeps
    <3>2. CASE pc[v] \in Open
      <4>1. pc[w] \notin Open
        BY <1>0, <3>2 DEF Serial
      <4>2. seq' = seq
        BY <2>3, <4>1 DEF Open
      <4>3. QED
        BY <1>0, <2>1, <2>2, <4>2 DEF Current
    <3>3. QED
      BY <1>a, <3>1, <3>2 DEF Open
  <2>6. Serial'
    BY <1>0, <2>1, <2>2 DEF Serial, Open
  <2>7. TypeOK'
    <3>1. tx' \in [Workers -> Tx \union {NoRow}]
      BY <1>a, <2>1
    <3>2. seq' \in 0 .. MaxIds
      BY <1>0, <1>a, <2>3 DEF Current
    <3>3. acked' \subseteq Digests
      <4>1. CASE Return(w)
        <5>1. tx[w].row \in Row /\ acked' = acked \union {tx[w].row.sha}
          BY <1>0, <4>1 DEF Return, Current
        <5>2. tx[w].row.sha \in Digests
          BY <5>1 DEF Row
        <5>3. QED
          BY <1>0, <5>1, <5>2 DEF TypeOK
      <4>2. CASE Conflict(w) \/ Drop(w) \/ LostAnswer(w)
        BY <1>0, <4>2 DEF TypeOK, Conflict, Drop, LostAnswer
      <4>3. QED
        BY <1>5, <4>1, <4>2
    <3>4. faults' \in 0 .. MaxFaults
      <4>1. faults \in 0 .. MaxFaults /\ MaxFaults \in Nat
        BY <1>0, ConstantsAssumption DEF TypeOK
      <4>2. faults' = faults \/ (faults < MaxFaults /\ faults' = faults + 1)
        BY <1>5 DEF Conflict, Return, Drop, LostAnswer, Fault
      <4>3. QED
        BY <4>1, <4>2
    <3>5. QED
      BY <1>0, <1>a, <2>1, <3>1, <3>2, <3>3, <3>4 DEF TypeOK, Tx
  <2>8. Numbered' /\ HeadCurrent'
    BY <2>1, <2>3, QuietKeeps
  <2>9. QED
    BY <2>4, <2>5, <2>6, <2>7, <2>8 DEF Inv
<1>6. QED
  BY <1>1, <1>2, <1>3, <1>4, <1>5 DEF Worker
-----------------------------------------------------------------------------
(* The migration *)

\* The file is a sequence of request ids of at most MaxLines lines.
LEMMA SourceTyped ==
  ASSUME TypeOK
  PROVE  /\ source \in Seq(ReqIds) /\ Len(source) \in Nat
         /\ MaxLines \in Nat /\ Len(source) =< MaxLines
         /\ \A k \in 1 .. Len(source) : source[k] \in ReqIds
<1>1. source \in Seq(ReqIds) /\ Len(source) =< MaxLines /\ MaxLines \in Nat
  BY ConstantsAssumption DEF TypeOK, ReqIds
<1>2. QED
  BY <1>1

\* import_entry keeps the tables in order: its row has the highest id.
LEMMA ImportKeeps ==
  ASSUME Inv, line \in 1 .. Len(source), ImportRow, source' = source
  PROVE  /\ SourceRow \in Row /\ FromLine(SourceRow)
         /\ rows' = Append(rows, SourceRow) /\ rows' \in Seq(Row)
         /\ state' \in [hash : {0} \union Digests, id : {0} \union Ids]
         /\ seq' \in 0 .. MaxIds
         /\ Numbered' /\ HeadCurrent'
<1>0. TypeOK /\ Numbered /\ HeadCurrent
  BY DEF Inv
<1>1. /\ seq \in Nat /\ MaxIds \in Nat /\ line \in Nat
      /\ Len(source) \in Nat /\ MaxLines \in Nat /\ Len(source) =< MaxLines
      /\ source[line] \in ReqIds
  <2>1. seq \in Nat /\ MaxIds \in Nat
    BY <1>0, ConstantsAssumption DEF TypeOK
  <2>2. QED
    BY <1>0, <2>1, SourceTyped
<1>2. /\ seq < MaxIds /\ seq' = seq + 1 /\ rows' = Append(rows, SourceRow)
      /\ Advance(SourceRow)
  BY DEF ImportRow
<1>3. /\ SourceRow \in Row /\ SourceRow.id = seq + 1 /\ SourceRow.sha = line
      /\ SourceRow.req = source[line] /\ SourceRow.prev = line - 1
  <2>1. /\ seq + 1 \in Ids /\ line \in Digests
        /\ line - 1 \in {0} \union Digests
    BY <1>1, <1>2 DEF Ids, Digests
  <2>2. QED
    BY <1>1, <2>1 DEF SourceRow, Row
<1>4. \A i \in 1 .. Len(rows) : rows[i].id \in Nat /\ rows[i].id < seq + 1
  <2>1. \A i \in 1 .. Len(rows) : rows[i] \in Row
    BY <1>0 DEF TypeOK
  <2>2. \A x \in Row : x.id \in Nat
    BY ConstantsAssumption DEF Row, Ids
  <2>3. QED
    BY <1>0, <1>1, <2>1, <2>2 DEF Numbered
<1>5. state.id < seq + 1
  <2>1. CASE rows = <<>>
    BY <1>0, <1>1, <2>1 DEF HeadCurrent, NoState
  <2>2. CASE rows # <<>>
    <3>1. Len(rows) \in 1 .. Len(rows)
      BY <1>0, <2>2 DEF TypeOK
    <3>2. state.id = rows[Len(rows)].id
      BY <1>0, <2>2 DEF HeadCurrent
    <3>3. QED
      BY <1>4, <3>1, <3>2
  <2>3. QED
    BY <2>1, <2>2
<1>6. state' = [hash |-> SourceRow.sha, id |-> SourceRow.id]
  BY <1>2, <1>3, <1>5 DEF Advance
<1>7. state' \in [hash : {0} \union Digests, id : {0} \union Ids]
  BY <1>3, <1>6 DEF Row
<1>8. rows' \in Seq(Row)
  BY <1>0, <1>2, <1>3, RowAppended
<1>9. Numbered' /\ HeadCurrent'
  <2>1. /\ seq' \in Nat /\ seq' >= seq /\ SourceRow.id =< seq'
        /\ \A i \in 1 .. Len(rows) : rows[i].id < SourceRow.id
        /\ FromLine(SourceRow)
    BY <1>1, <1>2, <1>3, <1>4 DEF FromLine
  <2>2. QED
    BY <1>2, <1>3, <1>6, <2>1, RowKeeps
<1>10. QED
  BY <1>1, <1>2, <1>3, <1>7, <1>8, <1>9 DEF FromLine

\* A line is imported or left, and the tables keep their order.
LEMMA LineKeeps ==
  ASSUME Inv, line \in 1 .. Len(source), ImportRow \/ UNCHANGED <<rows, state, seq, gap>>,
         UNCHANGED <<source, advisory, rowlock, pc, tx, acked, switched, runs>>,
         line' \in 0 .. (Len(source) + 1), failed' \in BOOLEAN,
         report' \in {"none", "ok", "failed"}, faults' \in 0 .. MaxFaults
  PROVE  Inv'
<1>0. /\ TypeOK /\ Serial /\ Numbered /\ HeadCurrent
      /\ \A v \in Workers : Current(v)
  BY DEF Inv
<1>1. line # 0
  OBVIOUS
<1>2. ~switched /\ \A v \in Workers : pc[v] = "idle"
  BY <1>0, <1>1, AllIdle DEF Serial
<1>3. Serial' /\ gap' \in Nat \union {None}
  <2>1. gap' \in {gap, Len(rows)} /\ Len(rows) \in Nat
    BY <1>0 DEF ImportRow, TypeOK
  <2>2. QED
    BY <1>0, <1>2, <2>1 DEF Serial, Open, TypeOK
<1>4. CASE ImportRow
  <2>1. /\ SourceRow \in Row /\ rows' = Append(rows, SourceRow)
        /\ rows' \in Seq(Row)
        /\ state' \in [hash : {0} \union Digests, id : {0} \union Ids]
        /\ seq' \in 0 .. MaxIds
        /\ Numbered' /\ HeadCurrent'
    BY <1>4, ImportKeeps
  <2>2. \A v \in Workers : Current(v)'
    BY <1>2 DEF Current
  <2>3. TypeOK'
    BY <1>0, <1>3, <2>1 DEF TypeOK
  <2>4. QED
    BY <1>3, <2>1, <2>2, <2>3 DEF Inv
<1>5. CASE UNCHANGED <<rows, state, seq, gap>>
  <2>1. Numbered' /\ HeadCurrent'
    BY <1>5, QuietKeeps
  <2>2. \A v \in Workers : Current(v)'
    BY <1>2 DEF Current
  <2>3. TypeOK'
    BY <1>0, <1>5 DEF TypeOK
  <2>4. QED
    BY <1>3, <2>1, <2>2, <2>3 DEF Inv
<1>6. QED
  BY <1>4, <1>5

LEMMA MigrateStep ==
  ASSUME Inv, Migrate
  PROVE  Inv'
<1>0. /\ TypeOK /\ Serial /\ Numbered /\ HeadCurrent
      /\ \A v \in Workers : Current(v)
  BY DEF Inv
<1>1. /\ Len(source) \in Nat /\ MaxFaults \in Nat /\ MaxRuns \in Nat
      /\ line \in 0 .. (Len(source) + 1) /\ failed \in BOOLEAN
      /\ gap \in Nat \union {None} /\ Len(rows) \in Nat
      /\ report \in {"none", "ok", "failed"} /\ faults \in 0 .. MaxFaults
      /\ runs \in 0 .. MaxRuns
  BY <1>0, ConstantsAssumption, SourceTyped DEF TypeOK
<1>2. CASE ImportLine \/ Duplicate
  <2>1. /\ line \in 1 .. Len(source) /\ line' = line + 1
        /\ ImportRow \/ UNCHANGED <<rows, state, seq, gap>>
        /\ UNCHANGED <<source, advisory, rowlock, pc, tx, acked, switched, runs, failed,
                       report, faults>>
    BY <1>2 DEF ImportLine, Duplicate
  <2>2. line' \in 0 .. (Len(source) + 1)
    BY <1>1, <2>1
  <2>3. QED
    BY <1>1, <2>1, <2>2, LineKeeps
<1>3. CASE LineFails
  <2>1. /\ line \in 1 .. Len(source) /\ line' = line + 1 /\ failed' = TRUE
        /\ ImportRow \/ UNCHANGED <<rows, state, seq, gap>>
        /\ UNCHANGED <<source, advisory, rowlock, pc, tx, acked, switched, runs, report>>
        /\ faults < MaxFaults /\ faults' = faults + 1
    BY <1>3 DEF LineFails, Fault
  <2>2. line' \in 0 .. (Len(source) + 1) /\ faults' \in 0 .. MaxFaults
    BY <1>1, <2>1
  <2>3. QED
    BY <1>1, <2>1, <2>2, LineKeeps
<1>4. CASE Killed
  <2>1. /\ line \in 1 .. Len(source) /\ line' = 0 /\ report' = "failed"
        /\ ImportRow \/ UNCHANGED <<rows, state, seq, gap>>
        /\ UNCHANGED <<source, advisory, rowlock, pc, tx, acked, switched, runs, failed>>
        /\ faults < MaxFaults /\ faults' = faults + 1
    BY <1>4 DEF Killed, Fault
  <2>2. line' \in 0 .. (Len(source) + 1) /\ faults' \in 0 .. MaxFaults
    BY <1>1, <2>1
  <2>3. QED
    BY <1>1, <2>1, <2>2, LineKeeps
<1>5. CASE Start \/ Exit \/ Switch
  <2>1. /\ UNCHANGED <<source, rows, state, seq, advisory, rowlock, pc, tx, acked,
                       gap, faults>>
        /\ line' \in 0 .. (Len(source) + 1) /\ failed' \in BOOLEAN
        /\ report' \in {"none", "ok", "failed"} /\ switched' \in BOOLEAN
        /\ runs' \in 0 .. MaxRuns
        /\ switched' => line' = 0
        /\ \A v \in Workers : pc[v] # "idle" => switched'
    <3>1. CASE Start
      <4>1. /\ line' = 1 /\ ~switched /\ failed' = FALSE /\ runs' = runs + 1
            /\ runs < MaxRuns
            /\ UNCHANGED <<source, rows, state, seq, advisory, rowlock, pc, tx, acked,
                           gap, report, switched, faults>>
        BY <3>1 DEF Start
      <4>2. line' \in 0 .. (Len(source) + 1) /\ runs' \in 0 .. MaxRuns
        BY <1>1, <4>1
      <4>3. QED
        BY <1>0, <1>1, <4>1, <4>2 DEF Serial, TypeOK
    <3>2. CASE Exit
      BY <1>0, <1>1, <3>2 DEF Exit, TypeOK, Serial
    <3>3. CASE Switch
      BY <1>0, <1>1, <3>3 DEF Switch, TypeOK, Serial
    <3>4. QED
      BY <1>5, <3>1, <3>2, <3>3
  <2>2. Numbered' /\ HeadCurrent'
    BY <2>1, QuietKeeps
  <2>4. \A v \in Workers : Current(v)'
    BY <1>0, <2>1 DEF Current
  <2>5. Serial'
    BY <1>0, <2>1 DEF Serial
  <2>6. TypeOK'
    BY <1>0, <2>1 DEF TypeOK
  <2>7. QED
    BY <2>2, <2>4, <2>5, <2>6 DEF Inv
<1>6. QED
  BY <1>2, <1>3, <1>4, <1>5 DEF Migrate

\* Init and Next establish and keep the invariant.
LEMMA InvInit == Init => Inv
<1> SUFFICES ASSUME Init
             PROVE  Inv
  OBVIOUS
<1>1. Len(source) \in Nat /\ Len(rows) = 0 /\ rows = <<>>
  BY ConstantsAssumption DEF Init
<1>2. TypeOK
  <2>1. rows \in Seq(Row) /\ 0 \in 0 .. (Len(source) + 1)
    BY <1>1
  <2>2. 0 \in 0 .. MaxIds /\ 0 \in 0 .. MaxRuns /\ 0 \in 0 .. MaxFaults
    BY ConstantsAssumption
  <2>3. state \in [hash : {0} \union Digests, id : {0} \union Ids]
    BY DEF Init, NoState
  <2>4. QED
    BY <2>1, <2>2, <2>3 DEF Init, TypeOK
<1>3. Serial /\ \A w \in Workers : Current(w)
  BY DEF Init, Serial, Current, Open
<1>4. Numbered /\ HeadCurrent
  BY <1>1 DEF Init, Numbered, HeadCurrent
<1>5. QED
  BY <1>2, <1>3, <1>4 DEF Inv

\* See InvInit.
LEMMA InvStep == Inv /\ [Next]_vars => Inv'
<1> SUFFICES ASSUME Inv, [Next]_vars
             PROVE  Inv'
  OBVIOUS
<1>1. CASE Migrate
  BY <1>1, MigrateStep
<1>2. ASSUME NEW w \in Workers, Worker(w)
      PROVE  Inv'
  BY <1>2, WorkerStep
<1>3. CASE UNCHANGED vars
  <2>1. Numbered' /\ HeadCurrent'
    BY <1>3, QuietKeeps DEF vars, migration
  <2>2. TypeOK'
    BY <1>3 DEF Inv, vars, migration, TypeOK
  <2>3. Serial' /\ \A w \in Workers : Current(w)'
    BY <1>3 DEF Inv, vars, migration, Serial, Current
  <2>4. QED
    BY <2>1, <2>2, <2>3 DEF Inv
<1>4. QED
  BY <1>1, <1>2, <1>3 DEF Next

\* The invariant holds in every state.
LEMMA Always == Spec => []Inv
  BY InvInit, InvStep, PTL DEF Spec

\* The state of the backend and of the migration is well typed.
THEOREM TypeCorrect == Spec => []TypeOK
<1>1. Inv => TypeOK
  BY DEF Inv
<1>2. QED
  BY <1>1, Always, PTL

\* The chain state always names the row with the highest id, however
\* connections interleave, drop and lose answers, and whatever lines of a
\* migration fail.
THEOREM HeadIsCurrent == Spec => []HeadCurrent
<1>1. Inv => HeadCurrent
  BY DEF Inv
<1>2. QED
  BY <1>1, Always, PTL

-----------------------------------------------------------------------------
(* The chain *)

\* Before the backend is switched all rows are lines of the file.
FromFile == ~switched => \A i \in 1 .. Len(rows) : FromLine(rows[i])

\* The lines in the table are the first ones of the file, in their order.
InOrder ==
  \A i \in 1 .. Len(rows) : rows[i].sha \in 1 .. Len(source) => rows[i].sha = i

\* Every row names the one before it.
Linked ==
  \A i \in 1 .. Len(rows) :
    rows[i].prev = IF i = 1 THEN 0 ELSE rows[i - 1].sha

\* Where a line was stored ahead of a missing one the chain stays broken.
Broken ==
  gap \in Nat =>
    gap < Len(rows) /\ (gap > 0 => rows[gap + 1].prev # rows[gap].sha)

\* The chain holds as long as no line was stored ahead of a missing one.
SoundInv ==
  /\ Inv
  /\ FromFile
  /\ gap = None => InOrder /\ Linked
  /\ Broken
  /\ ~switched => acked = {}

\* The head of the abstract chain is last_hash.
LEMMA HeadHash ==
  ASSUME TypeOK, HeadCurrent
  PROVE  /\ rows = <<>> => state.hash = 0
         /\ rows # <<>> => state.hash = rows[Len(rows)].sha
  BY DEF HeadCurrent, NoState

\* A row that names the head extends the chain.
LEMMA LinkKeeps ==
  ASSUME TypeOK, HeadCurrent, Linked, NEW r \in Row, rows' = Append(rows, r),
         r.prev = state.hash
  PROVE  Linked'
<1>1. /\ Len(rows) \in Nat /\ Len(rows') = Len(rows) + 1
      /\ \A i \in 1 .. Len(rows) : rows'[i] = rows[i]
      /\ rows'[Len(rows) + 1] = r
  BY RowAppended
<1>2. SUFFICES ASSUME NEW i \in 1 .. Len(rows')
               PROVE  rows'[i].prev = IF i = 1 THEN 0 ELSE rows'[i - 1].sha
  BY DEF Linked
<1>3. CASE i \in 1 .. Len(rows)
  <2>1. i # 1 => i - 1 \in 1 .. Len(rows)
    BY <1>1, <1>3
  <2>2. rows[i].prev = IF i = 1 THEN 0 ELSE rows[i - 1].sha
    BY <1>3 DEF Linked
  <2>3. QED
    BY <1>1, <1>3, <2>1, <2>2
<1>4. CASE i = Len(rows) + 1
  <2>1. CASE rows = <<>>
    <3>1. i = 1 /\ state.hash = 0
      BY <1>4, <2>1, HeadHash
    <3>2. QED
      BY <1>1, <1>4, <3>1
  <2>2. CASE rows # <<>>
    <3>1. Len(rows) # 0
      BY <2>2 DEF TypeOK
    <3>2. i # 1 /\ i - 1 = Len(rows) /\ i - 1 \in 1 .. Len(rows)
      BY <1>1, <1>4, <3>1
    <3>3. rows'[i].prev = rows[i - 1].sha
      BY <1>1, <1>4, <2>2, <3>2, HeadHash
    <3>4. QED
      BY <1>1, <3>2, <3>3
  <2>3. QED
    BY <2>1, <2>2
<1>5. QED
  BY <1>1, <1>2, <1>3, <1>4

\* Rows are only ever added.
LEMMA RowsGrow ==
  ASSUME Inv, [Next]_vars
  PROVE  /\ Len(rows) \in Nat /\ Len(rows') \in Nat /\ Len(rows) =< Len(rows')
         /\ \A i \in 1 .. Len(rows) : rows'[i] = rows[i]
<1>0. TypeOK /\ TypeOK' /\ \A w \in Workers : Current(w)
  BY InvStep DEF Inv
<1>1. Len(rows) \in Nat /\ Len(rows') \in Nat
  BY <1>0 DEF TypeOK
<1>2. ASSUME NEW r \in Row, rows' = Append(rows, r)
      PROVE  Len(rows') = Len(rows) + 1 /\ \A i \in 1 .. Len(rows) : rows'[i] = rows[i]
  BY <1>0, <1>2, RowAppended
<1>3. \/ rows' = rows
      \/ \E r \in Row : rows' = Append(rows, r)
  <2>1. ASSUME NEW w \in Workers, Commit(w)
        PROVE  \E r \in Row : rows' = Append(rows, r)
    <3>1. pc[w] = "commit" /\ rows' = Append(rows, tx[w].row)
      BY <2>1 DEF Commit
    <3>2. tx[w].row \in Row
      BY <1>0, <3>1 DEF Current
    <3>3. QED
      BY <3>1, <3>2
  <2>2. ASSUME NEW w \in Workers, Worker(w), ~Commit(w)
        PROVE  rows' = rows
    BY <2>2 DEF Worker, Lock, Read, Insert, Conflict, Return, Drop, LostAnswer
  <2>3. CASE Migrate
    <3>1. \/ rows' = rows
          \/ line \in 1 .. Len(source) /\ ImportRow /\ source' = source
      BY <2>3 DEF Migrate, Start, ImportLine, Duplicate, LineFails, Killed, Exit,
                  Switch
    <3>2. QED
      BY <3>1, ImportKeeps
  <2>4. CASE UNCHANGED vars
    BY <2>4 DEF vars, migration
  <2>5. QED
    BY <2>1, <2>2, <2>3, <2>4 DEF Next
<1>4. QED
  BY <1>1, <1>2, <1>3

\* A step writes no row, a line, or the row of a transaction.
LEMMA RowSteps ==
  ASSUME [Next]_vars
  PROVE  /\ source' = source
         /\ switched => switched'
         /\ \/ UNCHANGED <<rows, gap>>
            \/ line \in 1 .. Len(source) /\ ImportRow /\ UNCHANGED switched
            \/ \E w \in Workers : Commit(w) /\ UNCHANGED <<gap, switched>>
<1>1. ASSUME NEW w \in Workers, Worker(w)
      PROVE  /\ source' = source /\ UNCHANGED <<gap, switched>>
             /\ rows' = rows \/ Commit(w)
  BY <1>1 DEF Worker, Lock, Read, Insert, Conflict, Commit, Return, Drop,
              LostAnswer, migration
<1>2. ASSUME Migrate
      PROVE  /\ source' = source
             /\ switched => switched'
             /\ \/ UNCHANGED <<rows, gap>>
                \/ line \in 1 .. Len(source) /\ ImportRow /\ UNCHANGED switched
  BY <1>2 DEF Migrate, Start, ImportLine, Duplicate, LineFails, Killed, Exit, Switch
<1>3. CASE UNCHANGED vars
  BY <1>3 DEF vars, migration
<1>4. QED
  BY <1>1, <1>2, <1>3 DEF Next

\* While no line was stored ahead of a missing one, row i is line i until the
\* backend is switched.
LEMMA RowIsLine ==
  ASSUME SoundInv, gap = None, ~switched, NEW i \in 1 .. Len(rows)
  PROVE  /\ i \in 1 .. Len(source) /\ rows[i].sha = i
         /\ rows[i].prev = i - 1 /\ rows[i].req = source[i]
  BY DEF SoundInv, FromFile, FromLine, InOrder

\* A line that is imported with all lines before it in the table is the one
\* after those in the table.
LEMMA NextLine ==
  ASSUME SoundInv, gap = None, line \in 1 .. Len(source),
         ~Taken(source[line], line), \A k \in 1 .. (line - 1) : InTable(k)
  PROVE  line = Len(rows) + 1 /\ state.hash = line - 1
<1>0. TypeOK /\ HeadCurrent /\ ~switched
  BY DEF SoundInv, Inv, Serial
<1>1. Len(rows) \in Nat /\ Len(source) \in Nat /\ line \in Nat
  BY <1>0, SourceTyped DEF TypeOK
<1>2. line \notin 1 .. Len(rows)
  <2>1. SUFFICES ASSUME line \in 1 .. Len(rows)
                 PROVE  FALSE
    OBVIOUS
  <2>2. rows[line].req = source[line] /\ rows[line].sha = line
    BY <1>0, <2>1, RowIsLine
  <2>3. QED
    BY <2>1, <2>2 DEF Taken
<1>3. line - 1 =< Len(rows)
  <2>1. CASE line = 1
    BY <1>1, <2>1
  <2>2. CASE line # 1
    <3>1. line - 1 \in 1 .. (line - 1)
      BY <1>1, <2>2
    <3>2. PICK i \in 1 .. Len(rows) : rows[i].sha = line - 1
      BY <3>1 DEF InTable
    <3>3. i = line - 1
      BY <1>0, <3>2, RowIsLine
    <3>4. QED
      BY <1>1, <3>3
  <2>3. QED
    BY <2>1, <2>2
<1>4. line = Len(rows) + 1
  BY <1>1, <1>2, <1>3
<1>5. CASE rows = <<>>
  BY <1>0, <1>4, <1>5, HeadHash
<1>6. CASE rows # <<>>
  <2>1. Len(rows) # 0 /\ Len(rows) \in 1 .. Len(rows)
    BY <1>0, <1>1, <1>6 DEF TypeOK
  <2>2. rows[Len(rows)].sha = Len(rows)
    BY <1>0, <2>1, RowIsLine
  <2>3. QED
    BY <1>0, <1>1, <1>4, <1>6, <2>2, HeadHash
<1>7. QED
  BY <1>4, <1>5, <1>6

\* A line that is imported ahead of a missing one does not name the last row.
LEMMA AheadBreaks ==
  ASSUME SoundInv, gap = None, line \in 1 .. Len(source),
         NEW k \in 1 .. (line - 1), ~InTable(k), Len(rows) > 0
  PROVE  line - 1 # rows[Len(rows)].sha
<1>0. TypeOK /\ ~switched
  BY DEF SoundInv, Inv, Serial
<1>1. Len(rows) \in Nat /\ Len(rows) \in 1 .. Len(rows)
  BY <1>0 DEF TypeOK
<1>2. rows[Len(rows)].sha = Len(rows)
  BY <1>0, <1>1, RowIsLine
<1>3. k \notin 1 .. Len(rows)
  <2>1. k \in 1 .. Len(rows) => rows[k].sha = k
    BY <1>0, RowIsLine
  <2>2. QED
    BY <2>1 DEF InTable
<1>4. QED
  BY <1>1, <1>2, <1>3

\* Importing a line keeps SoundInv.
LEMMA ImportSound ==
  ASSUME SoundInv, Inv', line \in 1 .. Len(source), ImportRow,
         UNCHANGED <<source, switched>>
  PROVE  FromFile' /\ (gap' = None => InOrder' /\ Linked') /\ Broken'
<1>0. /\ Inv /\ TypeOK /\ HeadCurrent /\ Serial /\ ~switched /\ FromFile /\ Broken
  BY DEF SoundInv, Inv, Serial
<1>1. /\ SourceRow \in Row /\ FromLine(SourceRow) /\ rows' = Append(rows, SourceRow)
  BY <1>0, ImportKeeps
<1>2. /\ Len(rows) \in Nat /\ Len(rows') = Len(rows) + 1
      /\ \A i \in 1 .. Len(rows) : rows'[i] = rows[i]
      /\ rows'[Len(rows) + 1] = SourceRow
  BY <1>0, <1>1, RowAppended
<1>3. \A i \in 1 .. Len(rows') : i \in 1 .. Len(rows) \/ i = Len(rows) + 1
  BY <1>2
<1>4. SourceRow.sha = line /\ SourceRow.prev = line - 1
  BY DEF SourceRow
<1>5. FromFile'
  <2>1. \A i \in 1 .. Len(rows') : FromLine(rows'[i])
    BY <1>0, <1>1, <1>2, <1>3 DEF FromFile
  <2>2. QED
    BY <2>1 DEF FromFile, FromLine
<1>6. /\ ~Taken(source[line], line)
      /\ gap' = IF gap = None /\ \E k \in 1 .. (line - 1) : ~InTable(k)
                THEN Len(rows) ELSE gap
  BY DEF ImportRow
<1>7. gap \in Nat \union {None} /\ None \notin Nat
  BY <1>0, ConstantsAssumption DEF TypeOK
<1>8. CASE gap # None
  <2>1. gap' = gap /\ gap \in Nat /\ gap < Len(rows)
        /\ (gap > 0 => rows[gap + 1].prev # rows[gap].sha)
    BY <1>0, <1>6, <1>7, <1>8 DEF Broken
  <2>2. /\ gap + 1 \in 1 .. Len(rows)
        /\ gap > 0 => gap \in 1 .. Len(rows)
    BY <1>2, <2>1
  <2>3. Broken'
    BY <1>2, <2>1, <2>2 DEF Broken
  <2>4. QED
    BY <1>5, <1>8, <2>1, <2>3
<1>9. CASE gap = None /\ \E k \in 1 .. (line - 1) : ~InTable(k)
  <2>1. gap' = Len(rows) /\ gap' # None
    BY <1>2, <1>6, <1>7, <1>9
  <2>2. Len(rows) > 0 => line - 1 # rows[Len(rows)].sha
    BY <1>9, AheadBreaks
  <2>3. Len(rows) > 0 => rows'[Len(rows)] = rows[Len(rows)]
    BY <1>2
  <2>4. Broken'
    BY <1>2, <1>4, <2>1, <2>2, <2>3 DEF Broken
  <2>5. QED
    BY <1>5, <2>1, <2>4
<1>10. CASE gap = None /\ \A k \in 1 .. (line - 1) : InTable(k)
  <2>1. gap' = None /\ gap' \notin Nat
    BY <1>6, <1>7, <1>10
  <2>2. line = Len(rows) + 1 /\ state.hash = line - 1
    BY <1>6, <1>10, NextLine
  <2>3. Linked'
    BY <1>0, <1>1, <1>4, <1>10, <2>2, LinkKeeps DEF SoundInv
  <2>4. InOrder'
    BY <1>2, <1>3, <1>4, <1>10, <2>2 DEF InOrder, SoundInv
  <2>5. QED
    BY <1>5, <2>1, <2>3, <2>4 DEF Broken
<1>11. QED
  BY <1>8, <1>9, <1>10

\* Committing a transaction keeps SoundInv.
LEMMA CommitSound ==
  ASSUME SoundInv, NEW w \in Workers, Commit(w), UNCHANGED <<source, gap, switched>>
  PROVE  FromFile' /\ (gap' = None => InOrder' /\ Linked') /\ Broken'
<1>0. /\ Inv /\ TypeOK /\ HeadCurrent /\ Serial /\ Broken /\ Current(w)
  BY DEF SoundInv, Inv
<1>1. /\ pc[w] = "commit" /\ rows' = Append(rows, tx[w].row)
  BY DEF Commit
<1>2. /\ tx[w].row \in Row /\ tx[w].row.prev = state.hash
      /\ tx[w].row.sha = MaxLines + tx[w].row.id /\ switched
  BY <1>0, <1>1 DEF Current, Serial
<1>3. /\ Len(rows) \in Nat /\ Len(rows') = Len(rows) + 1
      /\ \A i \in 1 .. Len(rows) : rows'[i] = rows[i]
      /\ rows'[Len(rows) + 1] = tx[w].row
  BY <1>0, <1>1, <1>2, RowAppended
<1>4. tx[w].row.sha \notin 1 .. Len(source)
  <2>1. tx[w].row.id \in Nat /\ tx[w].row.id > 0
    BY <1>2, ConstantsAssumption DEF Row, Ids
  <2>2. QED
    BY <1>0, <1>2, <2>1, SourceTyped
<1>5. FromFile'
  BY <1>2 DEF FromFile
<1>6. Broken'
  <2>1. SUFFICES ASSUME gap \in Nat
                 PROVE  gap < Len(rows') /\ (gap > 0 => rows'[gap + 1].prev # rows'[gap].sha)
    BY DEF Broken
  <2>2. gap < Len(rows) /\ (gap > 0 => rows[gap + 1].prev # rows[gap].sha)
    BY <1>0, <2>1 DEF Broken
  <2>3. /\ gap + 1 \in 1 .. Len(rows)
        /\ gap > 0 => gap \in 1 .. Len(rows)
    BY <1>3, <2>1, <2>2
  <2>4. QED
    BY <1>3, <2>1, <2>2, <2>3
<1>7. ASSUME gap = None
      PROVE  InOrder' /\ Linked'
  <2>1. Linked'
    BY <1>0, <1>1, <1>2, <1>7, LinkKeeps DEF SoundInv
  <2>2. \A i \in 1 .. Len(rows') : i \in 1 .. Len(rows) \/ i = Len(rows) + 1
    BY <1>3
  <2>3. InOrder'
    BY <1>3, <1>4, <1>7, <2>2 DEF InOrder, SoundInv
  <2>4. QED
    BY <2>1, <2>3
<1>8. QED
  BY <1>5, <1>6, <1>7

\* Nothing is acknowledged before the backend is switched.
LEMMA AckedAfter ==
  ASSUME Inv, ~switched => acked = {}, [Next]_vars
  PROVE  ~switched' => acked' = {}
<1>1. ASSUME NEW w \in Workers, Return(w)
      PROVE  switched'
  <2>1. pc[w] = "return" /\ switched' = switched
    BY <1>1 DEF Return, migration
  <2>2. QED
    BY <2>1 DEF Inv, Serial
<1>2. ASSUME NEW w \in Workers, Worker(w), ~Return(w)
      PROVE  UNCHANGED <<acked, switched>>
  BY <1>2 DEF Worker, Lock, Read, Insert, Conflict, Commit, Drop, LostAnswer,
              migration
<1>3. CASE Migrate
  <2>1. acked' = acked /\ (switched => switched')
    BY <1>3 DEF Migrate, Start, ImportLine, Duplicate, LineFails, Killed, Exit, Switch
  <2>2. QED
    BY <2>1
<1>4. CASE UNCHANGED vars
  BY <1>4 DEF vars, migration
<1>5. QED
  BY <1>1, <1>2, <1>3, <1>4 DEF Next

\* Every step keeps the rows linked and the lines in front, or the break where
\* it is.
LEMMA SoundStep == SoundInv /\ [Next]_vars => SoundInv'
<1> SUFFICES ASSUME SoundInv, [Next]_vars
             PROVE  SoundInv'
  OBVIOUS
<1>1. Inv /\ Inv' /\ (~switched' => acked' = {})
  BY InvStep, AckedAfter DEF SoundInv
<1>2. source' = source /\ (switched => switched')
  BY RowSteps
<1>3. CASE UNCHANGED <<rows, gap>>
  BY <1>1, <1>2, <1>3 DEF SoundInv, FromFile, FromLine, InOrder, Linked, Broken
<1>4. CASE line \in 1 .. Len(source) /\ ImportRow /\ UNCHANGED switched
  BY <1>1, <1>2, <1>4, ImportSound DEF SoundInv
<1>5. ASSUME NEW w \in Workers, Commit(w), UNCHANGED <<gap, switched>>
      PROVE  SoundInv'
  BY <1>1, <1>2, <1>5, CommitSound DEF SoundInv
<1>6. QED
  BY <1>3, <1>4, <1>5, RowSteps

\* The invariant with the chain, in every state.
LEMMA ChainAlways == Spec => []SoundInv
<1>1. Init => SoundInv
  <2>1. SUFFICES ASSUME Init
                 PROVE  SoundInv
    OBVIOUS
  <2>2. Inv /\ Len(rows) = 0
    BY <2>1, InvInit DEF Init
  <2>3. Broken /\ acked = {}
    BY <2>1, ConstantsAssumption DEF Init, Broken
  <2>4. QED
    BY <2>2, <2>3 DEF SoundInv, FromFile, InOrder, Linked
<1>2. QED
  BY <1>1, SoundStep, PTL DEF Spec

\* The table verifies as long as no line was stored ahead of one it lacked,
\* however often the migration died and was resumed and whatever was appended
\* since; and not any more once one was, unless as the first row of all. This
\* holds of every file, also of one that repeats request ids or has none.
THEOREM MigratedChainVerifies == Spec => []MigrationVerifies
<1>1. SoundInv => MigrationVerifies
  <2>1. SUFFICES ASSUME SoundInv
                 PROVE  MigrationVerifies
    OBVIOUS
  <2>2. Len(rows) \in Nat
    BY <2>1 DEF SoundInv, Inv, TypeOK
  <2>3. ASSUME gap = None, NEW i \in 2 .. Len(rows)
        PROVE  rows[i].prev = rows[i - 1].sha
    <3>1. i \in 1 .. Len(rows) /\ i # 1
      BY <2>2
    <3>2. QED
      BY <2>1, <2>3, <3>1 DEF SoundInv, Linked
  <2>4. ASSUME gap \in Nat \ {0}
        PROVE  ~VerifyOk
    <3>1. gap + 1 \in 2 .. Len(rows) /\ rows[gap + 1].prev # rows[gap].sha
      BY <2>1, <2>2, <2>4 DEF SoundInv, Broken
    <3>2. (gap + 1) - 1 = gap
      BY <2>4
    <3>3. QED
      BY <3>1, <3>2 DEF VerifyOk
  <2>5. QED
    BY <2>3, <2>4 DEF MigrationVerifies, VerifyOk
<1>2. QED
  BY <1>1, ChainAlways, PTL

-----------------------------------------------------------------------------
(* What the checklist shows *)

\* Rows that verify before the backend is switched are lines that follow each
\* other in the file.
Consecutive ==
  ~switched /\ VerifyOk =>
    \A i \in 1 .. Len(rows) : rows[i].sha = rows[1].sha + (i - 1)

\* Every step keeps rows that verify consecutive.
LEMMA ConsecutiveStep ==
  ASSUME SoundInv, SoundInv', Consecutive, [Next]_vars
  PROVE  Consecutive'
<1>1. SUFFICES ASSUME ~switched', VerifyOk'
               PROVE  \A i \in 1 .. Len(rows') : rows'[i].sha = rows'[1].sha + (i - 1)
  BY DEF Consecutive
<1>2. ~switched /\ source' = source
  BY <1>1, RowSteps
<1>3. /\ Len(rows) \in Nat /\ Len(rows') \in Nat /\ Len(rows) =< Len(rows')
      /\ \A i \in 1 .. Len(rows) : rows'[i] = rows[i]
  BY RowsGrow DEF SoundInv
<1>4. VerifyOk
  <2>1. SUFFICES ASSUME NEW i \in 2 .. Len(rows)
                 PROVE  rows[i].prev = rows[i - 1].sha
    BY DEF VerifyOk
  <2>2. i \in 2 .. Len(rows') /\ i \in 1 .. Len(rows) /\ i - 1 \in 1 .. Len(rows)
    BY <1>3
  <2>3. rows'[i].prev = rows'[i - 1].sha
    BY <1>1, <2>2 DEF VerifyOk
  <2>4. QED
    BY <1>3, <2>2, <2>3
<1>5. \A i \in 1 .. Len(rows) : rows[i].sha = rows[1].sha + (i - 1)
  BY <1>2, <1>4 DEF Consecutive
<1>6. CASE rows' = rows
  BY <1>5, <1>6
<1>7. CASE line \in 1 .. Len(source) /\ ImportRow
  <2>1. /\ SourceRow \in Row /\ FromLine(SourceRow) /\ rows' = Append(rows, SourceRow)
    BY <1>2, <1>7, ImportKeeps DEF SoundInv
  <2>2. /\ Len(rows') = Len(rows) + 1 /\ rows'[Len(rows) + 1] = SourceRow
    BY <2>1, RowAppended DEF SoundInv, Inv
  <2>3. SourceRow.sha = line /\ SourceRow.prev = line - 1 /\ line \in Nat
    BY <1>7 DEF SourceRow
  <2>4. CASE Len(rows) = 0
    BY <2>2, <2>3, <2>4
  <2>5. CASE Len(rows) # 0
    <3>1. /\ Len(rows) + 1 \in 2 .. Len(rows') /\ (Len(rows) + 1) - 1 = Len(rows)
          /\ Len(rows) \in 1 .. Len(rows) /\ 1 \in 1 .. Len(rows)
      BY <1>3, <2>2, <2>5
    <3>2. rows'[Len(rows) + 1].prev = rows'[(Len(rows) + 1) - 1].sha
      BY <1>1, <3>1 DEF VerifyOk
    <3>3. line - 1 = rows[Len(rows)].sha
      BY <1>3, <2>2, <2>3, <3>1, <3>2
    <3>4. rows[1].sha \in Nat
      <4>1. FromLine(rows[1])
        BY <1>2, <3>1 DEF SoundInv, FromFile
      <4>2. QED
        BY <4>1 DEF FromLine
    <3>5. line = rows[1].sha + Len(rows)
      <4>1. rows[Len(rows)].sha = rows[1].sha + (Len(rows) - 1)
        BY <1>5, <3>1
      <4>2. line - 1 = rows[1].sha + (Len(rows) - 1)
        BY <3>3, <4>1
      <4>3. Len(rows) \in Nat /\ line \in Nat
        BY <1>3, <2>3
      <4>4. QED
        BY <3>4, <4>2, <4>3
    <3>6. \A i \in 1 .. Len(rows') : i \in 1 .. Len(rows) \/ i = Len(rows) + 1
      BY <1>3, <2>2
    <3>7. rows'[1] = rows[1]
      BY <1>3, <3>1
    <3>8. ASSUME NEW i \in 1 .. Len(rows')
          PROVE  rows'[i].sha = rows'[1].sha + (i - 1)
      <4>1. CASE i \in 1 .. Len(rows)
        BY <1>3, <1>5, <3>7, <4>1
      <4>2. CASE i = Len(rows) + 1
        BY <1>3, <2>2, <2>3, <3>4, <3>5, <3>7, <4>2
      <4>3. QED
        BY <3>6, <4>1, <4>2
    <3>9. QED
      BY <3>8
  <2>6. QED
    BY <2>4, <2>5
<1>8. ASSUME NEW w \in Workers, Commit(w)
      PROVE  FALSE
  BY <1>2, <1>8 DEF Commit, SoundInv, Inv, Serial
<1>9. QED
  BY <1>6, <1>7, <1>8, RowSteps

\* A table that verifies and has as many rows as the file has lines is the
\* file, whichever lines failed, came late or were taken for duplicates.
THEOREM ChecklistIsSound == Spec => []ChecklistSound
<1>1. Init => Consecutive
  <2>1. SUFFICES ASSUME Init
                 PROVE  Consecutive
    OBVIOUS
  <2>2. Len(rows) = 0
    BY <2>1 DEF Init
  <2>3. QED
    BY <2>2 DEF Consecutive
<1>2. SoundInv /\ SoundInv' /\ Consecutive /\ [Next]_vars => Consecutive'
  BY ConsecutiveStep
<1>3. SoundInv /\ Consecutive => ChecklistSound
  <2>1. SUFFICES ASSUME SoundInv, Consecutive, ~switched, VerifyOk,
                        Len(rows) = Len(source), NEW k \in 1 .. Len(source)
                 PROVE  rows[k].sha = k /\ rows[k].prev = k - 1 /\ rows[k].req = source[k]
    BY DEF ChecklistSound
  <2>2. \A i \in 1 .. Len(rows) : rows[i].sha = rows[1].sha + (i - 1) /\ FromLine(rows[i])
    BY <2>1 DEF Consecutive, SoundInv, FromFile
  <2>3. Len(rows) \in Nat /\ 1 \in 1 .. Len(rows) /\ Len(rows) \in 1 .. Len(rows)
    BY <2>1 DEF SoundInv, Inv, TypeOK
  <2>4. /\ rows[1].sha \in 1 .. Len(rows)
        /\ rows[Len(rows)].sha \in 1 .. Len(rows)
        /\ rows[Len(rows)].sha = rows[1].sha + (Len(rows) - 1)
    BY <2>1, <2>2, <2>3 DEF FromLine
  <2>5. rows[1].sha = 1
    BY <2>3, <2>4
  <2>6. rows[k].sha = k
    BY <2>1, <2>2, <2>3, <2>5
  <2>7. QED
    BY <2>1, <2>2, <2>6 DEF FromLine
<1>4. QED
  BY <1>1, <1>2, <1>3, ChainAlways, PTL DEF Spec

-----------------------------------------------------------------------------
(* Every line of the file is stored, or an entry under its request id *)

\* The running migration has stored the lines behind it, or found them, unless
\* it has counted a failure.
CopyInv ==
  /\ ~failed => \A k \in 1 .. (line - 1) : Taken(source[k], k)
  /\ MigrationComplete

\* Every step of append and migration keeps CopyInv.
LEMMA CopyStep ==
  ASSUME Inv, CopyInv, [Next]_vars
  PROVE  CopyInv'
<1>0. /\ TypeOK /\ Len(source) \in Nat /\ line \in Nat
      /\ line \in 0 .. (Len(source) + 1)
  BY SourceTyped DEF Inv, TypeOK
<1>a. source' = source
  BY RowSteps
<1> DEFINE T(k) == Taken(source[k], k)
           U(k) == Taken(source[k], k)'
<1>1. \A k : T(k) => U(k)
  <2>1. /\ Len(rows) \in Nat /\ Len(rows') \in Nat /\ Len(rows) =< Len(rows')
        /\ \A i \in 1 .. Len(rows) : rows'[i] = rows[i]
    BY RowsGrow
  <2>2. QED
    BY <1>a, <2>1 DEF Taken
<1>2. ASSUME NEW k \in 1 .. Len(source), k = line, ImportRow
      PROVE  U(k)
  <2>1. /\ Len(rows) \in Nat /\ Len(rows') = Len(rows) + 1
        /\ rows'[Len(rows) + 1] = SourceRow
    BY <1>0, <1>2, <1>a, ImportKeeps, RowAppended
  <2>2. SourceRow.sha = k /\ SourceRow.req = source[k]
    BY <1>2 DEF SourceRow
  <2>3. Len(rows) + 1 \in 1 .. Len(rows')
    BY <2>1
  <2>4. QED
    BY <1>a, <2>1, <2>2, <2>3 DEF Taken
<1>3. /\ ~failed => \A k \in 1 .. (line - 1) : T(k)
      /\ report = "ok" => \A k \in 1 .. Len(source) : T(k)
  BY DEF CopyInv, MigrationComplete
<1>4. SUFFICES /\ ~failed' => \A k \in 1 .. (line' - 1) : U(k)
               /\ report' = "ok" => \A k \in 1 .. Len(source) : U(k)
  BY <1>a DEF CopyInv, MigrationComplete
<1> HIDE DEF T, U
<1>5. ASSUME UNCHANGED <<line, failed, report>>
      PROVE  /\ ~failed' => \A k \in 1 .. (line' - 1) : U(k)
             /\ report' = "ok" => \A k \in 1 .. Len(source) : U(k)
  BY <1>1, <1>3, <1>5
<1>6. CASE \E w \in Workers : Worker(w)
  <2>1. UNCHANGED <<line, failed, report>>
    BY <1>6 DEF Worker, Lock, Read, Insert, Conflict, Commit, Return, Drop,
                LostAnswer, migration
  <2>2. QED
    BY <1>5, <2>1
<1>7. CASE Start
  <2>1. line' = 1 /\ UNCHANGED report
    BY <1>7 DEF Start
  <2>2. \A k \in 1 .. (line' - 1) : FALSE
    BY <2>1
  <2>3. QED
    BY <1>1, <1>3, <2>1, <2>2
<1>8. CASE ImportLine \/ Duplicate
  <2>1. /\ line \in 1 .. Len(source) /\ line' = line + 1 /\ UNCHANGED <<failed, report>>
        /\ ImportRow \/ T(line)
    BY <1>8 DEF ImportLine, Duplicate, T
  <2>2. \A k \in 1 .. Len(source) : k = line => U(k)
    BY <1>1, <1>2, <2>1
  <2>3. \A k \in 1 .. (line' - 1) : k = line \/ k \in 1 .. (line - 1)
    BY <1>0, <2>1
  <2>4. QED
    BY <1>1, <1>3, <2>1, <2>2, <2>3
<1>9. CASE LineFails
  BY <1>1, <1>3, <1>9 DEF LineFails
<1>10. CASE Killed
  <2>1. line' = 0 /\ report' = "failed"
    BY <1>10 DEF Killed
  <2>2. \A k \in 1 .. (line' - 1) : FALSE
    BY <2>1
  <2>3. QED
    BY <2>1, <2>2
<1>11. CASE Exit
  <2>1. /\ line = Len(source) + 1 /\ line' = 0
        /\ report' = IF failed THEN "failed" ELSE "ok"
    BY <1>11 DEF Exit
  <2>2. \A k \in 1 .. (line' - 1) : FALSE
    BY <2>1
  <2>3. line - 1 = Len(source)
    BY <1>0, <2>1
  <2>4. report' = "ok" => \A k \in 1 .. Len(source) : T(k)
    BY <1>3, <2>1, <2>3
  <2>5. QED
    BY <1>1, <2>2, <2>4
<1>12. CASE Switch
  BY <1>5, <1>12 DEF Switch
<1>13. CASE UNCHANGED vars
  BY <1>5, <1>13 DEF vars, migration
<1>14. QED
  BY <1>6, <1>7, <1>8, <1>9, <1>10, <1>11, <1>12, <1>13 DEF Next, Migrate

\* veritas-migrate that exits with 0 has stored every line of the file or
\* another entry under its request id, however often it died, was resumed or
\* met duplicates, and no later append takes one away.
THEOREM MigrationIsComplete == Spec => []MigrationComplete
<1>1. Init => CopyInv
  <2>1. SUFFICES ASSUME Init
                 PROVE  CopyInv
    OBVIOUS
  <2>2. line = 0 /\ report = "none"
    BY <2>1 DEF Init
  <2> QED
    BY <2>2 DEF CopyInv, MigrationComplete
<1>2. Inv /\ CopyInv /\ [Next]_vars => CopyInv'
  BY CopyStep
<1>3. CopyInv => MigrationComplete
  BY DEF CopyInv
<1> QED
  BY <1>1, <1>2, <1>3, Always, PTL DEF Spec

-----------------------------------------------------------------------------
(* The backend implements the abstract chain *)

Link(r) == [sha |-> r.sha, prev |-> r.prev]

\* A function whose domain is 1 .. n is a sequence of n elements.
LEMMA SeqOfFunction ==
  ASSUME NEW T, NEW k \in Nat, NEW g \in [1 .. k -> T]
  PROVE  g \in Seq(T) /\ Len(g) = k
<1>1. g \in Seq(T)
  BY SeqDef
<1>2. QED
  BY <1>1, LenProperties

\* The mapped chain is a sequence of the rows' digests.
LEMMA ChainIs ==
  ASSUME TypeOK, gap = None
  PROVE  /\ Chain \in Seq([sha : Digests, prev : {0} \union Digests])
         /\ Len(Chain) = Len(rows)
         /\ Chain = [i \in 1 .. Len(rows) |-> Link(rows[i])]
         /\ \A i \in 1 .. Len(rows) : Chain[i].sha = rows[i].sha
<1>1. Len(rows) \in Nat /\ \A i \in 1 .. Len(rows) : rows[i] \in Row
  BY DEF TypeOK
<1>2. \A r \in Row : Link(r) \in [sha : Digests, prev : {0} \union Digests]
  BY DEF Row, Link
<1>3. Chain = [i \in 1 .. Len(rows) |-> Link(rows[i])]
  BY DEF Chain, Link
<1>4. Chain \in [1 .. Len(rows) -> [sha : Digests, prev : {0} \union Digests]]
  BY <1>1, <1>2, <1>3
<1>5. /\ Chain \in Seq([sha : Digests, prev : {0} \union Digests])
      /\ Len(Chain) = Len(rows)
  BY <1>1, <1>4, SeqOfFunction
<1>6. QED
  BY <1>3, <1>5 DEF Link

\* A row that is committed extends the mapped chain.
LEMMA ChainGrows ==
  ASSUME TypeOK, TypeOK', gap = None, gap' = None, NEW r \in Row,
         rows' = Append(rows, r)
  PROVE  Chain' = Append(Chain, Link(r))
<1>1. /\ Len(rows) \in Nat /\ Len(rows') = Len(rows) + 1
      /\ \A i \in 1 .. Len(rows) : rows'[i] = rows[i]
      /\ rows'[Len(rows) + 1] = r
  BY RowAppended
<1>2. /\ Len(Chain) = Len(rows) /\ Chain = [i \in 1 .. Len(rows) |-> Link(rows[i])]
      /\ Chain \in Seq([sha : Digests, prev : {0} \union Digests])
  BY ChainIs
<1>3. Chain' = [i \in 1 .. (Len(rows) + 1) |-> Link(rows'[i])]
  BY <1>1 DEF Chain, Link
<1>4. Link(r) \in [sha : Digests, prev : {0} \union Digests]
  BY DEF Link, Row
<1>5. Append(Chain, Link(r)) =
        [i \in 1 .. (Len(rows) + 1) |-> IF i = Len(rows) + 1 THEN Link(r) ELSE Chain[i]]
  <2> HIDE DEF Link
  <2>1. QED
    BY <1>1, <1>2, <1>4
<1>6. \A i \in 1 .. (Len(rows) + 1) :
        Link(rows'[i]) = IF i = Len(rows) + 1 THEN Link(r) ELSE Chain[i]
  BY <1>1, <1>2
<1>7. QED
  BY <1>3, <1>5, <1>6

\* A committed row that names last_hash and has a fresh digest is an abstract
\* append.
LEMMA AbstractAppend ==
  ASSUME TypeOK, TypeOK', gap = None, gap' = None, HeadCurrent,
         NEW r \in Row, rows' = Append(rows, r), r.prev = state.hash,
         \A i \in 1 .. Len(rows) : rows[i].sha # r.sha,
         UNCHANGED acked
  PROVE  Abstract!AppendEntry
<1>1. Chain' = Append(Chain, [sha |-> r.sha, prev |-> r.prev])
  BY ChainGrows DEF Link
<1>2. Abstract!Head0 = r.prev
  <2>1. CASE rows = <<>>
    <3>1. Chain = <<>> /\ state.hash = 0
      BY <2>1, ChainIs, HeadHash
    <3>2. QED
      BY <3>1 DEF Abstract!Head0
  <2>2. CASE rows # <<>>
    <3>1. Len(rows) # 0 /\ Len(rows) \in 1 .. Len(rows)
      BY <2>2 DEF TypeOK
    <3>2. Chain # <<>> /\ Chain[Len(Chain)].sha = state.hash
      BY <2>2, <3>1, ChainIs, HeadHash
    <3>3. QED
      BY <3>2 DEF Abstract!Head0
  <2>3. QED
    BY <2>1, <2>2
<1>3. r.sha \in Digests /\ \A i \in 1 .. Len(Chain) : Chain[i].sha # r.sha
  BY ChainIs DEF Row
<1>4. QED
  BY <1>1, <1>2, <1>3 DEF Abstract!AppendEntry, Acked

\* Every step is an abstract append, an abstract acknowledgement, or neither.
LEMMA AbstractStep ==
  ASSUME SoundInv, SoundInv', gap = None, gap' = None, [Next]_vars
  PROVE  [Abstract!Next]_<<Chain, Acked>>
<1>0. /\ TypeOK /\ TypeOK' /\ Inv /\ HeadCurrent /\ Numbered
      /\ \A w \in Workers : Current(w)
  BY DEF SoundInv, Inv
<1>a. /\ Len(source) \in Nat /\ MaxLines \in Nat /\ Len(source) =< MaxLines
      /\ \A i \in 1 .. Len(rows) : rows[i].id \in Nat
  <2>1. \A i \in 1 .. Len(rows) : rows[i] \in Row
    BY <1>0 DEF TypeOK
  <2>2. \A x \in Row : x.id \in Nat
    BY ConstantsAssumption DEF Row, Ids
  <2>3. QED
    BY <1>0, <2>1, <2>2, SourceTyped
<1>1. ASSUME NEW w \in Workers, Commit(w)
      PROVE  Abstract!AppendEntry
  <2>1. /\ pc[w] = "commit" /\ rows' = Append(rows, tx[w].row) /\ acked' = acked
    BY <1>1 DEF Commit
  <2>2. /\ tx[w].row \in Row /\ tx[w].row.prev = state.hash
        /\ tx[w].row.sha = MaxLines + seq
        /\ \A i \in 1 .. Len(rows) : rows[i].id < seq
    BY <1>0, <2>1 DEF Current
  <2>3. seq \in Nat
    BY <1>0, ConstantsAssumption DEF TypeOK
  <2>4. ASSUME NEW i \in 1 .. Len(rows)
        PROVE  rows[i].sha # MaxLines + seq
    <3>1. CASE rows[i].sha = MaxLines + rows[i].id
      BY <1>a, <2>2, <2>3, <3>1
    <3>2. CASE rows[i].sha \in 1 .. Len(source)
      <4>1. rows[i].id \in Nat /\ rows[i].id < seq
        BY <1>a, <2>2
      <4>2. QED
        BY <1>a, <2>3, <3>2, <4>1
    <3>3. QED
      BY <1>0, <3>1, <3>2 DEF Numbered, FromLine
  <2>5. QED
    BY <1>0, <2>1, <2>2, <2>4, AbstractAppend
<1>2. ASSUME line \in 1 .. Len(source), ImportRow, UNCHANGED <<acked, source>>
      PROVE  Abstract!AppendEntry
  <2>1. SourceRow \in Row /\ rows' = Append(rows, SourceRow)
    BY <1>0, <1>2, ImportKeeps
  <2>2. \A k \in 1 .. (line - 1) : InTable(k)
    <3>1. Len(rows) # None
      BY <1>0, ConstantsAssumption DEF TypeOK
    <3>2. QED
      BY <1>2, <3>1 DEF ImportRow
  <2>3. state.hash = line - 1 /\ line = Len(rows) + 1
    BY <1>2, <2>2, NextLine DEF ImportRow
  <2>4. SourceRow.prev = state.hash /\ SourceRow.sha = line
    BY <2>3 DEF SourceRow
  <2>5. ASSUME NEW i \in 1 .. Len(rows)
        PROVE  rows[i].sha # line
    <3>1. Len(rows) \in Nat /\ ~switched
      BY <1>0, <1>2 DEF TypeOK, Inv, Serial
    <3>2. rows[i].sha = i
      BY <3>1, RowIsLine
    <3>3. QED
      BY <2>3, <3>1, <3>2
  <2>6. QED
    BY <1>0, <1>2, <2>1, <2>4, <2>5, AbstractAppend
<1>3. ASSUME NEW w \in Workers, Return(w)
      PROVE  Abstract!Acknowledge
  <2>1. pc[w] = "return" /\ acked' = acked \union {tx[w].row.sha} /\ rows' = rows
    BY <1>3 DEF Return
  <2>2. PICK i \in 1 .. Len(rows) : rows[i].sha = tx[w].row.sha
    BY <1>0, <2>1 DEF Current
  <2>3. i \in 1 .. Len(Chain) /\ Chain[i].sha = tx[w].row.sha
    BY <1>0, <2>2, ChainIs
  <2>4. Chain' = Chain
    BY <2>1 DEF Chain
  <2>5. QED
    BY <2>1, <2>3, <2>4 DEF Abstract!Acknowledge, Acked
<1>4. ASSUME UNCHANGED <<rows, acked>>
      PROVE  UNCHANGED <<Chain, Acked>>
  BY <1>4 DEF Chain, Acked
<1>5. ASSUME NEW w \in Workers, Worker(w), ~Commit(w), ~Return(w)
      PROVE  UNCHANGED <<rows, acked>>
  BY <1>5 DEF Worker, Lock, Read, Insert, Conflict, Drop, LostAnswer
<1>6. CASE Migrate
  <2>1. acked' = acked
    BY <1>6 DEF Migrate, Start, ImportLine, Duplicate, LineFails, Killed, Exit, Switch
  <2>2. \/ rows' = rows
        \/ line \in 1 .. Len(source) /\ ImportRow /\ source' = source
    BY <1>6 DEF Migrate, Start, ImportLine, Duplicate, LineFails, Killed, Exit, Switch
  <2>3. QED
    BY <1>2, <1>4, <2>1, <2>2 DEF Abstract!Next
<1>7. CASE UNCHANGED vars
  BY <1>4, <1>7 DEF vars
<1>8. CASE \E w \in Workers : Worker(w)
  BY <1>1, <1>3, <1>4, <1>5, <1>8 DEF Abstract!Next
<1>9. QED
  BY <1>6, <1>7, <1>8 DEF Next

\* After a line was stored ahead of a missing one the mapped chain does not
\* change any more. Nothing was acknowledged before.
LEMMA FrozenChain ==
  ASSUME SoundInv, [Next]_vars, gap' # None
  PROVE  UNCHANGED <<Chain, Acked>>
<1>0. /\ Inv /\ Broken /\ gap \in Nat \union {None} /\ None \notin Nat
  BY ConstantsAssumption DEF SoundInv, Inv, TypeOK
<1>1. /\ Len(rows) \in Nat /\ Len(rows) =< Len(rows')
      /\ \A i \in 1 .. Len(rows) : rows'[i] = rows[i]
  BY <1>0, RowsGrow
<1>2. CASE gap = None
  <2>1. line \in 1 .. Len(source) /\ ImportRow
    BY <1>2, RowSteps
  <2>2. gap' = Len(rows) /\ ~switched /\ acked = {}
    BY <1>0, <1>2, <2>1 DEF ImportRow, SoundInv, Inv, Serial
  <2>3. Chain' = Chain
    BY <1>1, <1>2, <2>2 DEF Chain
  <2>4. QED
    BY <1>2, <2>2, <2>3 DEF Acked
<1>3. CASE gap # None
  <2>1. gap' = gap /\ gap \in Nat /\ gap < Len(rows)
    <3>1. gap' = gap
      BY <1>3, RowSteps DEF ImportRow
    <3>2. QED
      BY <1>0, <1>3, <3>1 DEF Broken
  <2>2. \A i \in 1 .. gap : rows'[i] = rows[i]
    BY <1>1, <2>1
  <2>3. Chain' = Chain
    BY <1>3, <2>1, <2>2 DEF Chain
  <2>4. QED
    BY <1>3, <2>1, <2>3 DEF Acked
<1>4. QED
  BY <1>2, <1>3

\* The PostgreSQL backend implements the same abstract chain as the file-backed
\* ledger, until a line is stored ahead of a missing one: interleaved
\* transactions, dropped connections, lost answers and resumed migrations never
\* show in it.
THEOREM BackendImplementsHashChain == Spec => ImplementsHashChain
<1>1. Init => Abstract!Init
  <2>1. SUFFICES ASSUME Init
                 PROVE  Abstract!Init
    OBVIOUS
  <2>2. TypeOK /\ gap = None /\ rows = <<>> /\ acked = {}
    BY <2>1, InvInit DEF Inv, Init
  <2>3. QED
    BY <2>2, ChainIs DEF Abstract!Init, Acked
<1>2. SoundInv /\ SoundInv' /\ [Next]_vars => [Abstract!Next]_<<Chain, Acked>>
  <2>1. SUFFICES ASSUME SoundInv, SoundInv', [Next]_vars
                 PROVE  [Abstract!Next]_<<Chain, Acked>>
    OBVIOUS
  <2>2. CASE gap' = None
    <3>1. gap = None
      <4>1. Len(rows) # None
        BY <2>1, ConstantsAssumption DEF SoundInv, Inv, TypeOK
      <4>2. QED
        BY <2>1, <2>2, <4>1, RowSteps DEF ImportRow
    <3>2. QED
      BY <2>1, <2>2, <3>1, AbstractStep
  <2>3. CASE gap' # None
    BY <2>1, <2>3, FrozenChain
  <2>4. QED
    BY <2>2, <2>3
<1>3. QED
  BY <1>1, <1>2, ChainAlways, PTL DEF Spec, ImplementsHashChain, Abstract!Spec
=============================================================================
