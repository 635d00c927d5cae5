----------------------- MODULE GovernanceStoreProofs ------------------------
(***************************************************************************)
(* Theorems about the governance policy store for any number of workers,   *)
(* requests and faults, any rules and versions, and both repositories.     *)
(***************************************************************************)
EXTENDS GovernanceStore, SequenceTheorems, TLAPS

\* Steps of a transaction after its SELECT ... FOR UPDATE has returned.
Locking == {"insert", "commit"}

\* What update_policy, rollback_policy and save_policy hand to the repository.
Formed(r) ==
  /\ r.op = "save" <=> r.previous = None
  /\ r.previous \in past \union {None}
  /\ r.op # "save" => FourEyes(r.approvals)
  /\ r.op = "update" => RetentionKept(r.previous, r.new)

\* A transaction that has locked a row holds the newest one, and a caller that
\* named a previous policy has locked a row with that policy.
HoldsRow(w) ==
  /\ req[w].locked # 0 => req[w].locked = Len(rows) /\ rowlock = Len(rows)
  /\ req[w].previous # None =>
       req[w].locked # 0 /\ rows[req[w].locked].policy = req[w].previous
  /\ pc[w] = "commit" /\ req[w].locked = 0 => Len(rows) = 0

WorkerOK(w) ==
  /\ pc[w] # "idle" => req[w] \in Request /\ Formed(req[w])
  /\ pc[w] \in {"save", "append"} => backend = "file"
  /\ pc[w] \in {"select", "lock", "insert", "commit"} => backend = "postgresql"
  /\ pc[w] \in {"append", "notify"} => req[w].new \in past
  /\ pc[w] \in {"select", "lock"} => req[w].locked = 0 /\ req[w].candidate =< Len(rows)
  /\ pc[w] \in Locking => HoldsRow(w)

\* One transaction at its COMMIT, and one that holds a row.
Exclusive ==
  \A v, w \in Workers :
    /\ pc[v] = "commit" /\ pc[w] = "commit" => v = w
    /\ pc[v] \in Locking /\ pc[w] \in Locking
         /\ req[v].locked # 0 /\ req[w].locked # 0 => v = w

Remembered ==
  /\ Default \in past
  /\ file \in past \union {None}
  /\ \A i \in 1 .. Len(rows) : rows[i].policy \in past
  /\ backend = "file" => rows = <<>>

Inv ==
  /\ TypeOK
  /\ \A w \in Workers : WorkerOK(w)
  /\ Exclusive
  /\ Remembered
  /\ NewestCurrent
  /\ AuditChain
  /\ HistoryTruthful
  /\ TwoReviewers

-----------------------------------------------------------------------------
(* Policies *)

\* A patch applied to a policy gives a policy.
LEMMA MergeType ==
  ASSUME NEW p \in Policies, NEW patch \in Patches
  PROVE  Merge(p, patch) \in Policies
<1>1. patch \in Patch /\ None \notin Rules /\ None \notin Version /\ None \notin BOOLEAN
  BY ConstantsAssumption
<1>2. Set(patch.rules, p.rules) \in Rules
  BY <1>1 DEF Patch, Policies, Set
<1>3. Set(patch.retention, p.retention) \in Version
  BY <1>1 DEF Patch, Policies, Set
<1>4. Set(patch.enforced, p.enforced) \in BOOLEAN
  BY <1>1 DEF Patch, Policies, Set
<1>5. QED
  BY <1>2, <1>3, <1>4 DEF Merge, Policies

\* The row flagged current is the newest.
LEMMA CurrentIsNewest ==
  ASSUME TypeOK, NewestCurrent
  PROVE  CurrentRow = Len(rows)
<1>1. Len(rows) \in Nat
  BY DEF TypeOK
<1>2. CASE Len(rows) = 0
  BY <1>1, <1>2 DEF CurrentRow
<1>3. CASE Len(rows) # 0
  <2>1. Len(rows) \in 1 .. Len(rows) /\ rows[Len(rows)].current
    BY <1>1, <1>3 DEF NewestCurrent
  <2>2. \A i \in 1 .. Len(rows) : rows[i].current => i = Len(rows)
    BY DEF NewestCurrent
  <2>3. QED
    BY <2>1, <2>2 DEF CurrentRow
<1>4. QED
  BY <1>2, <1>3

\* What is current has been stored, or is the default.
LEMMA CurrentRemembered ==
  ASSUME TypeOK, NewestCurrent, Remembered
  PROVE  Current \in past /\ Current \in Policies
<1>1. Len(rows) \in Nat /\ past \subseteq Policies
  BY DEF TypeOK
<1>2. CurrentRow # 0 => CurrentRow \in 1 .. Len(rows)
  BY <1>1, CurrentIsNewest
<1>3. Current \in past
  BY <1>2 DEF Current, Remembered
<1>4. QED
  BY <1>1, <1>3

-----------------------------------------------------------------------------
(* Frames *)

\* A step of one worker that leaves the rows alone leaves the others' state
\* of affairs alone, if it takes no lock away from them.
LEMMA OthersKeep ==
  ASSUME Inv, NEW w \in Workers, NEW s, NEW r,
         pc' = [pc EXCEPT ![w] = s], req' = [req EXCEPT ![w] = r],
         backend' = backend, rows' = rows, past \subseteq past',
         \/ rowlock' = rowlock
         \/ \A v \in Workers \ {w} : pc[v] \in Locking => req[v].locked = 0
  PROVE  \A v \in Workers \ {w} : WorkerOK(v)' /\ pc'[v] = pc[v] /\ req'[v] = req[v]
<1>1. TAKE v \in Workers \ {w}
<1>2. pc'[v] = pc[v] /\ req'[v] = req[v]
  BY DEF Inv, TypeOK
<1>3. WorkerOK(v)
  BY DEF Inv
<1>4. pc[v] # "idle" => Formed(req[v])'
  BY <1>2, <1>3 DEF WorkerOK, Formed, RetentionKept, FourEyes
<1>5. pc[v] \in Locking => HoldsRow(v)'
  BY <1>2, <1>3 DEF WorkerOK, HoldsRow
<1>6. WorkerOK(v)'
  BY <1>2, <1>3, <1>4, <1>5 DEF WorkerOK
<1>7. QED
  BY <1>2, <1>6

\* A worker that goes on to a step without a row lock cannot break Exclusive.
LEMMA ExclusiveKeeps ==
  ASSUME Inv, NEW w \in Workers, NEW s, NEW r,
         pc' = [pc EXCEPT ![w] = s], req' = [req EXCEPT ![w] = r], s \notin Locking
  PROVE  Exclusive'
<1>1. \A v \in Workers : pc'[v] \in Locking => v # w /\ pc'[v] = pc[v] /\ req'[v] = req[v]
  BY DEF Inv, TypeOK
<1>2. \A v \in Workers : pc'[v] = "commit" => pc'[v] \in Locking
  BY DEF Locking
<1>3. QED
  BY <1>1, <1>2 DEF Exclusive, Inv

\* Steps that write neither policies nor events.
LEMMA Quiet ==
  ASSUME Inv, UNCHANGED <<backend, file, rows, events, past>>,
         cached' \in past \union {None}
  PROVE  Remembered' /\ NewestCurrent' /\ AuditChain' /\ HistoryTruthful' /\ TwoReviewers'
<1>1. Remembered'
  BY DEF Inv, Remembered
<1>2. NewestCurrent'
  BY DEF Inv, NewestCurrent
<1>3. AuditChain'
  BY DEF Inv, AuditChain
<1>4. HistoryTruthful'
  BY DEF Inv, HistoryTruthful
<1>5. TwoReviewers'
  BY DEF Inv, TwoReviewers
<1>6. QED
  BY <1>1, <1>2, <1>3, <1>4, <1>5

\* The end of a request: the worker is idle again.
LEMMA Ends ==
  ASSUME Inv, NEW w \in Workers, End(w), backend' = backend, rows' = rows,
         past \subseteq past',
         \/ rowlock' = rowlock
         \/ \A v \in Workers \ {w} : pc[v] \in Locking => req[v].locked = 0
  PROVE  /\ \A v \in Workers : WorkerOK(v)'
         /\ Exclusive'
         /\ pc' \in [Workers -> Steps] /\ req' \in [Workers -> Request \union {None}]
<1>1. pc' = [pc EXCEPT ![w] = "idle"] /\ req' = [req EXCEPT ![w] = None]
  BY DEF End, Goto
<1>2. \A v \in Workers \ {w} : WorkerOK(v)'
  BY <1>1, OthersKeep
<1>3. pc'[w] = "idle"
  BY <1>1 DEF Inv, TypeOK
<1>4. WorkerOK(w)'
  BY <1>3 DEF WorkerOK, Locking
<1>5. Exclusive'
  <2>1. "idle" \notin Locking
    BY DEF Locking
  <2>2. QED
    BY <1>1, <2>1, ExclusiveKeeps
<1>6. pc' \in [Workers -> Steps] /\ req' \in [Workers -> Request \union {None}]
  BY <1>1 DEF Inv, TypeOK, Steps
<1>7. QED
  BY <1>2, <1>4, <1>5, <1>6

\* A transaction that gives up its lock takes none from the others.
LEMMA ReleaseKeeps ==
  ASSUME Inv, NEW w \in Workers, Release(w), pc[w] \in {"select", "lock", "insert", "commit"}
  PROVE  /\ rowlock' \in Nat
         /\ \/ rowlock' = rowlock
            \/ \A v \in Workers \ {w} : pc[v] \in Locking => req[v].locked = 0
<1>1. rowlock \in Nat /\ rowlock' \in Nat
  BY DEF Inv, TypeOK, Release
<1>2. CASE rowlock # req[w].locked
  BY <1>1, <1>2 DEF Release
<1>3. CASE rowlock = req[w].locked /\ req[w].locked = 0
  BY <1>1, <1>3 DEF Release
<1>4. CASE req[w].locked # 0
  <2>1. WorkerOK(w)
    BY DEF Inv
  <2>2. pc[w] \in Locking
    BY <1>4, <2>1 DEF WorkerOK, Locking
  <2>3. \A v \in Workers \ {w} : pc[v] \in Locking => req[v].locked = 0
    BY <1>4, <2>2 DEF Inv, Exclusive
  <2>4. QED
    BY <1>1, <2>3
<1>5. QED
  BY <1>1, <1>2, <1>3, <1>4

-----------------------------------------------------------------------------
(* The steps of a request *)

\* A request that the guards of the API let pass reaches the repository.
LEMMA StartKeeps ==
  ASSUME Inv, NEW w \in Workers, NEW op \in Ops, NEW type \in EventTypes,
         NEW p \in past \union {None},
         NEW new \in Policies, NEW a \in Approvals,
         Start(w, op, type, p, new, a), op = "save" <=> p = None,
         op # "save" => FourEyes(a), op = "update" => RetentionKept(p, new),
         UNCHANGED <<backend, file, rows, events, rowlock, cached, past>>,
         ops' \in Nat, faults' \in Nat
  PROVE  Inv'
<1>0. TypeOK
  BY DEF Inv
<1> DEFINE r == [op |-> op, type |-> type, previous |-> p, new |-> new, approvals |-> a,
                 candidate |-> 0, locked |-> 0]
<1>1. pc' = [pc EXCEPT ![w] = FirstStep] /\ req' = [req EXCEPT ![w] = r]
  BY DEF Start, Goto
<1>2. FirstStep \in Steps /\ FirstStep \notin Locking
  BY DEF FirstStep, Steps, Locking
<1>3. \A v \in Workers \ {w} : WorkerOK(v)'
  BY <1>1, OthersKeep
<1>4. Exclusive'
  BY <1>1, <1>2, ExclusiveKeeps
<1>5. r \in Request
  BY <1>0 DEF Request, TypeOK
<1>6. Formed(r)'
  BY DEF Formed
<1>7. pc'[w] = FirstStep /\ req'[w] = r
  BY <1>0, <1>1 DEF TypeOK
<1>8. WorkerOK(w)'
  <2>1. Len(rows) \in Nat
    BY <1>0 DEF TypeOK
  <2>2. backend \in {"file", "postgresql"}
    BY <1>0, ConstantsAssumption DEF TypeOK
  <2>3. req'[w].locked = 0 /\ req'[w].candidate = 0
    BY <1>7
  <2>4. pc'[w] = IF backend = "file" THEN "save" ELSE "select"
    BY <1>7 DEF FirstStep
  <2>5. pc'[w] # "idle" => req'[w] \in Request /\ Formed(req[w])'
    BY <1>5, <1>6, <1>7
  <2>6. QED
    BY <2>1, <2>2, <2>3, <2>4, <2>5 DEF WorkerOK, Locking
<1>9. cached' \in past \union {None}
  BY DEF Inv, HistoryTruthful
<1>10. Remembered' /\ NewestCurrent' /\ AuditChain' /\ HistoryTruthful' /\ TwoReviewers'
  BY <1>9, Quiet
<1>11. TypeOK'
  BY <1>0, <1>1, <1>2, <1>5 DEF TypeOK
<1>12. QED
  BY <1>3, <1>4, <1>8, <1>10, <1>11 DEF Inv

\* A request of a client.
LEMMA BeginKeeps ==
  ASSUME Inv, NEW w \in Workers, Begin(w)
  PROVE  Inv'
<1>0. TypeOK /\ NewestCurrent /\ Remembered
  BY DEF Inv
<1>1. ASSUME NEW p \in Policies, Loaded(p)
      PROVE  p \in past /\ p # None /\ faults' \in Nat
  BY <1>0, <1>1, CurrentRemembered, ConstantsAssumption DEF Loaded, Fault, Remembered, TypeOK
<1>2. ASSUME NEW patch \in Patches, NEW a \in Approvals, NEW l \in Labels,
             Update(w, patch, a, l)
      PROVE  Inv'
  <2>1. PICK p \in Policies :
          /\ Loaded(p) /\ RetentionKept(p, Merge(p, patch))
          /\ Start(w, "update", l, p, Merge(p, patch), a)
    BY <1>2 DEF Update
  <2>2. p \in past /\ p # None /\ faults' \in Nat
    BY <1>1, <2>1
  <2>3. Merge(p, patch) \in Policies
    BY MergeType
  <2>4. ops' \in Nat /\ UNCHANGED <<backend, file, rows, events, rowlock, cached, past>>
        /\ FourEyes(a)
    BY <1>0, <1>2 DEF Update, TypeOK
  <2>5. "update" \in Ops /\ l \in EventTypes
    BY DEF Ops, EventTypes
  <2>6. QED
    BY <2>1, <2>2, <2>3, <2>4, <2>5, StartKeeps
<1>3. ASSUME NEW target \in Targets, NEW a \in Approvals, Rollback(w, target, a)
      PROVE  Inv'
  <2>1. PICK p \in Policies : Loaded(p) /\ Start(w, "rollback", "rollback", p, target, a)
    BY <1>3 DEF Rollback
  <2>2. p \in past /\ p # None /\ faults' \in Nat
    BY <1>1, <2>1
  <2>3. target \in Policies
    BY ConstantsAssumption
  <2>4. ops' \in Nat /\ UNCHANGED <<backend, file, rows, events, rowlock, cached, past>>
        /\ FourEyes(a)
    BY <1>0, <1>3 DEF Rollback, TypeOK
  <2>5. "rollback" \in Ops /\ "rollback" \in EventTypes
    BY DEF Ops, EventTypes
  <2>6. QED
    BY <2>1, <2>2, <2>3, <2>4, <2>5, StartKeeps
<1>4. ASSUME NEW target \in Targets, SavePolicy(w, target)
      PROVE  Inv'
  <2>1. target \in Policies /\ <<>> \in Approvals
    BY ConstantsAssumption
  <2>2. /\ ops' \in Nat /\ faults' \in Nat
        /\ UNCHANGED <<backend, file, rows, events, rowlock, cached, past>>
        /\ Start(w, "save", "save", None, target, <<>>)
    BY <1>0, <1>4 DEF SavePolicy, TypeOK
  <2>3. "save" \in Ops /\ "save" \in EventTypes
    BY DEF Ops, EventTypes
  <2>4. QED
    BY <2>1, <2>2, <2>3, StartKeeps
<1>5. QED
  BY <1>2, <1>3, <1>4 DEF Begin

\* The new event tells of a policy that is stored by now, and names its two
\* reviewers unless it is a save.
LEMMA EventsKeep ==
  ASSUME Inv, NEW w \in Workers, pc[w] # "idle", past \subseteq past',
         backend' = backend, req[w].new \in past', cached' \in past' \union {None},
         Len(events') \in Nat,
         \A i \in 1 .. Len(events') :
           \/ events'[i] = NewEvent(w)
           \/ \E j \in 1 .. Len(events) : events'[i] = events[j]
  PROVE  HistoryTruthful' /\ TwoReviewers'
<1>1. req[w] \in Request /\ Formed(req[w])
  BY DEF Inv, WorkerOK
<1>2. HistoryTruthful'
  <2>1. \A i \in 1 .. Len(events') :
          events'[i].new \in past' /\ events'[i].previous \in past' \union {None}
    BY <1>1 DEF Inv, HistoryTruthful, NewEvent, Formed
  <2>2. QED
    BY <2>1 DEF HistoryTruthful
<1>3. TwoReviewers'
  <2>1. SUFFICES ASSUME RequireFourEyes, NEW i \in 1 .. Len(events'),
                        events'[i].previous # None
                 PROVE  /\ \E a, b \in events'[i].approvers : a # b
                        /\ backend = "postgresql" =>
                             \E a, b \in 1 .. Len(events'[i].records) :
                               /\ events'[i].records[a].reviewer
                                    # events'[i].records[b].reviewer
                               /\ events'[i].records[a].signature
                                    # events'[i].records[b].signature
    BY DEF TwoReviewers
  <2>2. CASE events'[i] = NewEvent(w)
    <3> DEFINE q == req[w].approvals
    <3>1. FourEyes(q)
      BY <1>1, <2>1, <2>2 DEF Formed, NewEvent, q
    <3> HIDE DEF q
    <3>2. /\ Len(q) = 2 /\ q[1].reviewer # "" /\ q[2].reviewer # ""
          /\ q[1].reviewer # q[2].reviewer /\ q[1].signature # q[2].signature
      <4>1. /\ Len(q) = 2 /\ \A k \in 1 .. 2 : q[k].reviewer # ""
            /\ q[1].reviewer # q[2].reviewer /\ q[1].signature # q[2].signature
        BY <2>1, <3>1, Zenon DEF FourEyes
      <4>2. 1 \in 1 .. 2 /\ 2 \in 1 .. 2
        OBVIOUS
      <4>3. QED
        BY <4>1, <4>2
    <3>3. 1 \in 1 .. Len(q) /\ 2 \in 1 .. Len(q)
      <4>1. Len(q) = 2
        BY <3>2
      <4>2. QED
        BY <4>1
    <3>4. q[1].reviewer \in Reviewers(q) /\ q[2].reviewer \in Reviewers(q)
      BY <3>2, <3>3 DEF Reviewers
    <3>5. \E a, b \in events'[i].approvers : a # b
      <4>1. events'[i].approvers = Reviewers(q)
        BY <2>2 DEF NewEvent, q
      <4>2. QED
        BY <3>2, <3>4, <4>1
    <3>6. ASSUME backend = "postgresql"
          PROVE  \E a, b \in 1 .. Len(events'[i].records) :
                   /\ events'[i].records[a].reviewer # events'[i].records[b].reviewer
                   /\ events'[i].records[a].signature # events'[i].records[b].signature
      <4>1. events'[i].records = q
        BY <2>2, <3>6 DEF NewEvent, q
      <4>2. QED
        BY <3>2, <3>3, <4>1
    <3>7. QED
      BY <3>5, <3>6
  <2>3. CASE \E j \in 1 .. Len(events) : events'[i] = events[j]
    <3>1. PICK j \in 1 .. Len(events) : events'[i] = events[j]
      BY <2>3
    <3>2. events[j].previous # None
      BY <2>1, <3>1
    <3>3. QED
      BY <2>1, <3>1, <3>2 DEF Inv, TwoReviewers
  <2>4. QED
    BY <2>2, <2>3
<1>4. QED
  BY <1>2, <1>3

\* The event that a request writes.
LEMMA NewEventType ==
  ASSUME Inv, NEW w \in Workers, pc[w] # "idle"
  PROVE  NewEvent(w) \in Event
<1>1. req[w] \in Request
  BY DEF Inv, WorkerOK
<1>2. /\ req[w].type \in EventTypes /\ req[w].previous \in Policies \union {None}
      /\ req[w].new \in Policies /\ req[w].approvals \in Approvals
  BY <1>1 DEF Request
<1>3. Reviewers(req[w].approvals) \in SUBSET UNION {Reviewers(a) : a \in Approvals}
  BY <1>2
<1>4. (IF backend = "postgresql" THEN req[w].approvals ELSE <<>>) \in Approvals
  BY <1>2, ConstantsAssumption
<1>5. QED
  BY <1>2, <1>3, <1>4 DEF NewEvent, Event

\* Trimming keeps the newest events.
LEMMA TrimKeeps ==
  ASSUME NEW h \in Seq(Event)
  PROVE  /\ Trim(h) \in Seq(Event)
         /\ \A i \in 1 .. Len(Trim(h)) : \E j \in 1 .. Len(h) : Trim(h)[i] = h[j]
<1>1. Len(h) \in Nat /\ HistoryMax \in Nat \ {0}
  BY ConstantsAssumption
<1>2. CASE Len(h) <= HistoryMax
  BY <1>2 DEF Trim
<1>3. CASE ~(Len(h) <= HistoryMax)
  <2> DEFINE m == Len(h) - HistoryMax + 1
  <2>1. m \in 1 .. Len(h) /\ Len(h) \in 1 .. Len(h) /\ Trim(h) = SubSeq(h, m, Len(h))
    BY <1>1, <1>3 DEF Trim
  <2>2. /\ Trim(h) \in Seq(Event)
        /\ Len(Trim(h)) = Len(h) - m + 1
        /\ \A i \in 1 .. Len(h) - m + 1 : Trim(h)[i] = h[m + i - 1]
    BY <1>1, <2>1
  <2>3. \A i \in 1 .. Len(h) - m + 1 : m + i - 1 \in 1 .. Len(h)
    BY <1>1, <2>1
  <2>4. QED
    BY <2>2, <2>3
<1>4. QED
  BY <1>2, <1>3

\* The file repository writes the policy file.
LEMMA FileSaveKeeps ==
  ASSUME Inv, NEW w \in Workers, FileSave(w)
  PROVE  Inv'
<1>0. TypeOK /\ WorkerOK(w)
  BY DEF Inv
<1>1. /\ pc[w] = "save" /\ file' = req[w].new /\ past' = past \union {req[w].new}
      /\ UNCHANGED <<backend, rows, events, rowlock, cached, ops, faults>>
      /\ IF req[w].op = "save" THEN End(w) ELSE Goto(w, "append") /\ UNCHANGED req
  BY DEF FileSave
<1>2. req[w] \in Request /\ req[w].new \in Policies /\ backend = "file"
  BY <1>0, <1>1 DEF WorkerOK, Request
<1>3. Remembered'
  BY <1>1 DEF Inv, Remembered
<1>4. NewestCurrent' /\ AuditChain' /\ TwoReviewers'
  BY <1>1 DEF Inv, NewestCurrent, AuditChain, TwoReviewers
<1>5. HistoryTruthful'
  BY <1>1 DEF Inv, HistoryTruthful
<1>6. /\ \A v \in Workers : WorkerOK(v)'
      /\ Exclusive'
      /\ pc' \in [Workers -> Steps] /\ req' \in [Workers -> Request \union {None}]
  <2>1. CASE req[w].op = "save"
    BY <1>1, <2>1, Ends
  <2>2. CASE req[w].op # "save"
    <3>1. pc' = [pc EXCEPT ![w] = "append"] /\ req' = [req EXCEPT ![w] = req[w]]
      BY <1>0, <1>1, <2>2 DEF Goto, TypeOK
    <3>2. \A v \in Workers \ {w} : WorkerOK(v)'
      BY <1>1, <3>1, OthersKeep
    <3>3. pc'[w] = "append" /\ req'[w] = req[w]
      BY <1>0, <3>1 DEF TypeOK
    <3>4. Formed(req[w])'
      BY <1>0, <1>1, <3>3 DEF WorkerOK, Formed, FourEyes, RetentionKept
    <3>5. WorkerOK(w)'
      BY <1>1, <1>2, <3>3, <3>4 DEF WorkerOK, Locking
    <3>6. "append" \notin Locking
      BY DEF Locking
    <3>7. Exclusive'
      BY <3>1, <3>6, ExclusiveKeeps
    <3>8. pc' \in [Workers -> Steps] /\ req' \in [Workers -> Request \union {None}]
      BY <1>0, <1>1, <2>2, <3>1 DEF TypeOK, Steps
    <3>9. QED
      BY <3>2, <3>5, <3>7, <3>8
  <2>3. QED
    BY <2>1, <2>2
<1>7. TypeOK'
  BY <1>0, <1>1, <1>2, <1>6 DEF TypeOK
<1>8. QED
  BY <1>3, <1>4, <1>5, <1>6, <1>7 DEF Inv

\* A worker that goes on with its request as it is.
LEMMA MovesOn ==
  ASSUME Inv, NEW w \in Workers, NEW s \in Steps, Goto(w, s), UNCHANGED <<req, rowlock>>,
         backend' = backend, rows' = rows, past' = past, pc[w] # "idle",
         s \notin Locking \union {"save", "append", "select", "lock"},
         s = "notify" => req[w].new \in past
  PROVE  /\ \A v \in Workers : WorkerOK(v)'
         /\ Exclusive'
         /\ pc' \in [Workers -> Steps] /\ req' \in [Workers -> Request \union {None}]
<1>0. TypeOK /\ WorkerOK(w)
  BY DEF Inv
<1>1. pc' = [pc EXCEPT ![w] = s] /\ req' = [req EXCEPT ![w] = req[w]]
  BY <1>0 DEF Goto, TypeOK
<1>2. \A v \in Workers \ {w} : WorkerOK(v)'
  BY <1>1, OthersKeep
<1>3. pc'[w] = s /\ req'[w] = req[w]
  BY <1>0, <1>1 DEF TypeOK
<1>4. Formed(req[w])'
  BY <1>0, <1>3 DEF WorkerOK, Formed, FourEyes, RetentionKept
<1>5. WorkerOK(w)'
  BY <1>0, <1>3, <1>4 DEF WorkerOK, Locking
<1>6. Exclusive'
  BY <1>1, ExclusiveKeeps
<1>7. QED
  BY <1>0, <1>1, <1>2, <1>5, <1>6 DEF TypeOK

\* The file repository appends the event.
LEMMA FileAppendKeeps ==
  ASSUME Inv, NEW w \in Workers, FileAppend(w)
  PROVE  Inv'
<1>0. TypeOK /\ WorkerOK(w)
  BY DEF Inv
<1>1. /\ pc[w] = "append" /\ events' = Trim(Append(events, NewEvent(w))) /\ Goto(w, "notify")
      /\ UNCHANGED <<backend, file, rows, rowlock, req, cached, past, ops, faults>>
  BY DEF FileAppend
<1>2. backend = "file" /\ req[w].new \in past /\ pc[w] # "idle"
  BY <1>0, <1>1 DEF WorkerOK
<1>3. NewEvent(w) \in Event /\ events \in Seq(Event) /\ Len(events) \in Nat
  BY <1>0, <1>2, NewEventType DEF TypeOK
<1> DEFINE h == Append(events, NewEvent(w))
<1>4. /\ h \in Seq(Event) /\ Len(h) = Len(events) + 1
      /\ \A j \in 1 .. Len(h) : h[j] = NewEvent(w) \/ \E k \in 1 .. Len(events) : h[j] = events[k]
  BY <1>3
<1>5. /\ events' \in Seq(Event)
      /\ \A i \in 1 .. Len(events') : \E j \in 1 .. Len(h) : events'[i] = h[j]
  BY <1>1, <1>4, TrimKeeps
<1>6. Len(events') \in Nat
  BY <1>5
<1>7. cached' \in past' \union {None}
  BY <1>1 DEF Inv, HistoryTruthful
<1>8. HistoryTruthful' /\ TwoReviewers'
  <2>1. \A i \in 1 .. Len(events') :
          \/ events'[i] = NewEvent(w)
          \/ \E j \in 1 .. Len(events) : events'[i] = events[j]
    BY <1>4, <1>5
  <2>2. QED
    BY <1>1, <1>2, <1>6, <1>7, <2>1, EventsKeep
<1>9. Remembered' /\ NewestCurrent' /\ AuditChain'
  BY <1>1, <1>2 DEF Inv, Remembered, NewestCurrent, AuditChain
<1>10. "notify" \in Steps /\ "notify" \notin Locking \union {"save", "append", "select", "lock"}
  BY DEF Steps, Locking
<1>11. /\ \A v \in Workers : WorkerOK(v)'
       /\ Exclusive'
       /\ pc' \in [Workers -> Steps] /\ req' \in [Workers -> Request \union {None}]
  BY <1>1, <1>2, <1>10, MovesOn
<1>12. TypeOK'
  BY <1>0, <1>1, <1>5, <1>11 DEF TypeOK
<1>13. QED
  BY <1>8, <1>9, <1>11, <1>12 DEF Inv

\* The faults of the file repository.
LEMMA FileFaultsKeep ==
  ASSUME Inv, NEW w \in Workers, FileSaveFails(w) \/ FileAppendFails(w)
  PROVE  Inv'
<1>0. TypeOK /\ WorkerOK(w)
  BY DEF Inv
<1>1. faults' \in Nat /\ UNCHANGED <<backend, file, rows, events, rowlock, cached, past, ops>>
  BY <1>0 DEF FileSaveFails, FileAppendFails, Fault, TypeOK
<1>2. cached' \in past \union {None}
  BY <1>1 DEF Inv, HistoryTruthful
<1>3. Remembered' /\ NewestCurrent' /\ AuditChain' /\ HistoryTruthful' /\ TwoReviewers'
  BY <1>1, <1>2, Quiet
<1>4. /\ \A v \in Workers : WorkerOK(v)'
      /\ Exclusive'
      /\ pc' \in [Workers -> Steps] /\ req' \in [Workers -> Request \union {None}]
  <2>1. CASE FileSaveFails(w)
    <3>1. End(w)
      BY <2>1 DEF FileSaveFails
    <3>2. QED
      BY <1>1, <3>1, Ends
  <2>2. CASE FileAppendFails(w)
    <3>1. pc[w] = "append" /\ Goto(w, "notify") /\ UNCHANGED <<req, rowlock>>
      BY <2>2 DEF FileAppendFails
    <3>2. req[w].new \in past /\ pc[w] # "idle"
      BY <1>0, <3>1 DEF WorkerOK
    <3>3. "notify" \in Steps /\ "notify" \notin Locking \union {"save", "append", "select", "lock"}
      BY DEF Steps, Locking
    <3>4. QED
      BY <1>1, <3>1, <3>2, <3>3, MovesOn
  <2>3. QED
    BY <2>1, <2>2
<1>5. TypeOK'
  BY <1>0, <1>1, <1>4 DEF TypeOK
<1>6. QED
  BY <1>3, <1>4, <1>5 DEF Inv

\* The SELECT sees the newest row.
LEMMA PgSelectKeeps ==
  ASSUME Inv, NEW w \in Workers, PgSelect(w)
  PROVE  Inv'
<1>0. TypeOK /\ WorkerOK(w) /\ NewestCurrent
  BY DEF Inv
<1>1. /\ pc[w] = "select" /\ pc' = [pc EXCEPT ![w] = "lock"]
      /\ UNCHANGED <<backend, file, rows, events, rowlock, cached, past, ops, faults>>
  BY DEF PgSelect, Goto
<1>2. req[w] \in Request /\ req[w].locked = 0 /\ Formed(req[w]) /\ backend = "postgresql"
  BY <1>0, <1>1 DEF WorkerOK
<1>3. CurrentRow = Len(rows) /\ Len(rows) \in Nat
  BY <1>0, CurrentIsNewest DEF TypeOK
<1> DEFINE r == [req[w] EXCEPT !.candidate = CurrentRow]
<1>4. req' = [req EXCEPT ![w] = r]
  BY <1>0, <1>2 DEF PgSelect, TypeOK
<1>5. /\ r \in Request /\ r.locked = 0 /\ r.candidate = Len(rows)
      /\ r.op = req[w].op /\ r.previous = req[w].previous /\ r.new = req[w].new
      /\ r.type = req[w].type /\ r.approvals = req[w].approvals
  BY <1>2, <1>3 DEF Request
<1>6. pc'[w] = "lock" /\ req'[w] = r
  BY <1>0, <1>1, <1>4 DEF TypeOK
<1>7. \A v \in Workers \ {w} : WorkerOK(v)'
  BY <1>1, <1>4, OthersKeep
<1>8. Formed(req[w])'
  BY <1>1, <1>2, <1>5, <1>6 DEF Formed
<1>9. WorkerOK(w)'
  BY <1>1, <1>2, <1>3, <1>5, <1>6, <1>8 DEF WorkerOK, Locking
<1>10. Exclusive'
  <2>1. "lock" \notin Locking
    BY DEF Locking
  <2>2. QED
    BY <1>1, <1>4, <2>1, ExclusiveKeeps
<1>11. cached' \in past \union {None}
  BY <1>1 DEF Inv, HistoryTruthful
<1>12. Remembered' /\ NewestCurrent' /\ AuditChain' /\ HistoryTruthful' /\ TwoReviewers'
  BY <1>1, <1>11, Quiet
<1>13. TypeOK'
  BY <1>0, <1>1, <1>4, <1>5 DEF TypeOK, Steps
<1>14. QED
  BY <1>7, <1>9, <1>10, <1>12, <1>13 DEF Inv

\* The lock is granted on the newest row only, and to one transaction.
LEMMA PgLockKeeps ==
  ASSUME Inv, NEW w \in Workers, PgLock(w)
  PROVE  Inv'
<1>0. TypeOK /\ WorkerOK(w) /\ NewestCurrent
  BY DEF Inv
<1> DEFINE row == req[w].candidate
           found == row # 0 /\ rows[row].current
           refused == req[w].previous # None /\ (found => rows[row].policy # req[w].previous)
<1>1. /\ pc[w] = "lock" /\ (row # 0 => rowlock # row)
      /\ UNCHANGED <<backend, file, rows, events, cached, past, ops, faults>>
      /\ IF refused
           THEN End(w) /\ UNCHANGED rowlock
           ELSE /\ req' = [req EXCEPT ![w].locked = IF found THEN row ELSE 0]
                /\ rowlock' = IF found THEN row ELSE rowlock
                /\ Goto(w, "insert")
  BY DEF PgLock
<1>2. /\ req[w] \in Request /\ Formed(req[w]) /\ backend = "postgresql"
      /\ row =< Len(rows) /\ row \in Nat /\ Len(rows) \in Nat
  BY <1>0, <1>1 DEF WorkerOK, Request, TypeOK
<1>3. cached' \in past \union {None}
  BY <1>1 DEF Inv, HistoryTruthful
<1>4. Remembered' /\ NewestCurrent' /\ AuditChain' /\ HistoryTruthful' /\ TwoReviewers'
  BY <1>1, <1>3, Quiet
<1>5. CASE refused
  <2>1. End(w) /\ UNCHANGED rowlock
    BY <1>1, <1>5
  <2>2. /\ \A v \in Workers : WorkerOK(v)'
        /\ Exclusive'
        /\ pc' \in [Workers -> Steps] /\ req' \in [Workers -> Request \union {None}]
    BY <1>1, <2>1, Ends
  <2>3. TypeOK'
    BY <1>0, <1>1, <2>1, <2>2 DEF TypeOK
  <2>4. QED
    BY <1>4, <2>2, <2>3 DEF Inv
<1>6. CASE ~refused
  <2> DEFINE l == IF found THEN row ELSE 0
             r == [req[w] EXCEPT !.locked = l]
  <2>1. /\ req' = [req EXCEPT ![w] = r] /\ pc' = [pc EXCEPT ![w] = "insert"]
        /\ rowlock' = IF found THEN row ELSE rowlock
    BY <1>0, <1>1, <1>2, <1>6 DEF Goto, TypeOK
  <2>2. found => row = Len(rows)
    BY <1>2 DEF NewestCurrent, Inv
  <2>3. /\ r \in Request /\ r.locked = l
        /\ r.op = req[w].op /\ r.previous = req[w].previous /\ r.new = req[w].new
        /\ r.type = req[w].type /\ r.approvals = req[w].approvals
    BY <1>2 DEF Request
  <2>4. pc'[w] = "insert" /\ req'[w] = r
    BY <1>0, <2>1 DEF TypeOK
  <2>5. found => \A v \in Workers : pc[v] \in Locking => req[v].locked = 0
    <3>1. SUFFICES ASSUME found, NEW v \in Workers, pc[v] \in Locking, req[v].locked # 0
                   PROVE  FALSE
      OBVIOUS
    <3>2. rowlock = Len(rows)
      BY <3>1 DEF Inv, WorkerOK, HoldsRow
    <3>3. QED
      BY <1>1, <2>2, <3>1, <3>2
  <2>6. \/ rowlock' = rowlock
        \/ \A v \in Workers \ {w} : pc[v] \in Locking => req[v].locked = 0
    BY <2>1, <2>5
  <2>7. \A v \in Workers \ {w} : WorkerOK(v)' /\ pc'[v] = pc[v] /\ req'[v] = req[v]
    BY <1>1, <2>1, <2>6, OthersKeep
  <2>8. Formed(req[w])'
    BY <1>1, <1>2, <2>3, <2>4 DEF Formed
  <2>9. HoldsRow(w)'
    <3>1. req'[w].locked # 0 => req'[w].locked = Len(rows) /\ rowlock' = Len(rows)
      BY <2>1, <2>2, <2>3, <2>4
    <3>2. req'[w].previous # None =>
            req'[w].locked # 0 /\ rows[req'[w].locked].policy = req'[w].previous
      BY <1>6, <2>3, <2>4
    <3>3. QED
      BY <1>1, <2>4, <3>1, <3>2 DEF HoldsRow
  <2>10. WorkerOK(w)'
    BY <1>1, <1>2, <2>3, <2>4, <2>8, <2>9 DEF WorkerOK
  <2>11. Exclusive'
    <3>1. \A u, v \in Workers : pc'[u] = "commit" /\ pc'[v] = "commit" => u = v
      BY <2>4, <2>7 DEF Inv, Exclusive
    <3>2. \A v \in Workers \ {w} :
            pc'[v] \in Locking /\ req'[v].locked # 0 /\ req'[w].locked # 0 => FALSE
      BY <2>3, <2>4, <2>5, <2>7
    <3>3. \A u, v \in Workers :
            (/\ pc'[u] \in Locking /\ pc'[v] \in Locking
             /\ req'[u].locked # 0 /\ req'[v].locked # 0) => u = v
      BY <2>7, <3>2 DEF Inv, Exclusive
    <3>4. QED
      BY <3>1, <3>3 DEF Exclusive
  <2>12. TypeOK'
    BY <1>0, <1>1, <1>2, <2>1, <2>3 DEF TypeOK, Steps
  <2>13. QED
    BY <1>4, <2>7, <2>10, <2>11, <2>12 DEF Inv
<1>7. QED
  BY <1>5, <1>6

\* The INSERT waits for a transaction at its COMMIT, and a unique violation
\* turns away a transaction without a row once there is one.
LEMMA PgInsertKeeps ==
  ASSUME Inv, NEW w \in Workers, PgInsert(w)
  PROVE  Inv'
<1>0. TypeOK /\ WorkerOK(w) /\ NewestCurrent
  BY DEF Inv
<1>1. /\ pc[w] = "insert" /\ ~InsertPending(w) /\ UniqueHolds(w)
      /\ pc' = [pc EXCEPT ![w] = "commit"]
      /\ UNCHANGED <<backend, file, rows, events, rowlock, req, cached, past, ops, faults>>
  BY DEF PgInsert, Goto
<1>2. pc[w] \in Locking /\ pc[w] # "idle"
  BY <1>1 DEF Locking
<1>3. /\ req[w] \in Request /\ Formed(req[w]) /\ backend = "postgresql"
      /\ HoldsRow(w) /\ Len(rows) \in Nat
  BY <1>0, <1>1, <1>2 DEF WorkerOK, TypeOK
<1>4. req' = [req EXCEPT ![w] = req[w]]
  BY <1>0, <1>1 DEF TypeOK
<1>5. pc'[w] = "commit" /\ req'[w] = req[w]
  BY <1>0, <1>1 DEF TypeOK
<1>6. \A v \in Workers \ {w} : WorkerOK(v)' /\ pc'[v] = pc[v] /\ req'[v] = req[v]
  BY <1>1, <1>4, OthersKeep
<1>7. req[w].locked = 0 => Len(rows) = 0
  <2>1. SUFFICES ASSUME req[w].locked = 0, Len(rows) # 0
                 PROVE  FALSE
    OBVIOUS
  <2>2. Len(rows) \in 1 .. Len(rows) /\ rows[Len(rows)].current
    BY <1>0, <1>3, <2>1 DEF NewestCurrent
  <2>3. QED
    BY <1>1, <2>1, <2>2 DEF UniqueHolds
<1>8. Formed(req[w])'
  BY <1>1, <1>3 DEF Formed
<1>9. HoldsRow(w)'
  BY <1>1, <1>3, <1>7 DEF HoldsRow
<1>10. WorkerOK(w)'
  BY <1>1, <1>3, <1>5, <1>8, <1>9 DEF WorkerOK
<1>11. Exclusive'
  <2>1. \A v \in Workers \ {w} : pc[v] # "commit"
    BY <1>1 DEF InsertPending
  <2>2. \A v \in Workers : pc'[v] \in Locking => pc[v] \in Locking /\ req'[v] = req[v]
    BY <1>1, <1>2, <1>6
  <2>3. \A u, v \in Workers : pc'[u] = "commit" /\ pc'[v] = "commit" => u = v
    BY <1>6, <2>1
  <2>4. QED
    BY <2>2, <2>3 DEF Inv, Exclusive
<1>12. cached' \in past \union {None}
  BY <1>1 DEF Inv, HistoryTruthful
<1>13. Remembered' /\ NewestCurrent' /\ AuditChain' /\ HistoryTruthful' /\ TwoReviewers'
  BY <1>1, <1>12, Quiet
<1>14. TypeOK'
  BY <1>0, <1>1 DEF TypeOK, Steps
<1>15. QED
  BY <1>6, <1>10, <1>11, <1>13, <1>14 DEF Inv

\* A transaction that is rolled back leaves nothing behind.
LEMMA PgRollsBack ==
  ASSUME Inv, NEW w \in Workers, PgConflict(w) \/ PgDrop(w)
  PROVE  Inv'
<1>0. TypeOK
  BY DEF Inv
<1>1. /\ pc[w] \in {"select", "lock", "insert", "commit"} /\ Release(w) /\ End(w)
      /\ faults' \in Nat
      /\ UNCHANGED <<backend, file, rows, events, cached, past, ops>>
  BY <1>0 DEF PgConflict, PgDrop, Fault, TypeOK
<1>2. /\ rowlock' \in Nat
      /\ \/ rowlock' = rowlock
         \/ \A v \in Workers \ {w} : pc[v] \in Locking => req[v].locked = 0
  BY <1>1, ReleaseKeeps
<1>3. /\ \A v \in Workers : WorkerOK(v)'
      /\ Exclusive'
      /\ pc' \in [Workers -> Steps] /\ req' \in [Workers -> Request \union {None}]
  BY <1>1, <1>2, Ends
<1>4. cached' \in past \union {None}
  BY <1>1 DEF Inv, HistoryTruthful
<1>5. Remembered' /\ NewestCurrent' /\ AuditChain' /\ HistoryTruthful' /\ TwoReviewers'
  BY <1>1, <1>4, Quiet
<1>6. TypeOK'
  BY <1>0, <1>1, <1>2, <1>3 DEF TypeOK
<1>7. QED
  BY <1>3, <1>5, <1>6 DEF Inv

\* What the transaction at its COMMIT is about to write: the revision after
\* the newest row's, computed from that row unless it is a save.
LEMMA AtCommit ==
  ASSUME Inv, NEW w \in Workers, pc[w] = "commit"
  PROVE  /\ req[w] \in Request /\ Formed(req[w]) /\ backend = "postgresql"
         /\ NextRevision(w) = Len(rows) + 1
         /\ req[w].op # "save" => /\ Len(rows) # 0
                                  /\ rows[Len(rows)].policy = req[w].previous
<1>1. TypeOK /\ WorkerOK(w) /\ AuditChain
  BY DEF Inv
<1>2. pc[w] \in Locking
  BY DEF Locking
<1>3. req[w] \in Request /\ Formed(req[w]) /\ backend = "postgresql" /\ HoldsRow(w)
  BY <1>1, <1>2 DEF WorkerOK
<1>4. Len(rows) \in Nat
  BY <1>1 DEF TypeOK
<1>5. NextRevision(w) = Len(rows) + 1
  <2>1. CASE req[w].locked = 0
    BY <1>3, <2>1 DEF HoldsRow, NextRevision
  <2>2. CASE req[w].locked # 0
    <3>1. req[w].locked = Len(rows) /\ Len(rows) \in 1 .. Len(rows)
      BY <1>3, <1>4, <2>2 DEF HoldsRow
    <3>2. rows[Len(rows)].revision = Len(rows)
      BY <1>1, <1>3, <3>1 DEF AuditChain
    <3>3. QED
      BY <2>2, <3>1, <3>2 DEF NextRevision
  <2>3. QED
    BY <2>1, <2>2
<1>6. req[w].op # "save" => Len(rows) # 0 /\ rows[Len(rows)].policy = req[w].previous
  BY <1>3 DEF Formed, HoldsRow
<1>7. QED
  BY <1>3, <1>5, <1>6

\* The rows after a COMMIT.
LEMMA RowsWritten ==
  ASSUME Inv, NEW w \in Workers, pc[w] = "commit", Write(w)
  PROVE  /\ rows' \in Seq(Row) /\ Len(rows) \in Nat /\ Len(rows') = Len(rows) + 1
         /\ \A i \in 1 .. Len(rows) :
              /\ rows'[i].policy = rows[i].policy
              /\ rows'[i].revision = rows[i].revision
              /\ rows'[i].current = FALSE
         /\ rows'[Len(rows) + 1] =
              [policy |-> req[w].new, revision |-> Len(rows) + 1, current |-> TRUE]
<1>1. rows \in Seq(Row) /\ Len(rows) \in Nat
  BY DEF Inv, TypeOK
<1>2. req[w] \in Request /\ NextRevision(w) = Len(rows) + 1
  BY AtCommit
<1> DEFINE old == [i \in 1 .. Len(rows) |-> [rows[i] EXCEPT !.current = FALSE]]
           new == [policy |-> req[w].new, revision |-> Len(rows) + 1, current |-> TRUE]
<1>3. new \in Row
  BY <1>1, <1>2 DEF Row, Request
<1>4. /\ old \in Seq(Row) /\ Len(old) = Len(rows)
      /\ \A i \in 1 .. Len(rows) :
           /\ old[i].policy = rows[i].policy
           /\ old[i].revision = rows[i].revision
           /\ old[i].current = FALSE
  <2>1. \A i \in 1 .. Len(rows) : rows[i] \in Row
    BY <1>1
  <2>2. \A i \in 1 .. Len(rows) : [rows[i] EXCEPT !.current = FALSE] \in Row
    BY <2>1 DEF Row
  <2>3. old \in [1 .. Len(rows) -> Row]
    BY <2>2
  <2>4. old \in Seq(Row) /\ Len(old) = Len(rows)
    BY <1>1, <2>3
  <2>5. QED
    BY <2>1, <2>4 DEF Row
<1>5. rows' = Append(old, new)
  BY <1>2 DEF Write, NewRows
<1> HIDE DEF old, new
<1>6. /\ rows' \in Seq(Row) /\ Len(rows') = Len(rows) + 1
      /\ \A i \in 1 .. Len(rows) : rows'[i] = old[i]
      /\ rows'[Len(rows) + 1] = new
  BY <1>1, <1>3, <1>4, <1>5
<1>7. QED
  BY <1>1, <1>4, <1>6 DEF new

\* A COMMIT extends the audit chain by the row and its event.
LEMMA WriteKeeps ==
  ASSUME Inv, NEW w \in Workers, pc[w] = "commit", Write(w),
         UNCHANGED <<backend, file, cached>>
  PROVE  /\ Remembered' /\ NewestCurrent' /\ AuditChain' /\ HistoryTruthful' /\ TwoReviewers'
         /\ events' \in Seq(Event) /\ past' \subseteq Policies
<1>0. TypeOK /\ Remembered /\ AuditChain
  BY DEF Inv
<1>1. /\ req[w] \in Request /\ Formed(req[w]) /\ backend = "postgresql"
      /\ req[w].op # "save" => /\ Len(rows) # 0
                               /\ rows[Len(rows)].policy = req[w].previous
  BY AtCommit
<1>2. /\ Len(rows) \in Nat /\ Len(rows') = Len(rows) + 1
      /\ \A i \in 1 .. Len(rows) :
           /\ rows'[i].policy = rows[i].policy
           /\ rows'[i].revision = rows[i].revision
           /\ rows'[i].current = FALSE
      /\ rows'[Len(rows) + 1] =
           [policy |-> req[w].new, revision |-> Len(rows) + 1, current |-> TRUE]
  BY RowsWritten
<1>3. events' = Append(events, NewEvent(w)) /\ past' = past \union {req[w].new}
  BY DEF Write
<1>4. events \in Seq(Event) /\ NewEvent(w) \in Event /\ Len(events) = Len(rows)
  BY <1>0, <1>1, NewEventType DEF TypeOK, AuditChain
<1>5. /\ events' \in Seq(Event) /\ Len(events') = Len(rows) + 1
      /\ \A i \in 1 .. Len(rows) : events'[i] = events[i]
      /\ events'[Len(rows) + 1] = NewEvent(w)
  BY <1>2, <1>3, <1>4
<1>6. \A i \in 1 .. Len(rows) + 1 : i \in 1 .. Len(rows) \/ i = Len(rows) + 1
  BY <1>2
<1>7. past' \subseteq Policies
  BY <1>0, <1>1, <1>3 DEF TypeOK, Request
<1>8. Remembered'
  <2>1. \A i \in 1 .. Len(rows) + 1 : rows'[i].policy \in past'
    BY <1>0, <1>2, <1>3, <1>6 DEF Remembered
  <2>2. QED
    BY <1>0, <1>1, <1>2, <1>3, <2>1 DEF Remembered
<1>9. NewestCurrent'
  <2>1. \A i \in 1 .. Len(rows) + 1 : rows'[i].current <=> i = Len(rows) + 1
    BY <1>2, <1>6
  <2>2. QED
    BY <1>2, <2>1 DEF NewestCurrent
<1>10. AuditChain'
  <2>1. ASSUME NEW i \in 1 .. Len(rows)
        PROVE  /\ rows'[i].revision = i
               /\ events'[i].new = rows'[i].policy
               /\ events'[i].previous # None =>
                    i > 1 /\ events'[i].previous = rows'[i - 1].policy
    <3>1. /\ rows[i].revision = i /\ events[i].new = rows[i].policy
          /\ events[i].previous # None => i > 1 /\ events[i].previous = rows[i - 1].policy
      BY <1>0, <1>1 DEF AuditChain
    <3>2. i > 1 => i - 1 \in 1 .. Len(rows)
      BY <1>2
    <3>3. QED
      BY <1>2, <1>5, <3>1, <3>2
  <2>2. /\ rows'[Len(rows) + 1].revision = Len(rows) + 1
        /\ events'[Len(rows) + 1].new = rows'[Len(rows) + 1].policy
        /\ events'[Len(rows) + 1].previous # None =>
             /\ Len(rows) + 1 > 1
             /\ events'[Len(rows) + 1].previous = rows'[Len(rows) + 1 - 1].policy
    <3>1. NewEvent(w).new = req[w].new /\ NewEvent(w).previous = req[w].previous
      BY DEF NewEvent
    <3>2. Len(rows) # 0 => Len(rows) \in 1 .. Len(rows) /\ Len(rows) + 1 > 1
      BY <1>2
    <3>3. Len(rows) + 1 - 1 = Len(rows)
      BY <1>2
    <3>4. req[w].previous # None => req[w].op # "save"
      BY <1>1 DEF Formed
    <3>5. QED
      BY <1>1, <1>2, <1>5, <3>1, <3>2, <3>3, <3>4
  <2>3. QED
    BY <1>2, <1>5, <1>6, <2>1, <2>2 DEF AuditChain
<1>11. HistoryTruthful' /\ TwoReviewers'
  <2>1. \A i \in 1 .. Len(events') :
          \/ events'[i] = NewEvent(w)
          \/ \E j \in 1 .. Len(events) : events'[i] = events[j]
    BY <1>4, <1>5, <1>6
  <2>2. cached' \in past' \union {None} /\ Len(events') \in Nat
    BY <1>2, <1>3, <1>5 DEF Inv, HistoryTruthful
  <2>3. QED
    BY <1>3, <2>1, <2>2, EventsKeep
<1>12. QED
  BY <1>5, <1>7, <1>8, <1>9, <1>10, <1>11

\* Nobody else holds a row while one transaction is at its COMMIT, so the
\* others lose nothing when the rows change.
LEMMA OthersAtCommit ==
  ASSUME Inv, NEW w \in Workers, pc[w] = "commit", Write(w), backend' = backend,
         NEW s, NEW r, pc' = [pc EXCEPT ![w] = s], req' = [req EXCEPT ![w] = r]
  PROVE  \A v \in Workers \ {w} : WorkerOK(v)'
<1>1. TAKE v \in Workers \ {w}
<1>2. pc'[v] = pc[v] /\ req'[v] = req[v]
  BY DEF Inv, TypeOK
<1>3. WorkerOK(v) /\ WorkerOK(w)
  BY DEF Inv
<1>4. Len(rows) \in Nat /\ Len(rows') = Len(rows) + 1 /\ past \subseteq past'
  BY RowsWritten DEF Write
<1>5. pc[v] \in Locking => pc[v] # "commit" /\ req[v].locked = 0 /\ req[v].previous = None
  <2>1. SUFFICES ASSUME pc[v] \in Locking
                 PROVE  pc[v] # "commit" /\ req[v].locked = 0 /\ req[v].previous = None
    OBVIOUS
  <2>2. pc[v] # "commit" /\ pc[w] \in Locking
    BY DEF Inv, Exclusive, Locking
  <2>3. HoldsRow(v) /\ HoldsRow(w)
    BY <1>3, <2>1, <2>2 DEF WorkerOK
  <2>4. req[v].locked = 0
    <3>1. req[w].locked # 0 => req[v].locked = 0
      BY <2>1, <2>2 DEF Inv, Exclusive
    <3>2. req[w].locked = 0 => req[v].locked = 0
      BY <2>3 DEF HoldsRow
    <3>3. QED
      BY <3>1, <3>2
  <2>5. QED
    BY <2>2, <2>3, <2>4 DEF HoldsRow
<1>6. pc[v] \in Locking => HoldsRow(v)'
  BY <1>2, <1>5 DEF HoldsRow
<1>7. pc[v] # "idle" => req[v] \in Request /\ Formed(req[v])'
  BY <1>2, <1>3, <1>4 DEF WorkerOK, Formed, FourEyes, RetentionKept
<1>8. pc[v] \in {"select", "lock"} => req[v].locked = 0 /\ req[v].candidate =< Len(rows')
  <2>1. pc[v] \in {"select", "lock"} => req[v].candidate \in Nat
    BY <1>7 DEF Request
  <2>2. QED
    BY <1>3, <1>4, <2>1 DEF WorkerOK
<1>9. QED
  BY <1>2, <1>3, <1>4, <1>6, <1>7, <1>8 DEF WorkerOK

\* The COMMIT, whether its answer arrives or not.
LEMMA PgCommitKeeps ==
  ASSUME Inv, NEW w \in Workers, PgCommit(w) \/ PgAnswerLost(w)
  PROVE  Inv'
<1>0. TypeOK
  BY DEF Inv
<1>1. /\ pc[w] = "commit" /\ Write(w) /\ ops' = ops /\ faults' \in Nat
      /\ UNCHANGED <<backend, file, cached>>
      /\ End(w) \/ (Goto(w, "notify") /\ UNCHANGED req)
  BY <1>0 DEF PgCommit, PgAnswerLost, Fault, TypeOK
<1>2. /\ Remembered' /\ NewestCurrent' /\ AuditChain' /\ HistoryTruthful' /\ TwoReviewers'
      /\ events' \in Seq(Event) /\ past' \subseteq Policies
  BY <1>1, WriteKeeps
<1>3. rows' \in Seq(Row)
  BY <1>1, RowsWritten
<1>4. rowlock' \in Nat
  BY <1>0, <1>1 DEF Write, Release, TypeOK
<1>5. req[w] \in Request /\ Formed(req[w]) /\ backend = "postgresql"
  BY <1>1, AtCommit
<1>6. PICK s \in {"idle", "notify"}, r \in {None, req[w]} :
        /\ pc' = [pc EXCEPT ![w] = s] /\ req' = [req EXCEPT ![w] = r]
        /\ s = "notify" => r = req[w]
  BY <1>0, <1>1 DEF End, Goto, TypeOK
<1>7. \A v \in Workers \ {w} : WorkerOK(v)'
  BY <1>1, <1>6, OthersAtCommit
<1>8. WorkerOK(w)'
  <2>1. pc'[w] = s /\ req'[w] = r
    BY <1>0, <1>6 DEF TypeOK
  <2>2. past \subseteq past' /\ req[w].new \in past'
    BY <1>1 DEF Write
  <2>3. s = "notify" => Formed(req[w])'
    BY <1>5, <1>6, <2>1, <2>2 DEF Formed
  <2>4. QED
    BY <1>5, <1>6, <2>1, <2>2, <2>3 DEF WorkerOK, Locking
<1>9. Exclusive'
  <2>1. s \notin Locking
    BY DEF Locking
  <2>2. QED
    BY <1>6, <2>1, ExclusiveKeeps
<1>10. pc' \in [Workers -> Steps] /\ req' \in [Workers -> Request \union {None}]
  BY <1>0, <1>5, <1>6 DEF TypeOK, Steps
<1>11. TypeOK'
  BY <1>0, <1>1, <1>2, <1>3, <1>4, <1>10 DEF TypeOK
<1>12. QED
  BY <1>2, <1>7, <1>8, <1>9, <1>11 DEF Inv

\* The callbacks get a policy that is stored.
LEMMA NotifyKeeps ==
  ASSUME Inv, NEW w \in Workers, Notify(w)
  PROVE  Inv'
<1>0. TypeOK /\ WorkerOK(w)
  BY DEF Inv
<1>1. /\ pc[w] = "notify" /\ cached' = req[w].new /\ End(w)
      /\ UNCHANGED <<backend, file, rows, events, rowlock, past, ops, faults>>
  BY DEF Notify
<1>2. req[w].new \in past
  BY <1>0, <1>1 DEF WorkerOK
<1>3. /\ \A v \in Workers : WorkerOK(v)'
      /\ Exclusive'
      /\ pc' \in [Workers -> Steps] /\ req' \in [Workers -> Request \union {None}]
  BY <1>1, Ends
<1>4. Remembered' /\ NewestCurrent' /\ AuditChain' /\ HistoryTruthful' /\ TwoReviewers'
  BY <1>1, <1>2, Quiet
<1>5. TypeOK'
  BY <1>0, <1>1, <1>2, <1>3 DEF TypeOK
<1>6. QED
  BY <1>3, <1>4, <1>5 DEF Inv

\* A crash rolls back every open transaction.
LEMMA CrashKeeps ==
  ASSUME Inv, Crash
  PROVE  Inv'
<1>0. TypeOK
  BY DEF Inv
<1>1. /\ pc' = [w \in Workers |-> "idle"] /\ req' = [w \in Workers |-> None]
      /\ rowlock' = 0 /\ cached' = None /\ faults' \in Nat
      /\ UNCHANGED <<backend, file, rows, events, past, ops>>
  BY <1>0 DEF Crash, Fault, TypeOK
<1>2. Remembered' /\ NewestCurrent' /\ AuditChain' /\ HistoryTruthful' /\ TwoReviewers'
  BY <1>1, Quiet
<1>3. \A w \in Workers : WorkerOK(w)'
  BY <1>1 DEF WorkerOK, Locking
<1>4. Exclusive'
  BY <1>1 DEF Exclusive, Locking
<1>5. TypeOK'
  BY <1>0, <1>1 DEF TypeOK, Steps
<1>6. QED
  BY <1>2, <1>3, <1>4, <1>5 DEF Inv

-----------------------------------------------------------------------------
(* The invariant *)

LEMMA InitInv ==
  Init => Inv
<1>1. SUFFICES ASSUME Init PROVE Inv
  OBVIOUS
<1>2. TypeOK
  BY <1>1, ConstantsAssumption DEF Init, TypeOK, Steps
<1>3. (\A w \in Workers : WorkerOK(w)) /\ Exclusive
  BY <1>1 DEF Init, WorkerOK, Locking, Exclusive
<1>4. Remembered
  BY <1>1 DEF Init, Remembered
<1>5. NewestCurrent /\ AuditChain
  BY <1>1 DEF Init, NewestCurrent, AuditChain
<1>6. HistoryTruthful /\ TwoReviewers
  BY <1>1 DEF Init, HistoryTruthful, TwoReviewers
<1>7. QED
  BY <1>2, <1>3, <1>4, <1>5, <1>6 DEF Inv

LEMMA NextInv ==
  Inv /\ [Next]_vars => Inv'
<1>1. SUFFICES ASSUME Inv, [Next]_vars PROVE Inv'
  OBVIOUS
<1>2. CASE UNCHANGED vars
  <2>1. TypeOK' /\ (\A w \in Workers : WorkerOK(w)')
    <3>1. TypeOK'
      BY <1>1, <1>2 DEF vars, Inv, TypeOK
    <3>2. \A w \in Workers : WorkerOK(w)'
      BY <1>1, <1>2 DEF vars, Inv, WorkerOK, HoldsRow, Formed
    <3>3. QED
      BY <3>1, <3>2
  <2>2. Exclusive'
    BY <1>1, <1>2 DEF vars, Inv, Exclusive
  <2>3. cached' \in past \union {None} /\ UNCHANGED <<backend, file, rows, events, past>>
    BY <1>1, <1>2 DEF vars, Inv, HistoryTruthful
  <2>4. Remembered' /\ NewestCurrent' /\ AuditChain' /\ HistoryTruthful' /\ TwoReviewers'
    BY <1>1, <2>3, Quiet
  <2>5. QED
    BY <2>1, <2>2, <2>4 DEF Inv
<1>3. CASE Crash
  BY <1>1, <1>3, CrashKeeps
<1>4. ASSUME NEW w \in Workers, Begin(w) PROVE Inv'
  BY <1>1, <1>4, BeginKeeps
<1>5. ASSUME NEW w \in Workers, Proceed(w) PROVE Inv'
  BY <1>1, <1>5, FileSaveKeeps, FileAppendKeeps, FileFaultsKeep, PgSelectKeeps, PgLockKeeps,
     PgInsertKeeps, PgRollsBack, PgCommitKeeps, NotifyKeeps
     DEF Proceed
<1>6. QED
  BY <1>1, <1>2, <1>3, <1>4, <1>5 DEF Next

LEMMA Invariant ==
  Spec => []Inv
<1>1. QED
  BY InitInv, NextInv, PTL DEF Spec

-----------------------------------------------------------------------------
(* Theorems *)

\* The variables keep their types.
THEOREM TypeCorrect ==
  Spec => []TypeOK
<1>1. Inv => TypeOK
  BY DEF Inv
<1>2. QED
  BY <1>1, Invariant, PTL

\* The events of the PostgreSQL history are the transitions of the policy,
\* one for one: revisions without a gap, and every update and rollback
\* computed from the row it replaced.
THEOREM AuditChainHolds ==
  Spec => []AuditChain
<1>1. Inv => AuditChain
  BY DEF Inv
<1>2. QED
  BY <1>1, Invariant, PTL

\* One row is current, and it is the newest.
THEOREM NewestIsCurrent ==
  Spec => []NewestCurrent
<1>1. Inv => NewestCurrent
  BY DEF Inv
<1>2. QED
  BY <1>1, Invariant, PTL

\* Events and callbacks tell of policies that were stored, on both backends.
THEOREM HistoryIsTruthful ==
  Spec => []HistoryTruthful
<1>1. Inv => HistoryTruthful
  BY DEF Inv
<1>2. QED
  BY <1>1, Invariant, PTL

\* With the four-eyes check switched on every update and rollback in the history
\* names two reviewers; PostgreSQL also keeps two different signatures, the file
\* repository none.
THEOREM ReviewersNamed ==
  Spec => []TwoReviewers
<1>1. Inv => TwoReviewers
  BY DEF Inv
<1>2. QED
  BY <1>1, Invariant, PTL

\* What is current changes on PostgreSQL only with the rows.
LEMMA CurrentKept ==
  ASSUME UNCHANGED <<backend, rows>>, backend = "postgresql"
  PROVE  Current' = Current
<1>1. CurrentRow' = CurrentRow
  BY DEF CurrentRow
<1>2. QED
  BY <1>1 DEF Current

\* An update that commits keeps the retention version of the row it replaces.
LEMMA CommitKeepsRetention ==
  ASSUME Inv, Inv', NEW w \in Workers, pc[w] = "commit", Write(w), backend' = backend
  PROVE  RetentionStep
<1>1. /\ req[w] \in Request /\ Formed(req[w]) /\ backend = "postgresql"
      /\ req[w].op # "save" => /\ Len(rows) # 0
                               /\ rows[Len(rows)].policy = req[w].previous
  BY AtCommit
<1>2. SUFFICES ASSUME req[w].op = "update", Current.enforced, Current.retention.text # "",
                      Current'.retention.text # ""
               PROVE  Current'.retention.text = Current.retention.text
  BY DEF RetentionStep
<1>3. CurrentRow = Len(rows) /\ CurrentRow' = Len(rows')
  <2>1. CurrentRow = Len(rows)
    BY CurrentIsNewest DEF Inv
  <2>2. CurrentRow' = Len(rows')
    <3>1. rows' \in Seq(Row) /\ Len(rows') \in Nat
      BY DEF Inv, TypeOK
    <3>2. \A i \in 1 .. Len(rows') : rows'[i].current <=> i = Len(rows')
      BY DEF Inv, NewestCurrent
    <3>3. Len(rows') # 0 => Len(rows') \in 1 .. Len(rows') /\ rows'[Len(rows')].current
      BY <3>1, <3>2
    <3>4. QED
      BY <3>1, <3>2, <3>3 DEF CurrentRow
  <2>3. QED
    BY <2>1, <2>2
<1>4. Current = req[w].previous
  BY <1>1, <1>2, <1>3 DEF Current
<1>5. Len(rows) \in Nat /\ Len(rows') = Len(rows) + 1 /\ rows'[Len(rows) + 1].policy = req[w].new
  <2>1. /\ Len(rows) \in Nat /\ Len(rows') = Len(rows) + 1
        /\ rows'[Len(rows) + 1] =
             [policy |-> req[w].new, revision |-> Len(rows) + 1, current |-> TRUE]
    BY RowsWritten
  <2>2. QED
    BY <2>1
<1>6. Current' = req[w].new
  BY <1>1, <1>3, <1>5 DEF Current
<1>7. RetentionKept(req[w].previous, req[w].new)
  BY <1>1, <1>2 DEF Formed
<1>8. QED
  BY <1>2, <1>4, <1>6, <1>7 DEF RetentionKept

\* On PostgreSQL no committed update makes the retention version of a policy that
\* enforces it another one, whatever was committed between its load and its
\* COMMIT. It may blank it: the check compares versions that say something.
THEOREM RetentionIsLocked ==
  Spec => RetentionLocked
<1>1. Inv /\ Inv' /\ [Next]_vars => [RetentionStep]_vars
  <2>1. SUFFICES ASSUME Inv, Inv', Next PROVE RetentionStep
    OBVIOUS
  <2>2. CASE \E w \in Workers : PgCommit(w) \/ PgAnswerLost(w)
    <3>1. PICK w \in Workers : PgCommit(w) \/ PgAnswerLost(w)
      BY <2>2
    <3>2. pc[w] = "commit" /\ Write(w) /\ backend' = backend
      BY <3>1 DEF PgCommit, PgAnswerLost
    <3>3. QED
      BY <2>1, <3>2, CommitKeepsRetention
  <2>3. CASE ~ \E w \in Workers : PgCommit(w) \/ PgAnswerLost(w)
    <3>1. UNCHANGED <<backend, rows>>
      BY <2>1, <2>3 DEF Next, Crash, Begin, Update, Rollback, SavePolicy, Proceed, FileSave,
         FileAppend, FileSaveFails, FileAppendFails, PgSelect, PgLock, PgInsert, PgConflict,
         PgDrop, Notify
    <3>2. QED
      BY <3>1, CurrentKept DEF RetentionStep
  <2>4. QED
    BY <2>2, <2>3
<1>2. QED
  BY <1>1, Invariant, PTL DEF Spec, RetentionLocked
=============================================================================
