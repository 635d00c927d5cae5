--------------------------- MODULE TrustLogProofs ---------------------------
(***************************************************************************)
(* Proofs about TrustLog for every number of threads, every rotation       *)
(* threshold and every number of faults.                                   *)
(***************************************************************************)
EXTENDS TrustLog, SequenceTheorems, TLAPS

-----------------------------------------------------------------------------
(* Type correctness *)

\* Trimming trust_log.json yields a sequence of digests (_save_json).
LEMMA NewestType ==
  ASSUME NEW s \in Seq(Nat)
  PROVE  Newest(s) \in Seq(Nat)
<1>1. CASE Len(s) > MaxItems
  <2>1. Len(s) \in Nat /\ MaxItems \in Nat
    BY ConstantsAssumption
  <2>2. \A i \in (Len(s) - MaxItems + 1) .. Len(s) : s[i] \in Nat
    BY <2>1, <1>1
  <2>3. SubSeq(s, Len(s) - MaxItems + 1, Len(s)) \in Seq(Nat)
    BY <2>1, <2>2, <1>1, SubSeqProperties
  <2> QED
    BY <2>3, <1>1 DEF Newest
<1>2. CASE ~(Len(s) > MaxItems)
  BY <1>2 DEF Newest
<1> QED
  BY <1>1, <1>2

\* Writing a complete or an interrupted line yields a log with at least as many
\* lines (open_trust_log_for_append, f.write).
LEMMA PutType ==
  ASSUME TypeOK, NEW l \in Line
  PROVE  Put(l) \in Seq(Line) /\ Len(log) =< Len(Put(l))
<1>1. CASE activeBase < Len(log) /\ ~log[Len(log)].nl
  <2>1. Len(log) \in 1 .. Len(log)
    BY <1>1 DEF TypeOK
  <2>2. Glue(log[Len(log)], l.nl) \in Line
    <3>1. log[Len(log)] \in Line
      BY <2>1 DEF TypeOK
    <3> QED
      BY <3>1 DEF Glue, Line, Decodings
  <2>3. [log EXCEPT ![Len(log)] = Glue(log[Len(log)], l.nl)] \in Seq(Line)
    BY <2>1, <2>2, ExceptSeq DEF TypeOK
  <2>4. Len([log EXCEPT ![Len(log)] = Glue(log[Len(log)], l.nl)]) = Len(log)
    BY <2>1, <2>2, ExceptSeq DEF TypeOK
  <2> QED
    BY <1>1, <2>3, <2>4 DEF Put, TypeOK
<1>2. CASE ~(activeBase < Len(log) /\ ~log[Len(log)].nl)
  BY <1>2 DEF Put, TypeOK
<1> QED
  BY <1>1, <1>2

\* An interrupted write leaves a well-typed log.
LEMMA InterruptedType ==
  ASSUME TypeOK, NEW t \in Threads,
         NEW g \in Interrupted(Entry(sha[t], prev[t]))
  PROVE  g \in Seq(Line) /\ Len(log) =< Len(g)
<1>1. CASE g = log
  BY <1>1 DEF TypeOK
<1>2. CASE g # log
  <2>1. PICK d \in Decodings :
          g = Put(Cut(Entry(sha[t], prev[t]), d))
    BY <1>2 DEF Interrupted
  <2>2. Cut(Entry(sha[t], prev[t]), d) \in Line
    BY DEF Entry, Cut, Line, TypeOK, Decodings
  <2> QED
    BY <2>1, <2>2, PutType
<1> QED
  BY <1>1, <1>2

\* Every hash _get_last_hash_unlocked returns is a digest or NoHash.
LEMMA LastShaType ==
  ASSUME TypeOK, NEW lo \in Nat, NEW hi \in Nat, hi =< Len(log)
  PROVE  LastSha(lo, hi) \in Nat
<1>1. CASE NewestDecodable(lo, hi) = {}
  BY <1>1 DEF LastSha, NoHash
<1>2. CASE NewestDecodable(lo, hi) # {}
  <2> DEFINE m == CHOOSE i \in NewestDecodable(lo, hi) : TRUE
  <2>1. m \in NewestDecodable(lo, hi)
    BY <1>2
  <2>2. LastSha(lo, hi) = log[m].sha
    BY <1>2 DEF LastSha
  <2> HIDE DEF m
  <2>3. m \in 1 .. Len(log)
    BY <2>1 DEF NewestDecodable, Decodable, TypeOK
  <2>4. log[m] \in Line
    BY <2>3 DEF TypeOK
  <2> QED
    BY <2>2, <2>4 DEF Line
<1> QED
  BY <1>1, <1>2

\* So is the previous hash an append starts from.
LEMMA LastHashType ==
  ASSUME TypeOK
  PROVE  LastHash \in Nat
<1>1. /\ Len(log) \in Nat /\ activeBase \in Nat /\ oldBase \in Nat
      /\ activeBase =< Len(log) /\ Len(log) =< Len(log) /\ marker \in Nat
  BY DEF TypeOK
<1>2. LastSha(activeBase, Len(log)) \in Nat
  BY <1>1, LastShaType
<1>3. LastSha(oldBase, activeBase) \in Nat
  BY <1>1, LastShaType
<1> QED
  BY <1>1, <1>2, <1>3 DEF LastHash

\* The previous hash append_trust_log reads: that of the newest line, or what a
\* failed read gives, and then the entry is marked.
LEMMA HashRead ==
  ASSUME TypeOK, NEW t \in Threads, Begin(t)
  PROVE  \E h \in Nat : /\ prev' = [prev EXCEPT ![t] = h]
                        /\ h = LastHash \/ (h \in HashOnError /\ nextSha \in blind')
<1>1. HashOnError \subseteq Nat
  <2>1. LastSha(oldBase, activeBase) \in Nat
    BY LastShaType DEF TypeOK
  <2> QED
    BY <2>1 DEF HashOnError, NoHash
<1>2. LastHash \in Nat
  BY LastHashType
<1>3. PICK failed \in SUBSET {"hash", "items"} : Read(t, failed)
  BY DEF Begin
<1>4. CASE "hash" \in failed
  BY <1>1, <1>3, <1>4 DEF Read
<1>5. CASE "hash" \notin failed
  BY <1>2, <1>3, <1>5 DEF Read
<1> QED
  BY <1>4, <1>5

\* The items it loads: trust_log.json, or none when that cannot be read.
LEMMA ItemsRead ==
  ASSUME TypeOK, NEW t \in Threads, Begin(t)
  PROVE  \E s \in Seq(Nat) : /\ loaded' = [loaded EXCEPT ![t] = s]
                             /\ s = items \/ (s = <<>> /\ nextSha \in reset')
<1>1. PICK failed \in SUBSET {"hash", "items"} : Read(t, failed)
  BY DEF Begin
<1>2. CASE "items" \in failed
  <2>1. <<>> \in Seq(Nat)
    OBVIOUS
  <2>2. loaded' = [loaded EXCEPT ![t] = <<>>] /\ nextSha \in reset'
    BY <1>1, <1>2 DEF Read
  <2> QED
    BY <2>1, <2>2
<1>3. CASE "items" \notin failed
  <2>1. loaded' = [loaded EXCEPT ![t] = items]
    BY <1>1, <1>3 DEF Read
  <2>2. items \in Seq(Nat)
    BY DEF TypeOK
  <2> QED
    BY <2>1, <2>2
<1> QED
  BY <1>2, <1>3

\* What it records of failed reads.
LEMMA ReadRecords ==
  ASSUME TypeOK, NEW t \in Threads, Begin(t)
  PROVE  /\ blind' \in {blind, blind \union {nextSha}}
         /\ reset' \in {reset, reset \union {nextSha}}
         /\ blind' # blind => "read" \in Faults
         /\ faults' \in Nat
<1>1. faults \in Nat
  BY DEF TypeOK
<1>2. PICK failed \in SUBSET {"hash", "items"} : Read(t, failed)
  BY DEF Begin
<1>3. CASE failed = {}
  BY <1>1, <1>2, <1>3 DEF Read
<1>4. CASE failed # {}
  <2>1. Fault("read")
    BY <1>2, <1>4, Zenon DEF Read
  <2>2. "read" \in Faults /\ faults' \in Nat
    BY <2>1, <1>1 DEF Fault
  <2>3. /\ blind' \in {blind, blind \union {nextSha}}
        /\ reset' \in {reset, reset \union {nextSha}}
    BY <1>2 DEF Read
  <2> QED
    BY <2>2, <2>3
<1> QED
  BY <1>3, <1>4

-----------------------------------------------------------------------------
(* The lock *)

\* Only the holder of _trust_log_lock is inside append_trust_log.
LockInv == \A t \in Threads : pc[t] # "idle" => lock = t

\* Rotation runs only on a file with a line in it.
RotationInv ==
  \A t \in Threads :
    pc[t] \in {"rotate", "marker", "replace"} => activeBase < Len(log)

BaseInv == TypeOK /\ LockInv /\ RotationInv

\* Every step of append_trust_log, and a crash, keeps the state well typed, the
\* lock exclusive and the windows of the two files inside the log.
LEMMA BaseStep == BaseInv /\ [Next]_vars => BaseInv'
<1> SUFFICES ASSUME BaseInv, [Next]_vars
             PROVE  BaseInv'
  OBVIOUS
<1> USE ConstantsAssumption
<1>0. TypeOK
  BY DEF BaseInv
<1>1. ASSUME NEW t \in Threads, Begin(t)
      PROVE  BaseInv'
  <2>1. /\ prev' \in [Threads -> Nat] /\ loaded' \in [Threads -> Seq(Nat)]
        /\ blind' \subseteq Nat /\ reset' \subseteq Nat /\ faults' \in Nat
    <3>1. PICK h \in Nat : prev' = [prev EXCEPT ![t] = h]
      BY <1>0, <1>1, HashRead
    <3>2. PICK s \in Seq(Nat) : loaded' = [loaded EXCEPT ![t] = s]
      BY <1>0, <1>1, ItemsRead
    <3>3. prev \in [Threads -> Nat] /\ loaded \in [Threads -> Seq(Nat)]
      BY <1>0 DEF TypeOK
    <3>4. prev' \in [Threads -> Nat]
      BY <3>1, <3>3
    <3>5. loaded' \in [Threads -> Seq(Nat)]
      <4> DEFINE S == Seq(Nat)
      <4> HIDE DEF S
      <4>1. s \in S /\ loaded \in [Threads -> S]
        BY <3>2, <3>3 DEF S
      <4>2. loaded' \in [Threads -> S]
        BY <3>2, <4>1
      <4> QED
        BY <4>2 DEF S
    <3>6. /\ nextSha \in Nat /\ blind \subseteq Nat /\ reset \subseteq Nat
      BY <1>0 DEF TypeOK, Digest
    <3>7. /\ blind' \in {blind, blind \union {nextSha}}
          /\ reset' \in {reset, reset \union {nextSha}} /\ faults' \in Nat
      BY <1>0, <1>1, ReadRecords
    <3> QED
      BY <3>4, <3>5, <3>6, <3>7
  <2>2. pc' \in [Threads -> Steps]
    BY <1>1, <1>0 DEF TypeOK, Begin, Steps
  <2>3. TypeOK'
    BY <1>1, <1>0, <2>1, <2>2 DEF TypeOK, Begin, files, Digest
  <2>4. LockInv'
    BY <1>1 DEF BaseInv, TypeOK, LockInv, Begin
  <2>5. RotationInv'
    BY <1>1 DEF BaseInv, TypeOK, LockInv, RotationInv, Begin, files,
                ActiveLines
  <2> QED
    BY <2>3, <2>4, <2>5 DEF BaseInv
<1>2. ASSUME NEW t \in Threads, PrepareFails(t)
      PROVE  BaseInv'
  BY <1>2 DEF BaseInv, TypeOK, LockInv, RotationInv, PrepareFails, End, files,
              local, Steps
<1>3. ASSUME NEW t \in Threads, Rotate(t)
      PROVE  BaseInv'
  <2>1. CASE log[Len(log)].dec = "ok"
    <3>0. /\ marker' = 0
          /\ pc' = [pc EXCEPT ![t] = "marker"]
          /\ UNCHANGED lock
      BY <1>3, <2>1 DEF Rotate, Goto, NoHash
    <3>1. TypeOK'
      BY <1>3, <3>0, <1>0 DEF TypeOK, Rotate, local, Steps
    <3>2. LockInv'
      BY <1>3, <2>1, <1>0 DEF BaseInv, TypeOK, LockInv, Rotate, Goto
    <3>3. RotationInv'
      BY <1>3, <2>1, <1>0 DEF BaseInv, TypeOK, RotationInv, Rotate, Goto
    <3> QED
      BY <3>1, <3>2, <3>3 DEF BaseInv
  <2>2. CASE log[Len(log)].dec = "json"
    BY <1>3, <2>2 DEF BaseInv, TypeOK, LockInv, RotationInv, Rotate, Goto,
                      local, Steps
  <2>3. CASE log[Len(log)].dec = "decrypt"
    BY <1>3, <2>3 DEF BaseInv, TypeOK, LockInv, RotationInv, Rotate, End,
                      local, Steps
  <2> QED
    BY <1>3, <2>1, <2>2, <2>3 DEF Rotate
<1>4. ASSUME NEW t \in Threads, MarkerWrite(t)
      PROVE  BaseInv'
  <2>1. Len(log) \in 1 .. Len(log)
    BY <1>4 DEF BaseInv, TypeOK, RotationInv, MarkerWrite
  <2>2. log[Len(log)] \in Line
    BY <2>1, <1>0 DEF TypeOK
  <2>3. log[Len(log)].sha \in Nat
    BY <2>2 DEF Line
  <2> QED
    BY <1>4, <2>3 DEF BaseInv, TypeOK, LockInv, RotationInv, MarkerWrite,
                      Goto, local, Steps
<1>5. ASSUME NEW t \in Threads, MarkerFails(t)
      PROVE  BaseInv'
  <2>0. /\ UNCHANGED <<log, oldBase, activeBase, marker, items, witness, worm, lock, prev, sha,
                        nextSha, loaded, blind, reset, acked>>
        /\ pc' = [pc EXCEPT ![t] = "replace"] /\ faults' = faults + 1
    BY <1>5 DEF MarkerFails, Fault, Goto, files, local
  <2>a. pc' \in [Threads -> Steps] /\ faults' \in Nat
    BY <2>0, <1>0 DEF TypeOK, Steps
  <2>1. TypeOK'
    BY <2>0, <2>a, <1>0 DEF TypeOK
  <2>2. LockInv'
    BY <1>5, <1>0 DEF BaseInv, TypeOK, LockInv, MarkerFails, Goto
  <2>3. RotationInv'
    BY <1>5, <1>0 DEF BaseInv, TypeOK, RotationInv, MarkerFails, Goto, files
  <2> QED
    BY <2>1, <2>2, <2>3 DEF BaseInv
<1>6. ASSUME NEW t \in Threads, Replace(t)
      PROVE  BaseInv'
  <2>0. /\ UNCHANGED <<log, marker, items, witness, worm, lock, prev, sha, nextSha, loaded, blind,
                        reset, acked, faults>>
        /\ pc' = [pc EXCEPT ![t] = "write"] /\ oldBase' = activeBase /\ activeBase' = Len(log)
    BY <1>6 DEF Replace, Goto, local
  <2>a. pc' \in [Threads -> Steps] /\ Len(log) \in Nat
    BY <2>0, <1>0 DEF TypeOK, Steps
  <2>1. TypeOK'
    BY <2>0, <2>a, <1>0 DEF TypeOK
  <2>2. LockInv'
    BY <1>6, <1>0 DEF BaseInv, TypeOK, LockInv, Replace, Goto
  <2>3. RotationInv'
    BY <1>6, <1>0 DEF BaseInv, TypeOK, LockInv, RotationInv, Replace, Goto
  <2> QED
    BY <2>1, <2>2, <2>3 DEF BaseInv
<1>7. ASSUME NEW t \in Threads, Write(t)
      PROVE  BaseInv'
  <2>1. Entry(sha[t], prev[t]) \in Line
    BY <1>0 DEF Entry, Line, TypeOK, Decodings
  <2>2. log' \in Seq(Line) /\ Len(log) =< Len(log')
    BY <1>0, <1>7, <2>1, PutType DEF Write
  <2> QED
    BY <1>7, <2>2 DEF BaseInv, TypeOK, LockInv, RotationInv, Write, Goto,
                      local, Steps
<1>8. ASSUME NEW t \in Threads, Mirror(t)
      PROVE  BaseInv'
  <2>1. Append(loaded[t], sha[t]) \in Seq(Nat)
    BY <1>0 DEF TypeOK
  <2>2. items' \in Seq(Nat)
    BY <1>8, <2>1, NewestType DEF Mirror
  <2> QED
    BY <1>8, <2>2 DEF BaseInv, TypeOK, LockInv, RotationInv, Mirror, Goto,
                      local, Steps
<1>9. ASSUME NEW t \in Threads, Sign(t)
      PROVE  BaseInv'
  <2>1. sha[t] \in Nat /\ Append(witness, sha[t]) \in Seq(Nat)
    BY <1>0 DEF TypeOK
  <2>2. witness' \in Seq(Nat) /\ worm' \subseteq Nat
    BY <1>0, <1>9, <2>1 DEF TypeOK, Sign, SignEffects
  <2>3. faults' \in Nat
    BY <1>0, <1>9 DEF TypeOK, Sign, Fault
  <2> QED
    BY <1>9, <2>1, <2>2, <2>3
       DEF BaseInv, TypeOK, LockInv, RotationInv, Sign, End, local, Steps
<1>10. ASSUME NEW t \in Threads, SignerFails(t)
      PROVE  BaseInv'
  BY <1>10 DEF BaseInv, TypeOK, LockInv, RotationInv, SignerFails, Fault, End,
               files, local, Steps
<1>11. ASSUME NEW t \in Threads, Fails(t)
      PROVE  BaseInv'
  <2>1. log' \in Seq(Line) /\ Len(log) =< Len(log')
    <3>1. CASE log' = log
      BY <3>1, <1>0 DEF TypeOK
    <3>2. CASE log' # log
      BY <3>2, <1>0, <1>11, InterruptedType DEF Fails
    <3> QED
      BY <3>1, <3>2
  <2> QED
    BY <1>11, <2>1 DEF BaseInv, TypeOK, LockInv, RotationInv, Fails, Fault,
                       End, local, Steps
<1>12. CASE Crash
  <2>1. log' \in Seq(Line) /\ Len(log) =< Len(log')
    <3>1. CASE log' = log
      BY <3>1, <1>0 DEF TypeOK
    <3>2. CASE log' # log
      <4>1. PICK t \in Threads : log' \in Interrupted(Entry(sha[t], prev[t]))
        BY <3>2, <1>12 DEF Crash
      <4> QED
        BY <4>1, <1>0, InterruptedType
    <3> QED
      BY <3>1, <3>2
  <2>2. witness' \in Seq(Nat) /\ worm' \subseteq Nat
    <3>1. CASE UNCHANGED <<witness, worm>>
      BY <3>1, <1>0 DEF TypeOK
    <3>2. ASSUME NEW t \in Threads, SignEffects(sha[t])
          PROVE  witness' \in Seq(Nat) /\ worm' \subseteq Nat
      <4>1. sha[t] \in Nat /\ Append(witness, sha[t]) \in Seq(Nat)
        BY <1>0 DEF TypeOK
      <4> QED
        BY <3>2, <4>1, <1>0 DEF TypeOK, SignEffects
    <3> QED
      BY <3>1, <3>2, <1>12 DEF Crash
  <2> QED
    BY <1>12, <2>1, <2>2 DEF BaseInv, TypeOK, LockInv, RotationInv, Crash,
                             Fault, local, Steps
<1>13. CASE UNCHANGED vars
  BY <1>13 DEF BaseInv, TypeOK, LockInv, RotationInv, vars
<1> QED
  BY <1>1, <1>2, <1>3, <1>4, <1>5, <1>6, <1>7, <1>8, <1>9, <1>10, <1>11,
     <1>12, <1>13 DEF Next, Step

LEMMA BaseInit == Init => BaseInv
BY ConstantsAssumption
   DEF Init, BaseInv, TypeOK, LockInv, RotationInv, Line, Steps,
       Digest, NoHash

\* The state of the TrustLog is always well typed.
THEOREM TypeCorrect == Spec => []TypeOK
<1>1. BaseInv => TypeOK
  BY DEF BaseInv
<1> QED
  BY <1>1, BaseInit, BaseStep, PTL DEF Spec

-----------------------------------------------------------------------------
(* The active file is a linked chain, whatever was torn *)

\* The scan of the tail returns the newest decodable line.
LEMMA LastShaIs ==
  ASSUME TypeOK, NEW lo \in Nat, NEW hi \in Nat, hi =< Len(log),
         NEW i \in Decodable(lo, hi),
         \A k \in (i + 1) .. hi : log[k].dec # "ok"
  PROVE  LastSha(lo, hi) = log[i].sha
<1>1. NewestDecodable(lo, hi) = {i}
  BY DEF NewestDecodable, Decodable
<1> QED
  BY <1>1 DEF LastSha

\* Until the line is written, the writer holds the hash of the newest line of
\* the active file, or none when it could not read the file.
PrevInv ==
  \A t \in Threads :
    pc[t] \in {"rotate", "marker", "replace", "write"} /\ activeBase < Len(log)
      => \/ prev[t] = LastSha(activeBase, Len(log))
         \/ sha[t] \in blind /\ prev[t] = NoHash

ActiveInv == BaseInv /\ PrevInv /\ ActiveLinked

\* A line that names the newest decodable line keeps the file linked, also when
\* it is cut short or glued to a torn line.
LEMMA PutLinked ==
  ASSUME TypeOK, ActiveLinked, NEW l \in Line,
         activeBase < Len(log) =>
           \/ l.prev = LastSha(activeBase, Len(log))
           \/ l.sha \in blind /\ l.prev = NoHash,
         log' = Put(l), activeBase' = activeBase, blind' = blind
  PROVE  ActiveLinked'
<1>0. /\ log \in Seq(Line) /\ Len(log) \in Nat /\ activeBase \in Nat
      /\ activeBase =< Len(log) /\ Len(log) =< Len(log)
  BY DEF TypeOK
<1>1. CASE activeBase < Len(log) /\ ~log[Len(log)].nl
  <2>1. Len(log) \in 1 .. Len(log)
    BY <1>0, <1>1
  <2>2. log[Len(log)] \in Line
    BY <2>1, <1>0
  <2>3. Glue(log[Len(log)], l.nl) \in Line
    BY <2>2 DEF Glue, Line, Decodings
  <2>4. /\ Len(log') = Len(log)
        /\ \A k \in 1 .. Len(log) : k # Len(log) => log'[k] = log[k]
        /\ log'[Len(log)] = Glue(log[Len(log)], l.nl)
    BY <2>1, <2>3, <1>0, <1>1, ExceptSeq DEF Put
  <2>5. log'[Len(log)].dec # "ok"
    BY <2>4 DEF Glue
  <2> QED
    BY <2>4, <2>5, <1>0 DEF ActiveLinked, Linked, Decodable
<1>2. CASE ~(activeBase < Len(log) /\ ~log[Len(log)].nl)
  <2>1. /\ Len(log') = Len(log) + 1
        /\ \A k \in 1 .. Len(log) : log'[k] = log[k]
        /\ log'[Len(log) + 1] = l
    BY <1>2, <1>0 DEF Put
  <2> SUFFICES ASSUME NEW j \in Decodable(activeBase, Len(log))',
                      NEW i \in Decodable(activeBase, Len(log))',
                      i < j,
                      \A k \in (i + 1) .. (j - 1) : log'[k].dec # "ok"
               PROVE  \/ log'[j].prev = log'[i].sha
                      \/ log'[j].sha \in blind /\ log'[j].prev = NoHash
    BY DEF ActiveLinked, Linked
  <2>2. /\ i \in (activeBase + 1) .. Len(log) /\ i \in 1 .. Len(log)
        /\ log[i] = log'[i] /\ log[i].dec = "ok"
    BY <2>1, <1>0 DEF Decodable
  <2>3. CASE j = Len(log) + 1
    <3>1. i \in Decodable(activeBase, Len(log))
      BY <2>2 DEF Decodable
    <3>2. \A k \in (i + 1) .. Len(log) : log[k].dec # "ok"
      BY <2>1, <2>2, <2>3, <1>0
    <3>3. LastSha(activeBase, Len(log)) = log[i].sha
      BY <3>1, <3>2, <1>0, LastShaIs
    <3>4. activeBase < Len(log)
      BY <2>2, <1>0
    <3> QED
      BY <3>3, <3>4, <2>1, <2>2, <2>3
  <2>4. CASE j # Len(log) + 1
    <3>1. /\ j \in (activeBase + 1) .. Len(log) /\ j \in 1 .. Len(log)
          /\ log[j] = log'[j] /\ log[j].dec = "ok"
      BY <2>1, <2>4, <1>0 DEF Decodable
    <3>2. \A k \in (i + 1) .. (j - 1) : log[k].dec # "ok"
      BY <2>1, <2>2, <3>1, <1>0
    <3> QED
      BY <3>1, <3>2, <2>2 DEF ActiveLinked, Linked, Decodable
  <2> QED
    BY <2>3, <2>4
<1> QED
  BY <1>1, <1>2

\* The same for what an interrupted write leaves.
LEMMA InterruptedLinked ==
  ASSUME ActiveInv, NEW t \in Threads, pc[t] = "write",
         log' \in Interrupted(Entry(sha[t], prev[t])),
         activeBase' = activeBase, blind' = blind
  PROVE  ActiveLinked'
<1>1. TypeOK /\ ActiveLinked
  BY DEF ActiveInv, BaseInv
<1>2. CASE log' = log
  BY <1>2, <1>1 DEF ActiveLinked, Linked, Decodable
<1>3. CASE log' # log
  <2>1. PICK d \in Decodings : log' = Put(Cut(Entry(sha[t], prev[t]), d))
    BY <1>3 DEF Interrupted
  <2> DEFINE l == Cut(Entry(sha[t], prev[t]), d)
  <2>2. l \in Line /\ l.prev = prev[t] /\ l.sha = sha[t]
    BY <1>1 DEF Cut, Entry, Line, TypeOK
  <2>3. activeBase < Len(log) => \/ l.prev = LastSha(activeBase, Len(log))
                                 \/ l.sha \in blind /\ l.prev = NoHash
    BY <2>2 DEF ActiveInv, PrevInv
  <2> HIDE DEF l
  <2> QED
    BY <2>1, <2>2, <2>3, <1>1, PutLinked DEF l
<1> QED
  BY <1>2, <1>3

\* Steps that leave the active file alone keep it linked.
LEMMA ActiveFrame ==
  ASSUME ActiveLinked, UNCHANGED <<log, activeBase>>, blind \subseteq blind'
  PROVE  /\ ActiveLinked'
         /\ LastSha(activeBase, Len(log))' = LastSha(activeBase, Len(log))
BY DEF ActiveLinked, Linked, Decodable, LastSha, NewestDecodable

\* Every step keeps the active file linked and the writer's hash current.
LEMMA ActiveStep == ActiveInv /\ [Next]_vars => ActiveInv'
<1> SUFFICES ASSUME ActiveInv, [Next]_vars
             PROVE  ActiveInv'
  OBVIOUS
<1>0. TypeOK /\ LockInv /\ PrevInv /\ ActiveLinked /\ BaseInv'
  BY BaseStep DEF ActiveInv, BaseInv
<1> SUFFICES PrevInv' /\ ActiveLinked'
  BY <1>0 DEF ActiveInv
<1>1. ASSUME NEW t \in Threads, Begin(t)
      PROVE  PrevInv' /\ ActiveLinked'
  <2>1. UNCHANGED <<log, activeBase>> /\ blind \subseteq blind'
    BY <1>1, <1>0, ReadRecords DEF Begin, files
  <2>2. \A u \in Threads : pc'[u] # "idle" => u = t
    BY <1>1, <1>0, ConstantsAssumption DEF Begin, LockInv, TypeOK
  <2>3. activeBase < Len(log) => \/ prev'[t] = LastSha(activeBase, Len(log))
                                 \/ sha'[t] \in blind' /\ prev'[t] = NoHash
    <3>1. sha'[t] = nextSha
      BY <1>1, <1>0 DEF Begin, TypeOK
    <3>2. PICK h \in Nat :
            /\ prev' = [prev EXCEPT ![t] = h]
            /\ h = LastHash \/ (h \in HashOnError /\ nextSha \in blind')
      BY <1>1, <1>0, HashRead
    <3>3. prev'[t] = h
      BY <3>2, <1>0 DEF TypeOK
    <3> QED
      BY <3>1, <3>2, <3>3 DEF LastHash, HashOnError
  <2> QED
    BY <2>1, <2>2, <2>3, <1>0, ActiveFrame DEF PrevInv
<1>2. ASSUME NEW t \in Threads,
             PrepareFails(t) \/ Rotate(t) \/ MarkerWrite(t) \/ MarkerFails(t)
               \/ Mirror(t) \/ Sign(t) \/ SignerFails(t)
      PROVE  PrevInv' /\ ActiveLinked'
  <2>1. UNCHANGED <<log, activeBase, prev, sha, blind>>
    BY <1>2 DEF PrepareFails, Rotate, MarkerWrite, MarkerFails, Mirror, Sign,
                SignerFails, files, local
  <2>2. \A u \in Threads :
          pc'[u] \in {"rotate", "marker", "replace", "write"} =>
            pc[u] \in {"rotate", "marker", "replace", "write"}
    <3>1. CASE pc' = [pc EXCEPT ![t] = "idle"]
      BY <3>1, <1>0 DEF TypeOK
    <3>2. CASE pc' = [pc EXCEPT ![t] = "sign"]
      BY <3>2, <1>0 DEF TypeOK
    <3>3. CASE Rotate(t) \/ MarkerWrite(t) \/ MarkerFails(t)
      BY <3>3, <1>0 DEF Rotate, MarkerWrite, MarkerFails, Goto, End, TypeOK
    <3> QED
      BY <3>1, <3>2, <3>3, <1>2
         DEF PrepareFails, Mirror, Sign, SignerFails, Goto, End
  <2> QED
    BY <2>1, <2>2, <1>0, ActiveFrame DEF PrevInv
<1>3. ASSUME NEW t \in Threads, Replace(t)
      PROVE  PrevInv' /\ ActiveLinked'
  <2>1. log' = log /\ activeBase' = Len(log) /\ Len(log) \in Nat
    BY <1>3, <1>0 DEF Replace, TypeOK
  <2> QED
    BY <2>1 DEF PrevInv, ActiveLinked, Linked, Decodable
<1>4. ASSUME NEW t \in Threads, Write(t)
      PROVE  PrevInv' /\ ActiveLinked'
  <2> DEFINE e == Entry(sha[t], prev[t])
  <2>1. e \in Line /\ e.prev = prev[t] /\ e.sha = sha[t]
    BY <1>0 DEF Entry, Line, TypeOK, Decodings
  <2>2. activeBase < Len(log) => \/ e.prev = LastSha(activeBase, Len(log))
                                 \/ e.sha \in blind /\ e.prev = NoHash
    BY <1>4, <1>0, <2>1 DEF Write, PrevInv
  <2>20. log' = Put(e) /\ activeBase' = activeBase /\ blind' = blind
    BY <1>4 DEF Write, local
  <2>3. ActiveLinked'
    <3> HIDE DEF e
    <3> QED
      BY <1>0, <2>1, <2>2, <2>20, PutLinked
  <2>4. \A u \in Threads :
          pc'[u] \notin {"rotate", "marker", "replace", "write"}
    BY <1>4, <1>0 DEF Write, Goto, LockInv, TypeOK
  <2> QED
    BY <2>3, <2>4 DEF PrevInv
<1>5. ASSUME NEW t \in Threads, Fails(t)
      PROVE  PrevInv' /\ ActiveLinked'
  <2>1. ActiveLinked'
    <3>1. CASE log' = log
      BY <3>1, <1>5, <1>0, ActiveFrame DEF Fails, local
    <3>2. CASE log' # log
      BY <3>2, <1>5, InterruptedLinked DEF Fails, local
    <3> QED
      BY <3>1, <3>2
  <2>2. \A u \in Threads : pc'[u] = "idle"
    BY <1>5, <1>0 DEF Fails, End, LockInv, TypeOK
  <2> QED
    BY <2>1, <2>2 DEF PrevInv
<1>6. CASE Crash
  <2>1. ActiveLinked'
    <3>1. CASE log' = log
      BY <3>1, <1>6, <1>0, ActiveFrame DEF Crash, local
    <3>2. CASE log' # log
      <4>1. PICK t \in Threads :
              pc[t] = "write" /\ log' \in Interrupted(Entry(sha[t], prev[t]))
        BY <3>2, <1>6 DEF Crash
      <4> QED
        BY <4>1, <1>6, InterruptedLinked DEF Crash, local
    <3> QED
      BY <3>1, <3>2
  <2> QED
    BY <2>1, <1>6 DEF PrevInv, Crash
<1>7. CASE UNCHANGED vars
  <2>1. UNCHANGED <<log, activeBase, prev, pc, sha, blind>>
    BY <1>7 DEF vars
  <2> QED
    BY <2>1, <1>0, ActiveFrame DEF PrevInv
<1> QED
  BY <1>1, <1>2, <1>3, <1>4, <1>5, <1>6, <1>7 DEF Next, Step

\* Whatever is torn, rotated, failed or crashed, verify_full_ledger finds a
\* sha256_prev_mismatch in the active file only at an entry whose writer could
\* not read it, and such an entry names no predecessor.
THEOREM ActiveFileLinked == Spec => []ActiveLinked
<1>1. Init => ActiveInv
  <2>1. Init => PrevInv /\ ActiveLinked
    BY DEF Init, PrevInv, ActiveLinked, Linked, Decodable
  <2> QED
    BY <2>1, BaseInit DEF ActiveInv
<1>2. ActiveInv => ActiveLinked
  BY DEF ActiveInv
<1> QED
  BY <1>1, <1>2, ActiveStep, PTL DEF Spec

-----------------------------------------------------------------------------
(* One chain across rotations, crashes and failures, with whole lines *)

\* No write leaves a partial line and the marker file can always be opened.
ReliableFiles == "torn" \notin Faults /\ "marker_open" \notin Faults

HeadHash == IF Len(log) = 0 THEN NoHash ELSE log[Len(log)].sha

BeforeWrite == {"rotate", "marker", "replace", "write"}

WholeLines == \A i \in 1 .. Len(log) : log[i].dec = "ok" /\ log[i].nl

Chained ==
  \A i \in 1 .. Len(log) :
    \/ log[i].prev = IF i = 1 THEN NoHash ELSE log[i - 1].sha
    \/ log[i].sha \in blind /\ log[i].prev = NoHash

\* The writer holds the hash of the newest line, also across the rename, or none
\* when it could not be read.
HeldHash ==
  /\ \A t \in Threads :
       pc[t] \in BeforeWrite =>
         prev[t] = HeadHash \/ (sha[t] \in blind /\ prev[t] = NoHash)
  /\ blind # {} => "read" \in Faults

\* When the active file is empty the marker is right or absent, and then the
\* rotated file is there to recover from.
MarkerInv ==
  /\ activeBase = Len(log) => marker \in {NoHash, HeadHash}
  /\ \A t \in Threads : pc[t] = "marker" => marker = NoHash
  /\ \A t \in Threads : pc[t] = "replace" => marker \in {NoHash, HeadHash}
  /\ activeBase > 0 => oldBase < activeBase

\* A returned entry, or one about to be, is on the ledger.
AckInv ==
  /\ \A h \in acked : \E i \in 1 .. Len(log) : log[i].sha = h
  /\ \A t \in Threads :
       pc[t] \in {"mirror", "sign"} =>
         \E i \in 1 .. Len(log) : log[i].sha = sha[t]

\* A digest is used once.
FreshInv ==
  /\ \A i \in 1 .. Len(log) : log[i].sha < nextSha
  /\ \A t \in Threads :
       pc[t] \in BeforeWrite =>
         /\ sha[t] \in 1 .. MaxAppends
         /\ sha[t] < nextSha
         /\ \A i \in 1 .. Len(log) : log[i].sha # sha[t]

ChainInv ==
  /\ BaseInv
  /\ WholeLines
  /\ Chained
  /\ HeldHash
  /\ MarkerInv
  /\ AckInv
  /\ FreshInv

\* _get_last_hash_unlocked finds the newest hash wherever it is kept, and never a
\* wrong one when a read fails.
LEMMA LastHashIsHead ==
  ASSUME ChainInv, \A t \in Threads : pc[t] = "idle"
  PROVE  LastHash = HeadHash /\ HashOnError \subseteq {NoHash, HeadHash}
<1>0. /\ TypeOK
      /\ Len(log) \in Nat /\ activeBase \in Nat /\ oldBase \in Nat
      /\ oldBase =< activeBase /\ activeBase =< Len(log) /\ Len(log) =< Len(log)
  BY DEF ChainInv, BaseInv, TypeOK
<1>1. ASSUME NEW lo \in Nat, lo < Len(log)
      PROVE  LastSha(lo, Len(log)) = HeadHash
  <2>1. Len(log) \in Decodable(lo, Len(log))
    BY <1>0, <1>1 DEF ChainInv, WholeLines, Decodable
  <2>2. LastSha(lo, Len(log)) = log[Len(log)].sha
    BY <1>0, <2>1, LastShaIs
  <2> QED
    BY <2>2, <1>0, <1>1 DEF HeadHash
<1>2. CASE activeBase < Len(log)
  BY <1>2, <1>1, <1>0 DEF LastHash, HashOnError
<1>3. ASSUME activeBase = Len(log)
      PROVE  LastSha(oldBase, activeBase) = HeadHash
  <2>1. CASE Len(log) > 0
    BY <1>3, <2>1, <1>1, <1>0 DEF ChainInv, MarkerInv
  <2>2. CASE Len(log) = 0
    <3>1. LastSha(oldBase, activeBase) = NoHash
      BY <1>3, <2>2, <1>0 DEF LastSha, NewestDecodable, Decodable
    <3> QED
      BY <3>1, <2>2 DEF HeadHash
  <2> QED
    BY <2>1, <2>2, <1>0
<1>4. CASE activeBase = Len(log)
  <2>1. marker \in {NoHash, HeadHash}
    BY <1>4 DEF ChainInv, MarkerInv
  <2> QED
    BY <1>3, <1>4, <2>1, <1>0 DEF LastHash, HashOnError
<1> QED
  BY <1>2, <1>4, <1>0

\* Facts every step of a thread starts from.
LEMMA ChainFacts ==
  ASSUME ChainInv
  PROVE  /\ TypeOK /\ LockInv /\ RotationInv
         /\ log \in Seq(Line) /\ Len(log) \in Nat
         /\ oldBase \in Nat /\ activeBase \in Nat
         /\ oldBase =< activeBase /\ activeBase =< Len(log)
         /\ pc \in [Threads -> Steps]
BY DEF ChainInv, BaseInv, TypeOK

\* A step that writes no line and keeps files, marker and digests.
LEMMA QuietStep ==
  ASSUME ChainInv, BaseInv',
         UNCHANGED <<log, oldBase, activeBase, marker, prev, sha, nextSha,
                     blind>>,
         acked' = acked,
         \A t \in Threads : pc'[t] \in {"idle", pc[t]} \/
                            (pc[t] = "mirror" /\ pc'[t] = "sign")
  PROVE  ChainInv'
<1>0. \A t \in Threads : pc[t] \in Steps
  BY ChainFacts DEF TypeOK
<1>1. WholeLines' /\ Chained' /\ HeadHash' = HeadHash
  BY DEF ChainInv, WholeLines, Chained, HeadHash
<1>2. HeldHash'
  BY <1>0, <1>1 DEF ChainInv, HeldHash, BeforeWrite
<1>3. MarkerInv'
  BY <1>0, <1>1 DEF ChainInv, MarkerInv
<1>4. AckInv'
  BY <1>0 DEF ChainInv, AckInv
<1>5. FreshInv'
  BY <1>0 DEF ChainInv, FreshInv, BeforeWrite
<1> QED
  BY <1>1, <1>2, <1>3, <1>4, <1>5 DEF ChainInv

\* With whole lines an interrupted write leaves the file as it was.
LEMMA InterruptedNothing ==
  ASSUME ReliableFiles, NEW e
  PROVE  Interrupted(e) = {log}
BY DEF ReliableFiles, Interrupted

LEMMA ChainStep == ReliableFiles /\ ChainInv /\ [Next]_vars => ChainInv'
<1> SUFFICES ASSUME ReliableFiles, ChainInv, [Next]_vars
             PROVE  ChainInv'
  OBVIOUS
<1>0. BaseInv'
  BY BaseStep DEF ChainInv
<1>00. \A t, u \in Threads : pc[t] # "idle" /\ u # t => pc[u] = "idle"
  BY ChainFacts DEF LockInv
<1>1. ASSUME NEW t \in Threads, Begin(t)
      PROVE  ChainInv'
  <2>1. \A u \in Threads : pc[u] = "idle"
    BY <1>1, ChainFacts, ConstantsAssumption DEF Begin, LockInv
  <2>2. LastHash = HeadHash /\ HashOnError \subseteq {NoHash, HeadHash}
    BY <2>1, LastHashIsHead
  <2>3. /\ UNCHANGED <<log, oldBase, activeBase, marker, acked>>
        /\ sha' = [sha EXCEPT ![t] = nextSha]
        /\ nextSha' = nextSha + 1
        /\ nextSha \in 1 .. MaxAppends
    BY <1>1, <2>2, ChainFacts, ConstantsAssumption
       DEF Begin, files, TypeOK, Digest
  <2>30. /\ sha'[t] = nextSha
         /\ prev'[t] = HeadHash \/ (nextSha \in blind' /\ prev'[t] = NoHash)
         /\ blind \subseteq blind'
         /\ blind' # {} => "read" \in Faults
    <3>1. PICK h \in Nat :
            /\ prev' = [prev EXCEPT ![t] = h]
            /\ h = LastHash \/ (h \in HashOnError /\ nextSha \in blind')
      BY <1>1, ChainFacts, HashRead
    <3>2. prev'[t] = h /\ sha'[t] = nextSha
      BY <3>1, <2>3, ChainFacts DEF TypeOK
    <3>3. blind \subseteq blind' /\ (blind' # blind => "read" \in Faults)
      BY <1>1, ChainFacts, ReadRecords
    <3> QED
      BY <3>1, <3>2, <3>3, <2>2 DEF ChainInv, HeldHash
  <2>4. /\ \A u \in Threads : u # t => pc'[u] = "idle"
        /\ pc'[t] \in {"rotate", "write"}
    BY <1>1, <2>1, ChainFacts DEF Begin, TypeOK
  <2>5. WholeLines' /\ Chained' /\ HeadHash' = HeadHash
    BY <2>3, <2>30 DEF ChainInv, WholeLines, Chained, HeadHash
  <2>6. HeldHash'
    BY <2>30, <2>4, <2>5 DEF HeldHash, BeforeWrite
  <2>7. MarkerInv'
    BY <2>3, <2>4, <2>5 DEF ChainInv, MarkerInv
  <2>8. AckInv'
    BY <2>3, <2>4 DEF ChainInv, AckInv
  <2>9. FreshInv'
    <3>0. \A i \in 1 .. Len(log) : log[i] \in Line
      BY ChainFacts
    <3>1. \A i \in 1 .. Len(log) : log[i].sha \in Nat /\ log[i].sha < nextSha
      BY <3>0 DEF ChainInv, FreshInv, Line
    <3>2. \A i \in 1 .. Len(log') :
            log'[i].sha < nextSha' /\ log'[i].sha # nextSha
      BY <3>1, <2>3
    <3>3. sha'[t] = nextSha
      BY <2>3, ChainFacts DEF TypeOK
    <3> QED
      BY <3>2, <3>3, <2>3, <2>4 DEF FreshInv, BeforeWrite
  <2> QED
    BY <1>0, <2>5, <2>6, <2>7, <2>8, <2>9 DEF ChainInv
<1>2. ASSUME NEW t \in Threads,
             PrepareFails(t) \/ Mirror(t) \/ SignerFails(t) \/ Fails(t)
      PROVE  ChainInv'
  <2>1. UNCHANGED <<oldBase, activeBase, marker, prev, sha, nextSha, blind,
                    acked>>
    BY <1>2 DEF PrepareFails, Mirror, SignerFails, Fails, files, local
  <2>2. log' = log
    BY <1>2, InterruptedNothing
       DEF PrepareFails, Mirror, SignerFails, Fails, files
  <2>3. \A u \in Threads : pc'[u] \in {"idle", pc[u]} \/
                            (pc[u] = "mirror" /\ pc'[u] = "sign")
    <3>1. CASE pc' = [pc EXCEPT ![t] = "idle"]
      BY <3>1, ChainFacts
    <3>2. CASE Mirror(t)
      BY <3>2, ChainFacts DEF Mirror, Goto
    <3> QED
      BY <1>2, <3>1, <3>2 DEF PrepareFails, SignerFails, Fails, End
  <2> QED
    BY <1>0, <2>1, <2>2, <2>3, QuietStep
<1>3. ASSUME NEW t \in Threads, Rotate(t) \/ MarkerWrite(t) \/ MarkerFails(t)
      PROVE  ChainInv'
  <2>1. /\ UNCHANGED <<log, oldBase, activeBase, prev, sha, nextSha, blind,
                       acked>>
        /\ pc[t] \in {"rotate", "marker"}
    BY <1>3 DEF Rotate, MarkerWrite, MarkerFails, files, local
  <2>2. activeBase < Len(log) /\ HeadHash = log[Len(log)].sha
    BY <2>1, ChainFacts DEF RotationInv, HeadHash
  <2>3. log[Len(log)].dec = "ok"
    BY <2>2, ChainFacts DEF ChainInv, WholeLines
  <2>4. \A u \in Threads : u # t => pc'[u] = "idle"
    <3>1. PICK s \in Steps : pc' = [pc EXCEPT ![t] = s]
      BY <1>3 DEF Rotate, MarkerWrite, MarkerFails, Goto, End, Steps
    <3> QED
      BY <3>1, <2>1, <1>00, ChainFacts
  <2>5. \/ pc'[t] = "marker" /\ marker' = NoHash
        \/ pc'[t] = "replace" /\ marker' \in {NoHash, HeadHash}
    <3>1. CASE Rotate(t)
      BY <3>1, <2>3, ChainFacts DEF Rotate, Goto
    <3>2. CASE MarkerWrite(t)
      BY <3>2, <2>2, ChainFacts DEF MarkerWrite, Goto
    <3>3. CASE MarkerFails(t)
      <4>1. pc[t] = "marker" /\ marker' = marker
        BY <3>3 DEF MarkerFails, Fault, ReliableFiles, files
      <4> QED
        BY <4>1, <3>3, ChainFacts DEF MarkerFails, Goto, ChainInv, MarkerInv
    <3> QED
      BY <1>3, <3>1, <3>2, <3>3
  <2>6. WholeLines' /\ Chained' /\ HeadHash' = HeadHash
    BY <2>1 DEF ChainInv, WholeLines, Chained, HeadHash
  <2>7. HeldHash'
    BY <2>1, <2>4, <2>5, <2>6 DEF ChainInv, HeldHash, BeforeWrite
  <2>8. MarkerInv'
    BY <2>1, <2>2, <2>4, <2>5, <2>6, ChainFacts DEF ChainInv, MarkerInv
  <2>9. AckInv'
    BY <2>1, <2>4, <2>5 DEF ChainInv, AckInv
  <2>10. FreshInv'
    BY <2>1, <2>4, <2>5 DEF ChainInv, FreshInv, BeforeWrite
  <2> QED
    BY <1>0, <2>6, <2>7, <2>8, <2>9, <2>10 DEF ChainInv
<1>4. ASSUME NEW t \in Threads, Replace(t)
      PROVE  ChainInv'
  <2>1. /\ UNCHANGED <<log, marker, prev, sha, nextSha, blind, acked>>
        /\ oldBase' = activeBase /\ activeBase' = Len(log)
        /\ pc[t] = "replace"
    BY <1>4 DEF Replace, local
  <2>2. activeBase < Len(log)
    BY <2>1, ChainFacts DEF RotationInv
  <2>3. pc'[t] = "write" /\ \A u \in Threads : u # t => pc'[u] = "idle"
    BY <1>4, <2>1, <1>00, ChainFacts DEF Replace, Goto
  <2>4. WholeLines' /\ Chained' /\ HeadHash' = HeadHash
    BY <2>1 DEF ChainInv, WholeLines, Chained, HeadHash
  <2>5. HeldHash'
    BY <2>1, <2>3, <2>4 DEF ChainInv, HeldHash, BeforeWrite
  <2>6. MarkerInv'
    BY <2>1, <2>2, <2>3, <2>4, ChainFacts DEF ChainInv, MarkerInv
  <2>7. AckInv'
    BY <2>1, <2>3 DEF ChainInv, AckInv
  <2>8. FreshInv'
    BY <2>1, <2>3 DEF ChainInv, FreshInv, BeforeWrite
  <2> QED
    BY <1>0, <2>4, <2>5, <2>6, <2>7, <2>8 DEF ChainInv
<1>5. ASSUME NEW t \in Threads, Write(t)
      PROVE  ChainInv'
  <2>1. /\ UNCHANGED <<oldBase, activeBase, marker, prev, sha, nextSha, blind,
                       acked>>
        /\ pc[t] = "write"
    BY <1>5 DEF Write, local
  <2>2. pc'[t] = "mirror" /\ \A u \in Threads : u # t => pc'[u] = "idle"
    BY <1>5, <2>1, <1>00, ChainFacts DEF Write, Goto
  <2>3. log' = Append(log, Entry(sha[t], prev[t]))
    BY <1>5, ChainFacts DEF Write, Put, ChainInv, WholeLines
  <2>4. /\ Entry(sha[t], prev[t]).sha = sha[t]
        /\ \/ Entry(sha[t], prev[t]).prev = HeadHash
           \/ sha[t] \in blind /\ Entry(sha[t], prev[t]).prev = NoHash
        /\ Entry(sha[t], prev[t]).dec = "ok" /\ Entry(sha[t], prev[t]).nl
    BY <2>1 DEF Entry, ChainInv, HeldHash, BeforeWrite
  <2>5. /\ Len(log') = Len(log) + 1
        /\ \A i \in 1 .. Len(log) : log'[i] = log[i]
        /\ log'[Len(log) + 1] = Entry(sha[t], prev[t])
    <3> DEFINE e == Entry(sha[t], prev[t])
    <3>1. log' = Append(log, e)
      BY <2>3
    <3>2. log'[Len(log) + 1] = e
      <4> HIDE DEF e
      <4> QED BY <3>1, ChainFacts
    <3> HIDE DEF e
    <3>3. Len(log') = Len(log) + 1 /\ \A i \in 1 .. Len(log) : log'[i] = log[i]
      BY <3>1, ChainFacts
    <3> QED
      BY <3>2, <3>3 DEF e
  <2>6. WholeLines'
    BY <2>4, <2>5, ChainFacts DEF ChainInv, WholeLines
  <2>7. Chained'
    <3>1. ASSUME NEW i \in 1 .. Len(log')
          PROVE  \/ log'[i].prev = IF i = 1 THEN NoHash ELSE log'[i - 1].sha
                 \/ log'[i].sha \in blind /\ log'[i].prev = NoHash
      <4>1. CASE i = Len(log) + 1
        <5>1. \/ log'[i].prev = HeadHash
              \/ log'[i].sha \in blind /\ log'[i].prev = NoHash
          BY <4>1, <2>4, <2>5
        <5>2. i # 1 => i - 1 \in 1 .. Len(log)
          BY <4>1, ChainFacts
        <5> QED
          BY <5>1, <5>2, <4>1, <2>5, ChainFacts DEF HeadHash
      <4>2. CASE i # Len(log) + 1
        <5>1. i \in 1 .. Len(log) /\ (i # 1 => i - 1 \in 1 .. Len(log))
          BY <4>2, <2>5, ChainFacts
        <5>2. log'[i].prev = log[i].prev /\ log'[i].sha = log[i].sha
          BY <5>1, <2>5
        <5>3. i # 1 => log'[i - 1].sha = log[i - 1].sha
          BY <5>1, <2>5
        <5> QED
          BY <5>1, <5>2, <5>3 DEF ChainInv, Chained
      <4> QED
        BY <4>1, <4>2
    <3> QED
      BY <3>1, <2>1 DEF Chained
  <2>8. HeldHash'
    BY <2>1, <2>2 DEF ChainInv, HeldHash, BeforeWrite
  <2>9. MarkerInv'
    BY <2>1, <2>2, <2>5, ChainFacts DEF ChainInv, MarkerInv
  <2>10. AckInv'
    <3>1. \A h \in acked' : \E i \in 1 .. Len(log') : log'[i].sha = h
      BY <2>1, <2>5, ChainFacts DEF ChainInv, AckInv
    <3>2. \E i \in 1 .. Len(log') : log'[i].sha = sha'[t]
      BY <2>1, <2>4, <2>5, ChainFacts
    <3> QED
      BY <3>1, <3>2, <2>2 DEF AckInv
  <2>11. FreshInv'
    <3>1. sha[t] < nextSha
      BY <2>1 DEF ChainInv, FreshInv, BeforeWrite
    <3>2. \A i \in 1 .. Len(log') : log'[i].sha < nextSha'
      BY <3>1, <2>1, <2>4, <2>5, ChainFacts DEF ChainInv, FreshInv
    <3> QED
      BY <3>2, <2>2 DEF FreshInv, BeforeWrite
  <2> QED
    BY <1>0, <2>6, <2>7, <2>8, <2>9, <2>10, <2>11 DEF ChainInv
<1>6. ASSUME NEW t \in Threads, Sign(t)
      PROVE  ChainInv'
  <2>1. /\ UNCHANGED <<log, oldBase, activeBase, marker, prev, sha, nextSha,
                       blind>>
        /\ acked' = acked \union {sha[t]}
        /\ pc[t] = "sign"
    BY <1>6 DEF Sign, local
  <2>2. \A u \in Threads : pc'[u] = "idle"
    BY <1>6, <2>1, <1>00, ChainFacts DEF Sign, End
  <2>3. WholeLines' /\ Chained' /\ HeadHash' = HeadHash
    BY <2>1 DEF ChainInv, WholeLines, Chained, HeadHash
  <2>4. HeldHash' /\ MarkerInv'
    BY <2>1, <2>2, <2>3 DEF ChainInv, HeldHash, MarkerInv, BeforeWrite
  <2>5. AckInv'
    BY <2>1, <2>2 DEF ChainInv, AckInv
  <2>6. FreshInv'
    BY <2>1, <2>2 DEF ChainInv, FreshInv, BeforeWrite
  <2> QED
    BY <1>0, <2>3, <2>4, <2>5, <2>6 DEF ChainInv
<1>7. CASE Crash
  <2>1. UNCHANGED <<oldBase, activeBase, marker, prev, sha, nextSha, blind,
                    acked>>
    BY <1>7 DEF Crash, local
  <2>2. log' = log
    BY <1>7, InterruptedNothing DEF Crash
  <2>3. \A u \in Threads : pc'[u] = "idle"
    BY <1>7 DEF Crash
  <2> QED
    BY <1>0, <2>1, <2>2, <2>3, QuietStep
<1>9. CASE UNCHANGED vars
  BY <1>0, <1>9, QuietStep DEF vars
<1> QED
  BY <1>1, <1>2, <1>3, <1>4, <1>5, <1>6, <1>7, <1>9 DEF Next, Step

LEMMA ChainInit == Init => ChainInv
<1>1. Init => WholeLines /\ Chained /\ HeldHash
  BY DEF Init, WholeLines, Chained, HeldHash, BeforeWrite
<1>2. Init => MarkerInv /\ AckInv
  BY DEF Init, MarkerInv, AckInv, HeadHash
<1>3. Init => FreshInv
  BY DEF Init, FreshInv, BeforeWrite
<1> QED
  BY <1>1, <1>2, <1>3, BaseInit DEF ChainInv

LEMMA ChainAlways == ASSUME ReliableFiles PROVE Spec => []ChainInv
BY ChainInit, ChainStep, PTL DEF Spec

\* While no line is torn and the marker file can be opened, the hash chain is
\* broken neither by a rotation nor by a crash at any step or a failed append; an
\* entry whose writer could not read the previous hash names none, never a wrong
\* one.
THEOREM ChainUnbroken ==
  ASSUME ReliableFiles
  PROVE  Spec => []ChainContinuity
<1>1. ASSUME ChainInv
      PROVE  ChainContinuity
  <2>1. \A i \in 1 .. Len(log) : log[i].dec = "ok"
    BY <1>1 DEF ChainInv, WholeLines
  <2>2. Linked(0, Len(log))
    <3>1. ASSUME NEW j \in 1 .. Len(log), NEW i \in 1 .. Len(log), i < j,
                 \A k \in (i + 1) .. (j - 1) : log[k].dec # "ok"
          PROVE  \/ log[j].prev = log[i].sha
                 \/ log[j].sha \in blind /\ log[j].prev = NoHash
      <4>1. i = j - 1
        <5>1. i + 1 \in 1 .. Len(log)
          BY <3>1, <1>1, ChainFacts
        <5>2. i + 1 \notin (i + 1) .. (j - 1)
          BY <3>1, <5>1, <2>1
        <5> QED
          BY <3>1, <5>2
      <4> QED
        BY <4>1, <1>1 DEF ChainInv, Chained
    <3> QED
      BY <3>1 DEF Linked, Decodable
  <2>3. ASSUME NEW j \in 1 .. Len(log),
               \A k \in 1 .. (j - 1) : log[k].dec # "ok"
        PROVE  log[j].prev = NoHash
    <3>1. j = 1
      <4>1. 1 \in 1 .. Len(log)
        BY <1>1, ChainFacts
      <4> QED
        BY <4>1, <2>1, <2>3
    <3> QED
      BY <3>1, <1>1 DEF ChainInv, Chained
  <2> QED
    BY <2>2, <2>3 DEF ChainContinuity, Decodable
<1> QED
  BY <1>1, ChainAlways, PTL

\* Under the same assumption an entry append_trust_log has returned is never
\* lost from the chain.
THEOREM AckedEntriesDurable ==
  ASSUME ReliableFiles
  PROVE  Spec => []AckedDurable
<1>1. ASSUME ChainInv
      PROVE  AckedDurable
  <2>1. Decodable(0, Len(log)) = 1 .. Len(log)
    BY <1>1 DEF ChainInv, WholeLines, Decodable
  <2> QED
    BY <2>1, <1>1 DEF AckedDurable, ChainInv, AckInv
<1> QED
  BY <1>1, ChainAlways, PTL

-----------------------------------------------------------------------------
(* The ledger implements the abstract chain *)

Link(l) == [sha |-> l.sha, prev |-> l.prev]

\* A function on 1 .. n is a sequence of length n.
LEMMA FunctionIsSeq ==
  ASSUME NEW S, NEW n \in Nat, NEW f \in [1 .. n -> S]
  PROVE  f \in Seq(S) /\ Len(f) = n
<1>1. f \in Seq(S)
  BY SeqDef
<1> QED
  BY <1>1, LenProperties

\* The abstract chain has one link per line.
LEMMA ChainIs ==
  ASSUME TypeOK
  PROVE  /\ Chain \in Seq([sha : Nat, prev : Nat])
         /\ Len(Chain) = Len(log)
         /\ \A i \in 1 .. Len(log) : Chain[i] = Link(log[i])
         /\ DOMAIN Chain = 1 .. Len(log)
<1>1. Len(log) \in Nat /\ \A i \in 1 .. Len(log) : log[i] \in Line
  BY DEF TypeOK
<1>2. \A i \in 1 .. Len(log) : Link(log[i]) \in [sha : Nat, prev : Nat]
  BY <1>1 DEF Line, Link
<1>3. Chain = [i \in 1 .. Len(log) |-> Link(log[i])]
  BY DEF Chain, Link
<1>4. Chain \in [1 .. Len(log) -> [sha : Nat, prev : Nat]]
  BY <1>2, <1>3
<1>5. Chain \in Seq([sha : Nat, prev : Nat]) /\ Len(Chain) = Len(log)
  BY <1>1, <1>4, FunctionIsSeq
<1> QED
  BY <1>3, <1>4, <1>5

\* Every step of the program is an abstract append, an abstract
\* acknowledgement or leaves chain and acked alone.
LEMMA AbstractStep ==
  ASSUME ReliableFiles, ChainInv, ChainInv', [Next]_vars
  PROVE  [Abstract!Next]_<<Chain, acked>>
<1>0. TypeOK /\ TypeOK'
  BY DEF ChainInv, BaseInv
<1>1. ASSUME NEW t \in Threads, Write(t)
      PROVE  Abstract!AppendEntry
  <2> DEFINE link == [sha |-> sha[t], prev |-> prev[t]]
  <2>1. /\ prev[t] = HeadHash \/ (prev[t] = 0 /\ "read" \in Faults)
        /\ sha[t] \in 1 .. MaxAppends
        /\ \A i \in 1 .. Len(log) : log[i].sha # sha[t]
    BY <1>1 DEF Write, ChainInv, HeldHash, FreshInv, BeforeWrite, NoHash
  <2>2. log' = Append(log, Entry(sha[t], prev[t]))
    BY <1>1, <2>1, ChainFacts DEF Write, Put, ChainInv, WholeLines
  <2>3. Chain' = Append(Chain, link)
    <3> DEFINE e == Entry(sha[t], prev[t])
    <3>1. Link(e) = link
      BY DEF Link, Entry
    <3>2. log' = Append(log, e)
      BY <2>2
    <3> HIDE DEF e, link
    <3>3. /\ Len(log') = Len(log) + 1
          /\ \A i \in 1 .. Len(log) : log'[i] = log[i]
          /\ log'[Len(log) + 1] = e
      BY <3>2, ChainFacts
    <3>4. Chain' = [i \in 1 .. (Len(log) + 1) |-> Link(log'[i])]
      BY <3>3 DEF Chain, Link
    <3>5. \A i \in 1 .. (Len(log) + 1) :
            Link(log'[i]) = IF i = Len(log) + 1 THEN link ELSE Chain[i]
      BY <3>1, <3>3, <1>0, ChainIs, ChainFacts
    <3>6. link \in [sha : Nat, prev : Nat]
      BY <1>0, <2>1 DEF link, TypeOK
    <3>7. /\ Append(Chain, link) \in Seq([sha : Nat, prev : Nat])
          /\ Len(Append(Chain, link)) = Len(log) + 1
          /\ \A i \in 1 .. Len(log) : Append(Chain, link)[i] = Chain[i]
          /\ Append(Chain, link)[Len(log) + 1] = link
      BY <3>6, <1>0, ChainIs, AppendProperties
    <3>8. \A i \in 1 .. (Len(log) + 1) :
            Append(Chain, link)[i] = Link(log'[i])
      BY <3>5, <3>7, ChainFacts
    <3>9. \A i \in 1 .. (Len(log) + 1) : Link(log'[i]) \in [sha : Nat, prev : Nat]
      <4>1. \A i \in 1 .. Len(log) : Chain[i] \in [sha : Nat, prev : Nat]
        BY <1>0, ChainIs, ElementOfSeq
      <4>2. ASSUME NEW i \in 1 .. (Len(log) + 1), i # Len(log) + 1
            PROVE  i \in 1 .. Len(log)
        BY <4>2, ChainFacts
      <4> HIDE DEF Link
      <4> QED
        BY <4>1, <4>2, <3>5, <3>6
    <3>10. Chain' \in Seq([sha : Nat, prev : Nat]) /\ Len(Chain') = Len(log) + 1
      <4>1. Len(log) + 1 \in Nat
        BY ChainFacts
      <4>2. Chain' \in [1 .. (Len(log) + 1) -> [sha : Nat, prev : Nat]]
        BY <3>4, <3>9
      <4> QED
        BY <4>1, <4>2, FunctionIsSeq
    <3>11. \A i \in 1 .. Len(Chain') : Chain'[i] = Append(Chain, link)[i]
      BY <3>4, <3>8, <3>10
    <3> QED
      BY <3>7, <3>10, <3>11, SeqEqual
  <2>4. Abstract!Head0 = HeadHash
    <3>1. CASE Len(log) = 0
      BY <3>1, <1>0, ChainIs DEF Abstract!Head0, HeadHash, NoHash
    <3>2. CASE Len(log) # 0
      <4>1. Len(log) \in 1 .. Len(log) /\ Chain # <<>>
        BY <3>2, <1>0, ChainIs, ChainFacts
      <4> QED
        BY <4>1, <3>2, <1>0, ChainIs DEF Abstract!Head0, HeadHash, Link
    <3> QED
      BY <3>1, <3>2
  <2>5. \A i \in 1 .. Len(Chain) : Chain[i].sha # sha[t]
    BY <2>1, <1>0, ChainIs DEF Link
  <2>6. acked' = acked
    BY <1>1 DEF Write
  <2> QED
    BY <2>1, <2>3, <2>4, <2>5, <2>6 DEF Abstract!AppendEntry
<1>2. ASSUME NEW t \in Threads, Sign(t)
      PROVE  Abstract!Acknowledge
  <2>1. log' = log /\ acked' = acked \union {sha[t]} /\ pc[t] = "sign"
    BY <1>2 DEF Sign
  <2>2. PICK i \in 1 .. Len(log) : log[i].sha = sha[t]
    BY <2>1 DEF ChainInv, AckInv
  <2>3. i \in 1 .. Len(Chain) /\ Chain[i].sha = sha[t]
    BY <2>2, <1>0, ChainIs DEF Link
  <2>4. Chain' = Chain
    BY <2>1 DEF Chain
  <2> QED
    BY <2>1, <2>3, <2>4 DEF Abstract!Acknowledge
<1>3. CASE UNCHANGED <<log, acked>>
  BY <1>3 DEF Chain
<1>4. ASSUME NEW t \in Threads, Begin(t) \/ PrepareFails(t) \/ Rotate(t)
             \/ MarkerWrite(t) \/ MarkerFails(t) \/ Replace(t) \/ Mirror(t)
             \/ SignerFails(t) \/ Fails(t)
      PROVE  UNCHANGED <<log, acked>>
  BY <1>4, InterruptedNothing
     DEF Begin, PrepareFails, Rotate, MarkerWrite, MarkerFails, Replace, Mirror,
         SignerFails, Fails, files
<1>5. Crash => UNCHANGED <<log, acked>>
  BY InterruptedNothing DEF Crash
<1>6. UNCHANGED vars => UNCHANGED <<log, acked>>
  BY DEF vars
<1> QED
  BY <1>1, <1>2, <1>3, <1>4, <1>5, <1>6 DEF Next, Step, Abstract!Next

\* The file-backed ledger implements the abstract chain: threads, rotation,
\* crashes and failed writes never show in it, and a failed read shows as a link
\* to nothing.
THEOREM LedgerImplementsHashChain ==
  ASSUME ReliableFiles
  PROVE  Spec => ImplementsHashChain
<1>1. Init => Abstract!Init
  <2>1. Init => TypeOK
    BY BaseInit DEF BaseInv
  <2> QED
    BY <2>1, ChainIs DEF Init, Abstract!Init
<1>2. ChainInv /\ ChainInv' /\ [Next]_vars => [Abstract!Next]_<<Chain, acked>>
  BY AbstractStep
<1> QED
  BY <1>1, <1>2, ChainAlways, PTL DEF Spec, ImplementsHashChain, Abstract!Spec
-----------------------------------------------------------------------------
(* The trust_log.json mirror and the witness ledger *)

Increasing(s) == \A i, j \in 1 .. Len(s) : i < j => s[i] < s[j]

\* The digests of s are older than h.
Below(s, h) == \A i \in 1 .. Len(s) : s[i] < h

Holds(s, h) == \E i \in 1 .. Len(s) : s[i] = h

\* What appending to the mirror does: the new digest comes last, and when the
\* mirror is full exactly the oldest one is dropped (_save_json).
LEMMA NewestOfAppend ==
  ASSUME NEW s \in Seq(Nat), NEW h \in Nat, Len(s) =< MaxItems
  PROVE  \/ /\ Len(s) < MaxItems
            /\ Len(Newest(Append(s, h))) = Len(s) + 1
            /\ \A i \in 1 .. Len(s) : Newest(Append(s, h))[i] = s[i]
            /\ Newest(Append(s, h))[Len(s) + 1] = h
         \/ /\ Len(s) = MaxItems
            /\ Len(Newest(Append(s, h))) = MaxItems
            /\ \A i \in 1 .. (MaxItems - 1) :
                 Newest(Append(s, h))[i] = s[i + 1]
            /\ Newest(Append(s, h))[MaxItems] = h
<1> DEFINE a == Append(s, h)
<1>0. Len(s) \in Nat /\ MaxItems \in Nat /\ MaxItems > 0
  BY ConstantsAssumption
<1>1. /\ a \in Seq(Nat) /\ Len(a) = Len(s) + 1
      /\ \A i \in 1 .. Len(s) : a[i] = s[i]
      /\ a[Len(s) + 1] = h
  OBVIOUS
<1> HIDE DEF a
<1>2. CASE Len(s) < MaxItems
  <2>1. Newest(a) = a
    BY <1>0, <1>1, <1>2 DEF Newest
  <2> QED
    BY <1>1, <1>2, <2>1 DEF a
<1>3. CASE Len(s) = MaxItems
  <2>1. Newest(a) = SubSeq(a, 2, MaxItems + 1)
    <3>1. Len(a) > MaxItems /\ Len(a) - MaxItems + 1 = 2
          /\ Len(a) = MaxItems + 1
      BY <1>0, <1>1, <1>3
    <3> QED
      BY <3>1 DEF Newest
  <2>2. \A i \in 2 .. (MaxItems + 1) : a[i] \in Nat
    BY <1>0, <1>1, <1>3
  <2>3. /\ Len(SubSeq(a, 2, MaxItems + 1)) = MaxItems
        /\ \A i \in 1 .. MaxItems : SubSeq(a, 2, MaxItems + 1)[i] = a[i + 1]
    BY <1>0, <1>1, <1>3, <2>2, SubSeqProperties
  <2>4. \A i \in 1 .. (MaxItems - 1) : a[i + 1] = s[i + 1]
    BY <1>0, <1>1, <1>3
  <2>5. a[MaxItems + 1] = h
    BY <1>1, <1>3
  <2>6. \A i \in 1 .. (MaxItems - 1) : Newest(a)[i] = s[i + 1]
    BY <1>0, <2>1, <2>3, <2>4
  <2>7. Newest(a)[MaxItems] = h
    BY <1>0, <2>1, <2>3, <2>5
  <2> QED
    BY <1>3, <2>1, <2>3, <2>6, <2>7 DEF a
<1> QED
  BY <1>0, <1>2, <1>3

\* A newest element added at the end, with or without the oldest one dropped,
\* keeps a sequence in order.
LEMMA IncreasingAppend ==
  ASSUME NEW s \in Seq(Nat), NEW r, NEW h \in Nat,
         Len(r) = Len(s) + 1, \A i \in 1 .. Len(s) : r[i] = s[i],
         r[Len(s) + 1] = h, Increasing(s), Below(s, h)
  PROVE  Increasing(r)
<1>0. Len(s) \in Nat /\ \A i \in 1 .. Len(s) : s[i] \in Nat
  OBVIOUS
<1>1. ASSUME NEW i \in 1 .. Len(r), NEW j \in 1 .. Len(r), i < j
      PROVE  r[i] < r[j]
  <2>1. i \in 1 .. Len(s) /\ r[i] = s[i]
    BY <1>0, <1>1
  <2>2. CASE j = Len(s) + 1
    BY <2>1, <2>2 DEF Below
  <2>3. CASE j # Len(s) + 1
    <3>1. j \in 1 .. Len(s) /\ r[j] = s[j]
      BY <1>0, <2>3
    <3> QED
      BY <2>1, <3>1, <1>1 DEF Increasing
  <2> QED
    BY <2>2, <2>3
<1> QED
  BY <1>1 DEF Increasing

\* Trimming the old end keeps the order.
LEMMA IncreasingShift ==
  ASSUME NEW s \in Seq(Nat), NEW r, NEW h \in Nat, Len(s) > 0,
         Len(r) = Len(s), \A i \in 1 .. (Len(s) - 1) : r[i] = s[i + 1],
         r[Len(s)] = h, Increasing(s), Below(s, h)
  PROVE  Increasing(r)
<1>0. Len(s) \in Nat /\ \A i \in 1 .. Len(s) : s[i] \in Nat
  OBVIOUS
<1>1. ASSUME NEW i \in 1 .. Len(r), NEW j \in 1 .. Len(r), i < j
      PROVE  r[i] < r[j]
  <2>1. i + 1 \in 1 .. Len(s) /\ r[i] = s[i + 1]
    BY <1>0, <1>1
  <2>2. CASE j = Len(s)
    BY <2>1, <2>2 DEF Below
  <2>3. CASE j # Len(s)
    <3>1. j + 1 \in 1 .. Len(s) /\ r[j] = s[j + 1] /\ i + 1 < j + 1
      BY <1>0, <1>1, <2>3
    <3> QED
      BY <2>1, <3>1 DEF Increasing
  <2> QED
    BY <2>2, <2>3
<1> QED
  BY <1>1 DEF Increasing

\* The mirror is ordered and never longer than MaxItems; an entry being
\* appended is newer than all of it until the mirror step, and on it after; its
\* thread has loaded the whole mirror, or nothing when the read failed.
MirrorInv ==
  /\ Len(items) =< MaxItems
  /\ Increasing(items)
  /\ Below(items, nextSha)
  /\ \A t \in Threads :
       pc[t] \in BeforeWrite \union {"mirror"} =>
         /\ sha[t] < nextSha
         /\ Below(items, sha[t])
         /\ loaded[t] = items \/ (loaded[t] = <<>> /\ sha[t] \in reset)
  /\ \A t \in Threads : pc[t] = "sign" => Holds(items, sha[t])
  /\ MirrorComplete

\* A step that leaves the mirror, the digests and the acknowledgements alone and
\* moves no thread past the mirror step keeps MirrorInv.
LEMMA MirrorFrame ==
  ASSUME BaseInv, MirrorInv,
         UNCHANGED <<items, sha, nextSha, loaded, reset, acked>>,
         \A t \in Threads :
           \/ pc'[t] \in {"idle", pc[t]}
           \/ pc[t] \in BeforeWrite /\ pc'[t] \in BeforeWrite \union {"mirror"}
  PROVE  MirrorInv'
<1>1. \A t \in Threads :
        pc'[t] \in BeforeWrite \union {"mirror"} =>
          pc[t] \in BeforeWrite \union {"mirror"}
  BY DEF BeforeWrite
<1>2. \A t \in Threads : pc'[t] = "sign" => pc[t] = "sign"
  BY DEF BeforeWrite
<1>3. \A t \in Threads :
        pc'[t] \in BeforeWrite \union {"mirror"} =>
          /\ sha'[t] < nextSha'
          /\ Below(items', sha'[t])
          /\ loaded'[t] = items' \/ (loaded'[t] = <<>> /\ sha'[t] \in reset')
  BY <1>1 DEF MirrorInv
<1>4. \A t \in Threads : pc'[t] = "sign" => Holds(items', sha'[t])
  BY <1>2 DEF MirrorInv
<1>5. /\ Len(items') =< MaxItems /\ Increasing(items')
      /\ Below(items', nextSha') /\ MirrorComplete'
  BY DEF MirrorInv, MirrorComplete
<1> QED
  BY <1>3, <1>4, <1>5 DEF MirrorInv

\* What thread t, alone inside append_trust_log, does to the program counters.
LEMMA OthersIdle ==
  ASSUME BaseInv, NEW t \in Threads, pc[t] # "idle",
         NEW s \in Steps, pc' = [pc EXCEPT ![t] = s]
  PROVE  pc'[t] = s /\ \A u \in Threads : u # t => pc'[u] = "idle"
BY DEF BaseInv, LockInv, TypeOK

\* Every step keeps the mirror complete.
LEMMA MirrorStep == BaseInv /\ MirrorInv /\ [Next]_vars => MirrorInv'
<1> SUFFICES ASSUME BaseInv, MirrorInv, [Next]_vars
             PROVE  MirrorInv'
  OBVIOUS
<1>0. /\ TypeOK /\ items \in Seq(Nat) /\ Len(items) \in Nat
      /\ MaxItems \in Nat /\ MaxItems > 0
      /\ \A i \in 1 .. Len(items) : items[i] \in Nat
      /\ nextSha \in Nat /\ sha \in [Threads -> Nat]
      /\ pc \in [Threads -> Steps] /\ \A h \in acked : h \in Nat
  BY ConstantsAssumption DEF BaseInv, TypeOK, Digest
<1>1. ASSUME NEW t \in Threads, Begin(t)
      PROVE  MirrorInv'
  <2>1. /\ UNCHANGED <<items, acked>>
        /\ sha' = [sha EXCEPT ![t] = nextSha]
        /\ nextSha' = nextSha + 1
    BY <1>1 DEF Begin, files
  <2>2. /\ pc'[t] \in {"rotate", "write"}
        /\ \A u \in Threads : u # t => pc'[u] = "idle"
    BY <1>1, <1>0, ConstantsAssumption DEF Begin, BaseInv, LockInv
  <2>3. Below(items, nextSha') /\ Below(items, sha'[t]) /\ sha'[t] < nextSha'
    BY <1>0, <2>1 DEF MirrorInv, Below
  <2>4. /\ reset \subseteq reset' /\ sha'[t] = nextSha
        /\ loaded'[t] = items \/ (loaded'[t] = <<>> /\ nextSha \in reset')
    <3>1. PICK s \in Seq(Nat) :
            /\ loaded' = [loaded EXCEPT ![t] = s]
            /\ s = items \/ (s = <<>> /\ nextSha \in reset')
      BY <1>1, <1>0, ItemsRead
    <3>2. loaded'[t] = s /\ sha'[t] = nextSha
      BY <3>1, <2>1, <1>0 DEF TypeOK
    <3>3. reset \subseteq reset'
      BY <1>1, <1>0, ReadRecords
    <3> QED
      BY <3>1, <3>2, <3>3
  <2>5. MirrorComplete'
    BY <2>1, <2>4 DEF MirrorInv, MirrorComplete
  <2> QED
    BY <2>1, <2>2, <2>3, <2>4, <2>5 DEF MirrorInv, BeforeWrite
<1>2. ASSUME NEW t \in Threads, PrepareFails(t)
      PROVE  MirrorInv'
  <2>1. UNCHANGED <<items, sha, nextSha, loaded, reset, acked>>
        /\ pc' = [pc EXCEPT ![t] = "idle"]
    BY <1>2 DEF PrepareFails, End, files, local
  <2>2. \A u \in Threads : pc'[u] \in {"idle", pc[u]}
    BY <2>1, <1>0
  <2> QED
    BY <2>1, <2>2, MirrorFrame
<1>3. ASSUME NEW t \in Threads,
             \/ Rotate(t) \/ MarkerWrite(t) \/ MarkerFails(t) \/ Replace(t)
             \/ Write(t) \/ SignerFails(t) \/ Fails(t)
      PROVE  MirrorInv'
  <2>1. UNCHANGED <<items, sha, nextSha, loaded, reset, acked>>
    BY <1>3 DEF Rotate, MarkerWrite, MarkerFails, Replace, Write, SignerFails,
                Fails, files, local
  <2>2. PICK s \in Steps :
          /\ pc' = [pc EXCEPT ![t] = s]
          /\ s = "idle" \/
             (pc[t] \in BeforeWrite /\ s \in BeforeWrite \union {"mirror"})
    BY <1>3 DEF Rotate, MarkerWrite, MarkerFails, Replace, Write, SignerFails,
                Fails, Goto, End, BeforeWrite, Steps
  <2>3. \A u \in Threads :
           \/ pc'[u] \in {"idle", pc[u]}
           \/ pc[u] \in BeforeWrite /\ pc'[u] \in BeforeWrite \union {"mirror"}
    BY <2>2, <1>0
  <2> QED
    BY <2>1, <2>3, MirrorFrame
<1>4. ASSUME NEW t \in Threads, Mirror(t)
      PROVE  MirrorInv'
  <2>1. /\ UNCHANGED <<sha, nextSha, reset, acked>> /\ pc[t] = "mirror"
        /\ items' = Newest(Append(loaded[t], sha[t]))
        /\ pc' = [pc EXCEPT ![t] = "sign"]
    BY <1>4 DEF Mirror, local, Goto
  <2>2. pc'[t] = "sign" /\ \A u \in Threads : u # t => pc'[u] = "idle"
    BY <2>1, OthersIdle DEF Steps
  <2>3. /\ sha[t] \in Nat /\ sha[t] < nextSha /\ Below(items, sha[t])
        /\ Len(items) =< MaxItems /\ Increasing(items)
        /\ Below(items, nextSha) /\ MirrorComplete
        /\ loaded[t] = items \/ (loaded[t] = <<>> /\ sha[t] \in reset)
    BY <2>1, <1>0 DEF MirrorInv
  <2>6. CASE loaded[t] = <<>> /\ sha[t] \in reset
    <3>1. items' = <<sha[t]>> /\ Len(items') = 1 /\ items'[1] = sha[t]
      BY <2>1, <2>6, <1>0 DEF Newest
    <3>2. /\ Len(items') =< MaxItems /\ Increasing(items')
          /\ Below(items', nextSha') /\ Holds(items', sha'[t])
      BY <3>1, <2>1, <2>3, <1>0 DEF Increasing, Below, Holds
    <3>3. ASSUME NEW h \in acked
          PROVE  h = sha[t] \/ h < sha[t]
      <4>1. PICK i \in 1 .. Len(items) : h =< items[i]
        <5>1. CASE \E i \in 1 .. Len(items) : items[i] = h
          BY <5>1, <1>0
        <5>2. CASE Len(items) > 0 /\ \A i \in 1 .. Len(items) : h < items[i]
          <6>1. 1 \in 1 .. Len(items)
            BY <5>2, <1>0
          <6> QED
            BY <6>1, <5>2, <1>0
        <5> QED
          BY <5>1, <5>2, <2>3, <1>0 DEF MirrorComplete
      <4> QED
        BY <4>1, <2>3, <1>0 DEF Below
    <3>4. MirrorComplete'
      BY <3>1, <3>3, <2>1, <2>6 DEF MirrorComplete
    <3> QED
      BY <2>2, <3>2, <3>4 DEF MirrorInv, BeforeWrite
  <2>4. CASE /\ Len(items) < MaxItems
             /\ Len(items') = Len(items) + 1
             /\ \A i \in 1 .. Len(items) : items'[i] = items[i]
             /\ items'[Len(items) + 1] = sha[t]
    <3>1. Len(items') =< MaxItems
      BY <2>4, <1>0
    <3>2. Increasing(items')
      BY <2>3, <2>4, <1>0, IncreasingAppend
    <3>3. Below(items', nextSha')
      <4>1. ASSUME NEW i \in 1 .. Len(items')
            PROVE  items'[i] < nextSha
        <5>1. CASE i = Len(items) + 1
          BY <5>1, <2>3, <2>4
        <5>2. CASE i # Len(items) + 1
          <6>1. i \in 1 .. Len(items)
            BY <5>2, <2>4, <1>0
          <6> QED
            BY <6>1, <2>3, <2>4 DEF Below
        <5> QED
          BY <5>1, <5>2
      <4> QED
        BY <4>1, <2>1 DEF Below
    <3>4. Holds(items', sha'[t])
      BY <2>1, <2>4, <1>0 DEF Holds
    <3>5. MirrorComplete'
      <4>1. ASSUME NEW h \in acked
            PROVE  \/ \E i \in 1 .. Len(items') : items'[i] = h
                   \/ /\ \A i \in 1 .. Len(items') : h < items'[i]
                      /\ Len(items') > 0 /\ items'[1] \in reset
        <5>1. CASE \E i \in 1 .. Len(items) : items[i] = h
          BY <5>1, <2>4, <1>0
        <5>2. CASE /\ \A i \in 1 .. Len(items) : h < items[i]
                   /\ Len(items) > 0 /\ items[1] \in reset
          <6>1. 1 \in 1 .. Len(items) /\ items'[1] = items[1]
            BY <5>2, <2>4, <1>0
          <6>2. h < items[1] /\ items[1] < sha[t] /\ h \in Nat
            BY <6>1, <5>2, <2>3, <1>0 DEF Below
          <6>3. h < sha[t]
            BY <6>1, <6>2, <2>3, <1>0
          <6>4. ASSUME NEW i \in 1 .. Len(items')
                PROVE  h < items'[i]
            <7>1. i = Len(items) + 1 \/ i \in 1 .. Len(items)
              BY <2>4, <1>0
            <7> QED
              BY <7>1, <6>3, <5>2, <2>4
          <6> QED
            BY <6>1, <6>4, <5>2, <2>4, <1>0
        <5> QED
          BY <5>1, <5>2, <2>3, <2>4, <1>0 DEF MirrorComplete
      <4> QED
        BY <4>1, <2>1 DEF MirrorComplete
    <3> QED
      BY <2>2, <3>1, <3>2, <3>3, <3>4, <3>5 DEF MirrorInv, BeforeWrite
  <2>5. CASE /\ Len(items) = MaxItems
             /\ Len(items') = MaxItems
             /\ \A i \in 1 .. (MaxItems - 1) : items'[i] = items[i + 1]
             /\ items'[MaxItems] = sha[t]
    <3>1. Len(items') =< MaxItems
      BY <2>5, <1>0
    <3>2. Increasing(items')
      BY <2>3, <2>5, <1>0, IncreasingShift
    <3>3. Below(items', nextSha')
      <4>1. ASSUME NEW i \in 1 .. Len(items')
            PROVE  items'[i] < nextSha
        <5>1. CASE i = MaxItems
          BY <5>1, <2>3, <2>5
        <5>2. CASE i # MaxItems
          <6>1. i + 1 \in 1 .. Len(items) /\ items'[i] = items[i + 1]
            BY <5>2, <2>5, <1>0
          <6> QED
            BY <6>1, <2>3 DEF Below
        <5> QED
          BY <5>1, <5>2
      <4> QED
        BY <4>1, <2>1 DEF Below
    <3>4. Holds(items', sha'[t])
      BY <2>1, <2>5, <1>0 DEF Holds
    <3>5. ASSUME NEW h \in acked
          PROVE  \/ \E i \in 1 .. Len(items') : items'[i] = h
                 \/ Len(items') = MaxItems
                    /\ \A i \in 1 .. Len(items') : h < items'[i]
      <4>1. 1 \in 1 .. Len(items) /\ items[1] \in Nat /\ h \in Nat
        BY <2>5, <1>0
      <4>2. CASE \E i \in 1 .. Len(items) : i > 1 /\ items[i] = h
        <5>1. PICK i \in 1 .. Len(items) : i > 1 /\ items[i] = h
          BY <4>2
        <5>2. i - 1 \in 1 .. (MaxItems - 1) /\ (i - 1) + 1 = i
          BY <5>1, <2>5, <1>0
        <5>3. items'[i - 1] = h
          BY <5>1, <5>2, <2>5
        <5> QED
          BY <5>2, <5>3, <2>5, <1>0
      <4>3. CASE h =< items[1]
        <5>1. ASSUME NEW i \in 1 .. Len(items')
              PROVE  h < items'[i]
          <6>1. CASE i = MaxItems
            BY <6>1, <4>1, <4>3, <2>3, <2>5, <1>0 DEF Below
          <6>2. CASE i # MaxItems
            <7>1. i \in 1 .. (MaxItems - 1) /\ i + 1 \in 1 .. Len(items)
              BY <6>2, <2>5, <1>0
            <7>2. items[1] < items[i + 1]
              BY <7>1, <4>1, <2>3 DEF Increasing
            <7> QED
              BY <7>1, <7>2, <4>1, <4>3, <2>5, <1>0
          <6> QED
            BY <6>1, <6>2
        <5> QED
          BY <5>1, <2>5
      <4> QED
        BY <4>1, <4>2, <4>3, <2>3, <1>0 DEF MirrorComplete
    <3>6. MirrorComplete'
      BY <3>5, <2>1 DEF MirrorComplete
    <3> QED
      BY <2>2, <3>1, <3>2, <3>3, <3>4, <3>6 DEF MirrorInv, BeforeWrite
  <2> QED
    <3>1. CASE loaded[t] = items
      <4>1. items' = Newest(Append(items, sha[t]))
        BY <3>1, <2>1
      <4> HIDE DEF Newest
      <4> QED
        BY <1>0, <4>1, <2>3, <2>4, <2>5, NewestOfAppend
    <3> QED
      BY <3>1, <2>3, <2>6
<1>5. ASSUME NEW t \in Threads, Sign(t)
      PROVE  MirrorInv'
  <2>1. /\ UNCHANGED <<items, sha, nextSha>> /\ pc[t] = "sign"
        /\ acked' = acked \union {sha[t]}
        /\ pc' = [pc EXCEPT ![t] = "idle"]
    BY <1>5 DEF Sign, End, local
  <2>2. \A u \in Threads : pc'[u] = "idle"
    BY <2>1, OthersIdle DEF Steps
  <2>3. Holds(items, sha[t])
    BY <2>1 DEF MirrorInv
  <2>4. MirrorComplete'
    BY <2>1, <2>3, <1>5 DEF MirrorInv, MirrorComplete, Holds, Sign, local
  <2> QED
    BY <2>1, <2>2, <2>4 DEF MirrorInv, BeforeWrite
<1>6. CASE Crash
  <2>1. UNCHANGED <<items, sha, nextSha, loaded, reset, acked>>
        /\ \A u \in Threads : pc'[u] = "idle"
    BY <1>6 DEF Crash, local
  <2> QED
    BY <2>1, MirrorFrame
<1>7. CASE UNCHANGED vars
  BY <1>7, MirrorFrame DEF vars
<1> QED
  BY <1>1, <1>2, <1>3, <1>4, <1>5, <1>6, <1>7 DEF Next, Step

\* Whatever fails, is torn or crashes, trust_log.json misses no entry
\* append_trust_log has returned other than the ones trimmed off its old end.
THEOREM MirrorIsComplete == Spec => []MirrorComplete
<1>1. Init => BaseInv /\ MirrorInv
  <2>1. Init => MirrorInv
    BY ConstantsAssumption
       DEF Init, MirrorInv, MirrorComplete, Increasing, Below, BeforeWrite
  <2> QED
    BY <2>1, BaseInit
<1>2. MirrorInv => MirrorComplete
  BY DEF MirrorInv
<1> QED
  BY <1>1, <1>2, BaseStep, MirrorStep, PTL DEF Spec

\* Witness lines name lines of the full ledger, in its order, and the entry
\* being appended is newer than all of them.
WitnessInv ==
  /\ \A i \in 1 .. Len(witness) :
       \E k \in 1 .. Len(log) : log[k].sha = witness[i]
  /\ Increasing(witness)
  /\ Below(witness, nextSha)
  /\ \A t \in Threads :
       pc[t] # "idle" => sha[t] < nextSha /\ Below(witness, sha[t])

\* With whole lines the ledger only grows: a line once written stays.
LEMMA LinesStay ==
  ASSUME ReliableFiles, ChainInv, [Next]_vars, NEW k \in 1 .. Len(log)
  PROVE  k \in 1 .. Len(log') /\ log'[k] = log[k]
<1>0. log \in Seq(Line) /\ Len(log) \in Nat
  BY ChainFacts
<1>1. CASE log' = log
  BY <1>1
<1>2. ASSUME NEW t \in Threads, Write(t)
      PROVE  k \in 1 .. Len(log') /\ log'[k] = log[k]
  <2>1. log' = Append(log, Entry(sha[t], prev[t]))
    BY <1>2, ChainFacts DEF Write, Put, ChainInv, WholeLines
  <2>2. Entry(sha[t], prev[t]) \in Line
    BY ChainFacts DEF Entry, Line, TypeOK, Decodings
  <2> QED
    BY <1>0, <2>1, <2>2
<1>3. ASSUME NEW t \in Threads,
             \/ Begin(t) \/ PrepareFails(t) \/ Rotate(t) \/ MarkerWrite(t)
             \/ MarkerFails(t) \/ Replace(t) \/ Mirror(t) \/ Sign(t)
             \/ SignerFails(t) \/ Fails(t)
      PROVE  log' = log
  BY <1>3, InterruptedNothing
     DEF Begin, PrepareFails, Rotate, MarkerWrite, MarkerFails, Replace,
         Mirror, Sign, SignerFails, Fails, files
<1>4. CASE Crash
  BY <1>4, <1>1, InterruptedNothing DEF Crash
<1>5. CASE UNCHANGED vars
  BY <1>5, <1>1 DEF vars
<1> QED
  BY <1>1, <1>2, <1>3, <1>4, <1>5 DEF Next, Step

\* Adding the digest of the entry being appended keeps the witness ledger in
\* the order of the full ledger.
LEMMA WitnessAppend ==
  ASSUME ReliableFiles, ChainInv, WitnessInv, [Next]_vars,
         NEW t \in Threads, pc[t] = "sign",
         witness' \in {witness, Append(witness, sha[t])},
         nextSha' = nextSha, \A u \in Threads : pc'[u] = "idle"
  PROVE  WitnessInv'
<1>0. /\ witness \in Seq(Nat) /\ Len(witness) \in Nat /\ sha[t] \in Nat
      /\ \A i \in 1 .. Len(witness) : witness[i] \in Nat
      /\ nextSha \in Nat
  <2>1. TypeOK
    BY ChainFacts
  <2> QED
    BY <2>1 DEF TypeOK, Digest
<1>1. \A h : (\E k \in 1 .. Len(log) : log[k].sha = h) =>
             (\E k \in 1 .. Len(log') : log'[k].sha = h)
  BY LinesStay
<1>2. \E k \in 1 .. Len(log) : log[k].sha = sha[t]
  BY DEF ChainInv, AckInv
<1>3. Below(witness, sha[t]) /\ sha[t] < nextSha /\ Increasing(witness)
      /\ Below(witness, nextSha)
  BY DEF WitnessInv
<1>4. CASE witness' = witness
  BY <1>1, <1>3, <1>4 DEF WitnessInv
<1>5. CASE witness' = Append(witness, sha[t])
  <2>1. /\ Len(witness') = Len(witness) + 1
        /\ \A i \in 1 .. Len(witness) : witness'[i] = witness[i]
        /\ witness'[Len(witness) + 1] = sha[t]
    BY <1>5, <1>0
  <2>2. ASSUME NEW i \in 1 .. Len(witness')
        PROVE  \E k \in 1 .. Len(log) : log[k].sha = witness'[i]
    <3>1. i = Len(witness) + 1 \/ i \in 1 .. Len(witness)
      BY <1>0, <2>1
    <3> QED
      BY <1>2, <2>1, <3>1 DEF WitnessInv
  <2>3. Increasing(witness')
    BY <1>0, <1>3, <2>1, IncreasingAppend
  <2>4. Below(witness', nextSha')
    BY <1>0, <1>3, <2>1 DEF Below
  <2>5. \A i \in 1 .. Len(witness') :
          \E k \in 1 .. Len(log') : log'[k].sha = witness'[i]
    BY <1>1, <2>2
  <2> QED
    BY <2>3, <2>4, <2>5 DEF WitnessInv
<1> QED
  BY <1>4, <1>5

\* Every step keeps the witness lines on the ledger, in its order.
LEMMA WitnessStep ==
  ReliableFiles /\ ChainInv /\ WitnessInv /\ [Next]_vars => WitnessInv'
<1> SUFFICES ASSUME ReliableFiles, ChainInv, WitnessInv, [Next]_vars
             PROVE  WitnessInv'
  OBVIOUS
<1>0. /\ BaseInv /\ TypeOK /\ witness \in Seq(Nat) /\ Len(witness) \in Nat
      /\ \A i \in 1 .. Len(witness) : witness[i] \in Nat
      /\ nextSha \in Nat /\ sha \in [Threads -> Nat]
      /\ pc \in [Threads -> Steps]
  <2>1. BaseInv /\ TypeOK
    BY DEF ChainInv, BaseInv
  <2> QED
    BY <2>1 DEF TypeOK, Digest
<1>1. \A h : (\E k \in 1 .. Len(log) : log[k].sha = h) =>
             (\E k \in 1 .. Len(log') : log'[k].sha = h)
  BY LinesStay
<1>2. ASSUME NEW t \in Threads, Begin(t)
      PROVE  WitnessInv'
  <2>1. /\ witness' = witness
        /\ sha' = [sha EXCEPT ![t] = nextSha]
        /\ nextSha' = nextSha + 1
    BY <1>2 DEF Begin, files
  <2>2. \A u \in Threads : u # t => pc'[u] = "idle"
    BY <1>2, <1>0, ConstantsAssumption DEF Begin, BaseInv, LockInv
  <2>3. /\ Below(witness, nextSha') /\ Below(witness, sha'[t])
        /\ sha'[t] < nextSha'
    BY <1>0, <2>1 DEF WitnessInv, Below
  <2> QED
    BY <1>1, <2>1, <2>2, <2>3 DEF WitnessInv
<1>3. ASSUME UNCHANGED <<witness, sha, nextSha>>,
             \A u \in Threads : pc'[u] # "idle" => pc[u] # "idle"
      PROVE  WitnessInv'
  BY <1>1, <1>3 DEF WitnessInv
<1>4. ASSUME NEW t \in Threads,
             \/ PrepareFails(t) \/ Rotate(t) \/ MarkerWrite(t)
             \/ MarkerFails(t) \/ Replace(t) \/ Write(t) \/ Mirror(t)
             \/ SignerFails(t) \/ Fails(t)
      PROVE  WitnessInv'
  <2>1. UNCHANGED <<witness, sha, nextSha>>
    BY <1>4 DEF PrepareFails, Rotate, MarkerWrite, MarkerFails, Replace, Write,
                Mirror, SignerFails, Fails, files, local
  <2>2. PICK s \in Steps : /\ pc' = [pc EXCEPT ![t] = s]
                           /\ s # "idle" => pc[t] # "idle"
    BY <1>4 DEF PrepareFails, Rotate, MarkerWrite, MarkerFails, Replace, Write,
                Mirror, SignerFails, Fails, Goto, End, Steps
  <2>3. \A u \in Threads : pc'[u] # "idle" => pc[u] # "idle"
    BY <2>2, <1>0
  <2> QED
    BY <2>1, <2>3, <1>3
<1>5. ASSUME NEW t \in Threads, Sign(t)
      PROVE  WitnessInv'
  <2>1. /\ pc[t] = "sign" /\ nextSha' = nextSha
        /\ pc' = [pc EXCEPT ![t] = "idle"]
        /\ witness' \in {witness, Append(witness, sha[t])}
    BY <1>5 DEF Sign, SignEffects, End, local
  <2>2. \A u \in Threads : pc'[u] = "idle"
    BY <1>0, <2>1, OthersIdle DEF Steps
  <2> QED
    BY <2>1, <2>2, WitnessAppend
<1>6. CASE Crash
  <2>1. UNCHANGED <<sha, nextSha>> /\ \A u \in Threads : pc'[u] = "idle"
    BY <1>6 DEF Crash, local
  <2>2. CASE witness' = witness
    BY <2>1, <2>2, <1>3
  <2>3. CASE witness' # witness
    <3>1. PICK t \in Threads :
            pc[t] = "sign" /\ witness' \in {witness, Append(witness, sha[t])}
      BY <1>6, <2>3 DEF Crash, SignEffects
    <3> QED
      BY <2>1, <3>1, WitnessAppend
  <2> QED
    BY <2>2, <2>3
<1>7. CASE UNCHANGED vars
  BY <1>7, <1>3 DEF vars
<1> QED
  BY <1>2, <1>4, <1>5, <1>6, <1>7 DEF Next, Step

\* While no line is torn, every line of the signed witness ledger refers to an
\* entry that is on the full ledger, and the two ledgers have one order,
\* although the witness is written last and may be lost.
THEOREM WitnessIsOnLedger ==
  ASSUME ReliableFiles
  PROVE  Spec => []WitnessFollowsLedger
<1>1. Init => WitnessInv
  BY DEF Init, WitnessInv, Increasing, Below
<1>2. ASSUME ChainInv, WitnessInv
      PROVE  WitnessFollowsLedger
  <2>1. Decodable(0, Len(log)) = 1 .. Len(log)
    BY <1>2 DEF ChainInv, WholeLines, Decodable
  <2> QED
    BY <2>1, <1>2 DEF WitnessFollowsLedger, WitnessInv, Increasing
<1> QED
  BY <1>1, <1>2, ChainInit, ChainStep, WitnessStep, PTL DEF Spec
=============================================================================
