------------------------------ MODULE TrustLog ------------------------------
(***************************************************************************)
(* The file-backed TrustLog: the encrypted hash-chained full ledger        *)
(* (veritas_os/logging/trust_log.py), its rotation (logging/rotate.py),    *)
(* the trust_log.json mirror and the best-effort signed witness ledger     *)
(* (audit/trustlog_signed.py).                                             *)
(*                                                                         *)
(* One process with several threads.  append_trust_log runs under one      *)
(* process-wide lock; its steps are separate actions because the process   *)
(* may crash, or a file operation may fail, between any two of them.       *)
(*                                                                         *)
(* All lines ever written are kept in one sequence, log.  The files on     *)
(* disk are windows of it: trust_log.jsonl holds the lines after           *)
(* activeBase, trust_log_old.jsonl the lines after oldBase up to           *)
(* activeBase; the lines up to oldBase have been overwritten by a later    *)
(* rotation and can no longer be read by the program.                      *)
(***************************************************************************)
EXTENDS Naturals, Sequences

CONSTANTS
  Threads,      \* threads that call append_trust_log
  NoThread,     \* the value of the lock when it is free
  MaxLines,     \* rotation threshold (VERITAS_LOG_MAX_LINES)
  MaxItems,     \* MAX_JSON_ITEMS
  WormHardFail, \* _worm_hard_fail_enabled()
  Faults,       \* the kinds of fault the environment may inject
  MaxAppends,   \* bound: entries prepared
  MaxFaults     \* bound: faults injected

(***************************************************************************)
(* crash:       the process dies and is restarted                          *)
(* io:          an OSError from counting lines, a write, a rename or the   *)
(*              signed ledger                                              *)
(* read:        an OSError while the previous hash or trust_log.json is    *)
(*              read, which the code swallows                              *)
(* torn:        a write interrupted by one of the two leaves a partial     *)
(*              line behind                                                *)
(* marker_open: the last line cannot be read for the marker, or the marker *)
(*              file cannot be opened for writing                          *)
(* signer:      the signing backend raises an exception of its own, which  *)
(*              is not an OSError, ValueError or TypeError                 *)
(***************************************************************************)
FaultKinds == {"crash", "io", "read", "torn", "marker_open", "signer"}

ASSUME ConstantsAssumption ==
  /\ NoThread \notin Threads
  /\ MaxLines \in Nat \ {0}
  /\ MaxItems \in Nat \ {0}
  /\ WormHardFail \in BOOLEAN
  /\ Faults \subseteq FaultKinds
  /\ MaxAppends \in Nat
  /\ MaxFaults \in Nat

VARIABLES
  log,        \* every line ever written, oldest first
  oldBase,    \* trust_log_old.jsonl  = log[oldBase+1 .. activeBase]
  activeBase, \* trust_log.jsonl      = log[activeBase+1 .. Len(log)]
  marker,     \* contents of .last_hash
  items,      \* trust_log.json: digests of the newest entries
  witness,    \* digests recorded in the signed witness ledger, in order
  worm,       \* digests mirrored to WORM storage
  lock,       \* _trust_log_lock
  pc,         \* next step of each thread inside append_trust_log
  prev,       \* sha256_prev read by each thread
  sha,        \* sha256 of the entry each thread has prepared
  nextSha,    \* next fresh digest
  loaded,     \* the items each thread has loaded from trust_log.json
  blind,      \* history: digests of entries whose previous hash could not be read
  reset,      \* history: digests of entries for which the items could not be loaded
  acked,      \* digests of entries append_trust_log has returned
  faults      \* faults injected so far

files   == <<log, oldBase, activeBase, marker, items, witness, worm>>
local   == <<prev, sha, nextSha, loaded, blind, reset>>
vars    == <<log, oldBase, activeBase, marker, items, witness, worm,
             lock, pc, prev, sha, nextSha, loaded, blind, reset, acked, faults>>

(***************************************************************************)
(* SHA-256 is taken to be collision free, so a digest is a fresh number;   *)
(* 0 stands for an absent sha256_prev (None).                              *)
(***************************************************************************)
NoHash == 0
Digest == Nat \ {0}

(***************************************************************************)
(* dec says what decoding a line gives: an entry, a DecryptionError (the   *)
(* line starts with "ENC:" but the token is damaged) or a JSONDecodeError  *)
(* (the line was cut inside the prefix).  nl: the line ends in a newline.  *)
(***************************************************************************)
Decodings == {"ok", "decrypt", "json"}
Line      == [sha : Nat, prev : Nat, dec : Decodings, nl : BOOLEAN]
Entry(s, p) == [sha |-> s, prev |-> p, dec |-> "ok", nl |-> TRUE]

Steps == {"idle", "rotate", "marker", "replace", "write", "mirror", "sign"}

TypeOK ==
  /\ log \in Seq(Line)
  /\ oldBase \in Nat
  /\ activeBase \in Nat
  /\ oldBase =< activeBase
  /\ activeBase =< Len(log)
  /\ marker \in Nat
  /\ items \in Seq(Nat)
  /\ witness \in Seq(Nat)
  /\ worm \subseteq Nat
  /\ lock \in Threads \union {NoThread}
  /\ pc \in [Threads -> Steps]
  /\ prev \in [Threads -> Nat]
  /\ sha \in [Threads -> Nat]
  /\ nextSha \in Digest
  /\ loaded \in [Threads -> Seq(Nat)]
  /\ blind \subseteq Nat
  /\ reset \subseteq Nat
  /\ acked \subseteq Nat
  /\ faults \in Nat

Init ==
  /\ log = <<>>
  /\ oldBase = 0
  /\ activeBase = 0
  /\ marker = NoHash
  /\ items = <<>>
  /\ witness = <<>>
  /\ worm = {}
  /\ lock = NoThread
  /\ pc = [t \in Threads |-> "idle"]
  /\ prev = [t \in Threads |-> NoHash]
  /\ sha = [t \in Threads |-> NoHash]
  /\ nextSha = 1
  /\ loaded = [t \in Threads |-> <<>>]
  /\ blind = {}
  /\ reset = {}
  /\ acked = {}
  /\ faults = 0

-----------------------------------------------------------------------------
(* Reading the files *)

\* Positions of the decodable lines of log[lo+1 .. hi].
Decodable(lo, hi) == {i \in (lo + 1) .. hi : log[i].dec = "ok"}

\* Mutant: the last line only, no scan past undecodable ones.
LastShaNoScan(lo, hi) ==
  IF hi > lo /\ log[hi].dec = "ok" THEN log[hi].sha ELSE NoHash

\* The position of the newest of them: at most one.
NewestDecodable(lo, hi) ==
  {i \in Decodable(lo, hi) : \A j \in Decodable(lo, hi) : j =< i}

\* The newest decodable sha256 of log[lo+1 .. hi], undecodable lines skipped.
LastSha(lo, hi) ==
  IF NewestDecodable(lo, hi) = {}
    THEN NoHash
    ELSE log[CHOOSE i \in NewestDecodable(lo, hi) : TRUE].sha

\* Mutant: an empty active file starts a new chain.
LastHashNoRecovery ==
  IF activeBase < Len(log) THEN LastSha(activeBase, Len(log)) ELSE NoHash

\* The rotated file is read only when there is no active line and no marker.
LastHash ==
  IF activeBase < Len(log) THEN LastSha(activeBase, Len(log))
  ELSE IF marker # NoHash  THEN marker
  ELSE LastSha(oldBase, activeBase)

\* What _get_last_hash_unlocked returns when a read fails: an unreadable active
\* file gives None, an unreadable marker the hash of the rotated file, if that
\* can be read.
HashOnError ==
  {NoHash} \union IF activeBase < Len(log) THEN {} ELSE {LastSha(oldBase, activeBase)}

ActiveLines == Len(log) - activeBase

-----------------------------------------------------------------------------
(* Writing a line *)

\* Text added to a line that has no newline becomes part of that line.
Glue(l, terminated) ==
  [sha |-> l.sha, prev |-> l.prev, nl |-> terminated,
   dec |-> IF l.dec = "ok" THEN "decrypt" ELSE l.dec]

\* Entry e cut short: decoding what is there gives d.
Cut(e, d) == [sha |-> e.sha, prev |-> e.prev, dec |-> d, nl |-> FALSE]

Put(l) ==
  IF activeBase < Len(log) /\ ~log[Len(log)].nl
    THEN [log EXCEPT ![Len(log)] = Glue(log[Len(log)], l.nl)]
    ELSE Append(log, l)

\* What an interrupted write of entry e may leave: nothing, a piece of the
\* prefix, a piece of the token, or everything but the newline.
Interrupted(e) ==
  {log} \union
    IF "torn" \in Faults
      THEN {Put(Cut(e, d)) : d \in Decodings}
      ELSE {}

-----------------------------------------------------------------------------
(* append_trust_log *)

Fault(kind) ==
  /\ kind \in Faults
  /\ faults < MaxFaults
  /\ faults' = faults + 1

\* Mutant: the lock is not released on an error.
EndKeepsLock(t) ==
  /\ lock' = IF pc[t] = "write" THEN lock ELSE NoThread
  /\ pc' = [pc EXCEPT ![t] = "idle"]

\* The call of thread t ends and the lock is released.
End(t) ==
  /\ lock' = NoThread
  /\ pc' = [pc EXCEPT ![t] = "idle"]

Goto(t, step) ==
  /\ pc' = [pc EXCEPT ![t] = step]
  /\ UNCHANGED lock

\* _get_last_hash_unlocked and _load_logs_json for the entry that is being
\* prepared: each of the two reads in failed gives its default.
Read(t, failed) ==
  /\ IF failed = {} THEN UNCHANGED faults ELSE Fault("read")
  /\ \E h \in IF "hash" \in failed THEN HashOnError ELSE {LastHash} :
       prev' = [prev EXCEPT ![t] = h]
  /\ loaded' = [loaded EXCEPT ![t] = IF "items" \in failed THEN <<>> ELSE items]
  /\ blind' = IF "hash" \in failed THEN blind \union {nextSha} ELSE blind
  /\ reset' = IF "items" \in failed THEN reset \union {nextSha} ELSE reset

\* Mutant: the files are read without waiting for the lock.
BeginUnlocked(t) ==
  /\ pc[t] = "idle"
  /\ nextSha =< MaxAppends
  /\ lock' = t
  /\ Read(t, {})
  /\ sha' = [sha EXCEPT ![t] = nextSha]
  /\ nextSha' = nextSha + 1
  /\ pc' = [pc EXCEPT ![t] = IF ActiveLines >= MaxLines
                               THEN "rotate" ELSE "write"]
  /\ UNCHANGED <<files, acked>>

\* Take the lock, read the previous hash and the items, prepare the entry and
\* see whether the active file is full.
Begin(t) ==
  /\ pc[t] = "idle"
  /\ lock = NoThread
  /\ nextSha =< MaxAppends
  /\ lock' = t
  /\ \E failed \in SUBSET {"hash", "items"} : Read(t, failed)
  /\ sha' = [sha EXCEPT ![t] = nextSha]
  /\ nextSha' = nextSha + 1
  /\ pc' = [pc EXCEPT ![t] = IF ActiveLines >= MaxLines
                               THEN "rotate" ELSE "write"]
  /\ UNCHANGED <<files, acked>>

\* prepare_entry rejects the entry (no key, not serialisable): nothing is
\* written.
PrepareFails(t) ==
  /\ pc[t] = "idle"
  /\ lock = NoThread
  /\ End(t)
  /\ UNCHANGED <<files, local, acked, faults>>

\* save_last_hash_marker: read the last line; write_text truncates the marker
\* before it writes.  An undecodable last line leaves the marker as it was,
\* except that a DecryptionError is not caught and ends the call.
Rotate(t) ==
  /\ pc[t] = "rotate"
  /\ \/ /\ log[Len(log)].dec = "ok"
        /\ marker' = NoHash
        /\ Goto(t, "marker")
     \/ /\ log[Len(log)].dec = "json"
        /\ Goto(t, "replace")
        /\ UNCHANGED marker
     \/ /\ log[Len(log)].dec = "decrypt"
        /\ End(t)
        /\ UNCHANGED marker
  /\ UNCHANGED <<log, oldBase, activeBase, items, witness, worm, local,
                 acked, faults>>

MarkerWrite(t) ==
  /\ pc[t] = "marker"
  /\ marker' = log[Len(log)].sha
  /\ Goto(t, "replace")
  /\ UNCHANGED <<log, oldBase, activeBase, items, witness, worm, local,
                 acked, faults>>

\* An OSError while saving the marker is swallowed and rotation goes on.
MarkerFails(t) ==
  /\ \/ pc[t] = "rotate" /\ log[Len(log)].dec = "ok" /\ Fault("marker_open")
     \/ pc[t] = "marker" /\ Fault("io")
  /\ Goto(t, "replace")
  /\ UNCHANGED <<files, local, acked>>

\* os.replace(trust_log.jsonl, trust_log_old.jsonl)
Replace(t) ==
  /\ pc[t] = "replace"
  /\ oldBase' = activeBase
  /\ activeBase' = Len(log)
  /\ Goto(t, "write")
  /\ UNCHANGED <<log, marker, items, witness, worm, local, acked, faults>>

\* write + flush + fsync of one line
Write(t) ==
  /\ pc[t] = "write"
  /\ log' = Put(Entry(sha[t], prev[t]))
  /\ Goto(t, "mirror")
  /\ UNCHANGED <<oldBase, activeBase, marker, items, witness, worm, local,
                 acked, faults>>

\* Mutant: the trim keeps the wrong end.
NewestKeepsOldest(s) == IF Len(s) > MaxItems THEN SubSeq(s, 1, MaxItems) ELSE s

\* Keep the newest MaxItems entries.
Newest(s) ==
  IF Len(s) > MaxItems THEN SubSeq(s, Len(s) - MaxItems + 1, Len(s)) ELSE s

\* trust_log.json is written anew from the items that were loaded.
Mirror(t) ==
  /\ pc[t] = "mirror"
  /\ items' = Newest(Append(loaded[t], sha[t]))
  /\ Goto(t, "sign")
  /\ UNCHANGED <<log, oldBase, activeBase, marker, witness, worm, local,
                 acked, faults>>

\* What append_signed_decision may leave behind: the witness line is written
\* before the WORM mirror is.
SignEffects(s) ==
  \/ UNCHANGED <<witness, worm>>
  \/ witness' = Append(witness, s) /\ UNCHANGED worm
  \/ witness' = Append(witness, s) /\ worm' = worm \union {s}

\* The signed ledger is best effort: SignedTrustLogWriteError (raised also
\* for a failed WORM mirror when WormHardFail) is swallowed.
Sign(t) ==
  /\ pc[t] = "sign"
  /\ \/ /\ witness' = Append(witness, sha[t])
        /\ worm' = worm \union {sha[t]}
        /\ UNCHANGED faults
     \/ /\ Fault("io")
        /\ SignEffects(sha[t])
  /\ acked' = acked \union {sha[t]}
  /\ End(t)
  /\ UNCHANGED <<log, oldBase, activeBase, marker, items, local>>

\* Any other exception of the signing backend escapes append_signed_decision
\* before the witness line is written, and append_trust_log with it.
SignerFails(t) ==
  /\ pc[t] = "sign"
  /\ Fault("signer")
  /\ End(t)
  /\ UNCHANGED <<files, local, acked>>

\* Mutant: an error of the line's write is swallowed.
FailsSwallowed(t) ==
  /\ Fault("io")
  /\ pc[t] = "write"
  /\ log' \in Interrupted(Entry(sha[t], prev[t]))
  /\ Goto(t, "mirror")
  /\ UNCHANGED <<oldBase, activeBase, marker, items, witness, worm, local,
                 acked>>

\* An OSError from counting the lines, the rename, the line or the mirror is
\* counted and re-raised; what was written before it stays.
Fails(t) ==
  /\ Fault("io")
  /\ \/ pc[t] \in {"rotate", "replace"} /\ UNCHANGED log
     \/ pc[t] = "write"   /\ log' \in Interrupted(Entry(sha[t], prev[t]))
     \/ pc[t] = "mirror"  /\ UNCHANGED log
  /\ End(t)
  /\ UNCHANGED <<oldBase, activeBase, marker, items, witness, worm, local,
                 acked>>

\* The process dies and restarts.  Files keep what the interrupted step left.
Crash ==
  /\ Fault("crash")
  /\ log' \in {log} \union UNION {Interrupted(Entry(sha[t], prev[t])) :
                                    t \in {u \in Threads : pc[u] = "write"}}
  /\ \/ UNCHANGED <<witness, worm>>
     \/ \E t \in Threads : pc[t] = "sign" /\ SignEffects(sha[t])
  /\ lock' = NoThread
  /\ pc' = [t \in Threads |-> "idle"]
  /\ UNCHANGED <<oldBase, activeBase, marker, items, local, acked>>

Step(t) ==
  \/ Rotate(t)
  \/ MarkerWrite(t)
  \/ MarkerFails(t)
  \/ Replace(t)
  \/ Write(t)
  \/ Mirror(t)
  \/ Sign(t)
  \/ SignerFails(t)
  \/ Fails(t)

Next ==
  \/ \E t \in Threads : Begin(t) \/ PrepareFails(t) \/ Step(t)
  \/ Crash

Spec == Init /\ [][Next]_vars

\* A thread inside append_trust_log is eventually scheduled.
FairSpec == Spec /\ \A t \in Threads : WF_vars(Step(t))

-----------------------------------------------------------------------------
(* Properties *)

\* Consecutive decodable lines of log[lo+1 .. hi] are linked by sha256_prev. A
\* line whose writer could not read the previous hash may name none instead.
Linked(lo, hi) ==
  \A j \in Decodable(lo, hi), i \in Decodable(lo, hi) :
    /\ i < j
    /\ \A k \in (i + 1) .. (j - 1) : log[k].dec # "ok"
    => \/ log[j].prev = log[i].sha
       \/ log[j].sha \in blind /\ log[j].prev = NoHash

\* Whatever was torn, rotated, failed or crashed before, verify_full_ledger
\* finds a sha256_prev_mismatch in trust_log.jsonl only at an entry whose writer
\* could not read the file, and that entry names no predecessor at all.
ActiveLinked == Linked(activeBase, Len(log))

\* The hash chain is broken by nothing but a swallowed read error: every
\* decodable entry ever written names the one before it, across rotations,
\* crashes and failed appends, and no entry ever names a wrong one. An entry
\* whose read failed, also that of marker and rotated file, names none.
ChainContinuity ==
  /\ Linked(0, Len(log))
  /\ \A j \in Decodable(0, Len(log)) :
       (\A k \in 1 .. (j - 1) : log[k].dec # "ok") => log[j].prev = NoHash

\* An entry append_trust_log has returned stays decodable on the chain.
AckedDurable ==
  \A h \in acked : \E i \in Decodable(0, Len(log)) : log[i].sha = h

\* trust_log.json misses no returned entry other than ones off its old end: it is
\* full and they were trimmed, or it begins with an entry whose writer could not
\* load it and started anew.
MirrorComplete ==
  \A h \in acked :
    \/ \E i \in 1 .. Len(items) : items[i] = h
    \/ /\ \A i \in 1 .. Len(items) : h < items[i]
       /\ Len(items) = MaxItems \/ (Len(items) > 0 /\ items[1] \in reset)

\* Everything a witness line refers to (artifact_ref locates the full-ledger
\* row by its sha256) has been written to the full ledger, and the witness
\* ledger keeps the order of the full ledger.
WitnessFollowsLedger ==
  /\ \A i \in 1 .. Len(witness) :
       \E k \in Decodable(0, Len(log)) : log[k].sha = witness[i]
  /\ \A i, j \in 1 .. Len(witness) : i < j => witness[i] < witness[j]

\* The chain of all entries ever written.
Chain == [i \in 1 .. Len(log) |-> [sha |-> log[i].sha, prev |-> log[i].prev]]

Abstract ==
  INSTANCE HashChain WITH Digests <- 1 .. MaxAppends, chain <- Chain,
                          Restarts <- "read" \in Faults

\* The file-backed ledger, with its threads, rotation, crashes and failed file
\* operations, implements one chain that only grows, and every entry
\* append_trust_log returns is on it; only a failed read starts the chain anew.
ImplementsHashChain == Abstract!Spec

\* A call that has taken the lock gives it back, whatever fails on the way.
LockReleased == \A t \in Threads : (lock = t) ~> (lock # t)
=============================================================================
