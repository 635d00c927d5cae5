-------------------------- MODULE ApiServerProofs ---------------------------
(***************************************************************************)
(* Theorems about the API process for any number of workers, connections,  *)
(* requests and events, any limits and any length of time.                 *)
(***************************************************************************)
EXTENDS ApiServer, FiniteSetTheorems, TLAPS

-----------------------------------------------------------------------------
(* Sequences of events *)

Elems(s) == {s[i] : i \in 1 .. Len(s)}

Distinct(s) == \A i, j \in 1 .. Len(s) : i # j => s[i] # s[j]

LEMMA ElemsEmpty ==
  Elems(<<>>) = {} /\ Distinct(<<>>)
BY DEF Elems, Distinct

LEMMA AppendFacts ==
  ASSUME NEW S, NEW s \in Seq(S), NEW e \in S
  PROVE  /\ Append(s, e) \in Seq(S) /\ Len(Append(s, e)) = Len(s) + 1
         /\ \A i \in 1 .. Len(s) : Append(s, e)[i] = s[i]
         /\ Append(s, e)[Len(s) + 1] = e
OBVIOUS

LEMMA ElemsAppend ==
  ASSUME NEW s \in Seq(Nat), NEW e \in Nat
  PROVE  /\ Append(s, e) \in Seq(Nat) /\ Len(Append(s, e)) = Len(s) + 1
         /\ Elems(Append(s, e)) = Elems(s) \union {e}
         /\ Distinct(s) /\ e \notin Elems(s) => Distinct(Append(s, e))
<1>1. /\ Len(s) \in Nat /\ Append(s, e) \in Seq(Nat) /\ Len(Append(s, e)) = Len(s) + 1
      /\ \A i \in 1 .. Len(s) : Append(s, e)[i] = s[i]
      /\ Append(s, e)[Len(s) + 1] = e
  OBVIOUS
<1>2. \A i \in 1 .. Len(s) + 1 : i \in 1 .. Len(s) \/ i = Len(s) + 1
  BY <1>1
<1>3. (1 .. Len(s)) \subseteq 1 .. Len(s) + 1 /\ Len(s) + 1 \in 1 .. Len(s) + 1
  BY <1>1
<1>4. Elems(Append(s, e)) = Elems(s) \union {e}
  BY <1>1, <1>2, <1>3 DEF Elems
<1>5. (Distinct(s) /\ e \notin Elems(s)) => Distinct(Append(s, e))
  BY <1>1, <1>2 DEF Distinct, Elems
<1>6. QED
  BY <1>1, <1>4, <1>5

LEMMA ElemsTail ==
  ASSUME NEW s \in Seq(Nat), s # <<>>
  PROVE  /\ Tail(s) \in Seq(Nat) /\ Len(Tail(s)) = Len(s) - 1 /\ Head(s) \in Nat
         /\ Elems(s) = {Head(s)} \union Elems(Tail(s))
         /\ Distinct(s) => Distinct(Tail(s)) /\ Head(s) \notin Elems(Tail(s))
<1>1. /\ Len(s) \in Nat /\ Len(s) > 0 /\ Tail(s) \in Seq(Nat) /\ Len(Tail(s)) = Len(s) - 1
      /\ Head(s) = s[1] /\ Head(s) \in Nat
      /\ \A i \in 1 .. Len(s) - 1 : Tail(s)[i] = s[i + 1]
  OBVIOUS
<1>2. \A i \in 1 .. Len(s) - 1 : i + 1 \in 1 .. Len(s) /\ i + 1 # 1
  BY <1>1
<1>3. \A i \in 1 .. Len(s) : i = 1 \/ (i - 1 \in 1 .. Len(s) - 1 /\ s[i] = Tail(s)[i - 1])
  BY <1>1
<1>4. 1 \in 1 .. Len(s)
  BY <1>1
<1>5. Elems(s) = {Head(s)} \union Elems(Tail(s))
  BY <1>1, <1>2, <1>3, <1>4 DEF Elems
<1>6. ASSUME Distinct(s)
      PROVE  Distinct(Tail(s)) /\ Head(s) \notin Elems(Tail(s))
  <2>1. \A i, j \in 1 .. Len(s) - 1 : i # j => i + 1 # j + 1
    BY <1>1
  <2>2. Distinct(Tail(s))
    BY <1>1, <1>2, <1>6, <2>1 DEF Distinct
  <2>3. \A i \in 1 .. Len(s) - 1 : Tail(s)[i] # Head(s)
    BY <1>1, <1>2, <1>4, <1>6 DEF Distinct
  <2>4. QED
    BY <1>1, <2>2, <2>3 DEF Elems
<1>7. QED
  BY <1>1, <1>5, <1>6

LEMMA ElemsConcat ==
  ASSUME NEW s \in Seq(Nat), NEW t \in Seq(Nat)
  PROVE  /\ s \o t \in Seq(Nat)
         /\ Elems(s \o t) = Elems(s) \union Elems(t)
         /\ Distinct(s) /\ Distinct(t) /\ Elems(s) \intersect Elems(t) = {} => Distinct(s \o t)
<1>1. /\ Len(s) \in Nat /\ Len(t) \in Nat /\ s \o t \in Seq(Nat)
      /\ Len(s \o t) = Len(s) + Len(t)
      /\ \A i \in 1 .. Len(s) : (s \o t)[i] = s[i]
      /\ \A i \in 1 .. Len(t) : (s \o t)[Len(s) + i] = t[i]
  OBVIOUS
<1>2. \A i \in 1 .. Len(s) + Len(t) :
        \/ i \in 1 .. Len(s) /\ (s \o t)[i] = s[i]
        \/ i - Len(s) \in 1 .. Len(t) /\ (s \o t)[i] = t[i - Len(s)]
  <2>1. TAKE i \in 1 .. Len(s) + Len(t)
  <2>2. CASE i <= Len(s)
    BY <1>1, <2>2
  <2>3. CASE i > Len(s)
    <3>1. i - Len(s) \in 1 .. Len(t) /\ i = Len(s) + (i - Len(s))
      BY <1>1, <2>3
    <3>2. QED
      BY <1>1, <3>1
  <2>4. QED
    BY <1>1, <2>2, <2>3
<1>3. /\ \A i \in 1 .. Len(s) : i \in 1 .. Len(s) + Len(t)
      /\ \A i \in 1 .. Len(t) : Len(s) + i \in 1 .. Len(s) + Len(t)
  BY <1>1
<1>4. Elems(s \o t) = Elems(s) \union Elems(t)
  <2>1. ASSUME NEW x \in Elems(s \o t)
        PROVE  x \in Elems(s) \union Elems(t)
    <3>1. PICK i \in 1 .. Len(s) + Len(t) : x = (s \o t)[i]
      BY <1>1, <2>1 DEF Elems
    <3>2. QED
      BY <1>2, <3>1 DEF Elems
  <2>2. ASSUME NEW x \in Elems(s)
        PROVE  x \in Elems(s \o t)
    <3>1. PICK i \in 1 .. Len(s) : x = s[i]
      BY <2>2 DEF Elems
    <3>2. QED
      BY <1>1, <1>3, <3>1 DEF Elems
  <2>3. ASSUME NEW x \in Elems(t)
        PROVE  x \in Elems(s \o t)
    <3>1. PICK i \in 1 .. Len(t) : x = t[i]
      BY <2>3 DEF Elems
    <3>2. Len(s) + i \in 1 .. Len(s \o t) /\ (s \o t)[Len(s) + i] = x
      BY <1>1, <1>3, <3>1
    <3>3. QED
      BY <3>2 DEF Elems
  <2>4. QED
    BY <2>1, <2>2, <2>3
<1>5. ASSUME Distinct(s), Distinct(t), Elems(s) \intersect Elems(t) = {}
      PROVE  Distinct(s \o t)
  <2>1. SUFFICES ASSUME NEW i \in 1 .. Len(s) + Len(t), NEW j \in 1 .. Len(s) + Len(t), i # j
                 PROVE  (s \o t)[i] # (s \o t)[j]
    BY <1>1 DEF Distinct
  <2>2. \A a \in 1 .. Len(s), b \in 1 .. Len(t) : s[a] # t[b]
    BY <1>5 DEF Elems
  <2>3. i - Len(s) # j - Len(s)
    BY <1>1, <2>1
  <2>4. QED
    BY <1>2, <1>5, <2>1, <2>2, <2>3 DEF Distinct
<1>6. QED
  BY <1>1, <1>4, <1>5
-----------------------------------------------------------------------------
(* The hub. Its invariant says what history holds (the last events, in      *)
(* order) and, for each client, that the places an event can be in are      *)
(* disjoint and hold only events that were published; that no two           *)
(* publishers carry the same event; and that nothing is missing.             *)

HistoryIs ==
  /\ Len(history) <= seq
  /\ \A i \in 1 .. Len(history) : history[i] = seq - Len(history) + i

Streaming(c) == Elems(got[c]) \union Elems(queue[c]) \union Elems(filling[c])

Apart(c) ==
  /\ Distinct(got[c]) /\ Distinct(queue[c]) /\ Distinct(filling[c])
  /\ Elems(got[c]) \intersect Elems(queue[c]) = {}
  /\ Elems(got[c]) \intersect Elems(filling[c]) = {}
  /\ Elems(queue[c]) \intersect Elems(filling[c]) = {}
  /\ Streaming(c) \intersect Pending(c) = {}
  /\ Streaming(c) \intersect dropped[c] = {}
  /\ Pending(c) \intersect dropped[c] = {}

Published(c) == Streaming(c) \union Pending(c) \union dropped[c] \subseteq 1 .. seq

Fresh(c) ==
  state[c] = "new" =>
    /\ c \notin subscribers
    /\ queue[c] = <<>> /\ filling[c] = <<>> /\ got[c] = <<>> /\ dropped[c] = {}
    /\ Pending(c) = {}

Complete(c) ==
  c \in subscribers =>
    base[c] + 1 .. seq \subseteq Streaming(c) \union Pending(c) \union dropped[c]

DifferentEvents(c) ==
  \A p, q \in Publishers :
    p # q /\ c \in sending[p].to /\ c \in sending[q].to =>
      sending[p].event # sending[q].event

ClientInv(c) ==
  Apart(c) /\ Published(c) /\ Fresh(c) /\ Complete(c) /\ DifferentEvents(c)

HubInv ==
  /\ HubTypeOK
  /\ HistoryIs
  /\ \A c \in Clients : ClientInv(c)

\* Initially nothing was published and no client has registered.
LEMMA HubInitial == HubInit => HubInv
<1>1. SUFFICES ASSUME HubInit PROVE HubInv
  OBVIOUS
<1>2. HubTypeOK
  BY <1>1, HubAssumption DEF HubInit, HubTypeOK, Rest
<1>3. HistoryIs
  BY <1>1 DEF HubInit, HistoryIs
<1>4. ASSUME NEW c \in Clients
      PROVE  ClientInv(c)
  <2>1. Pending(c) = {}
    BY <1>1 DEF HubInit, Pending, Rest
  <2>2. /\ got[c] = <<>> /\ queue[c] = <<>> /\ filling[c] = <<>> /\ dropped[c] = {}
        /\ c \notin subscribers /\ seq = 0
    BY <1>1, <1>4 DEF HubInit
  <2>3. Streaming(c) = {}
    BY <2>2, ElemsEmpty DEF Streaming
  <2>4. Apart(c)
    BY <2>1, <2>2, <2>3, ElemsEmpty DEF Apart
  <2>5. DifferentEvents(c)
    BY <1>1 DEF HubInit, DifferentEvents, Rest
  <2>6. QED
    BY <2>1, <2>2, <2>3, <2>4, <2>5 DEF ClientInv, Published, Fresh, Complete
<1>5. QED
  BY <1>2, <1>3, <1>4 DEF HubInv

\* What history holds as a set.
LEMMA HistoryElems ==
  ASSUME HubTypeOK, HistoryIs
  PROVE  /\ history \in Seq(Nat)
         /\ Distinct(history)
         /\ Elems(history) = seq - Len(history) + 1 .. seq
<1>1. seq \in Nat /\ history \in Seq(1 .. seq) /\ Len(history) \in Nat
  BY DEF HubTypeOK
<1>2. history \in Seq(Nat)
  BY <1>1
<1>3. Distinct(history)
  BY <1>1 DEF HistoryIs, Distinct
<1>4. \A x \in seq - Len(history) + 1 .. seq :
        x - (seq - Len(history)) \in 1 .. Len(history)
        /\ history[x - (seq - Len(history))] = x
  BY <1>1 DEF HistoryIs
<1>5. \A i \in 1 .. Len(history) : history[i] \in seq - Len(history) + 1 .. seq
  BY <1>1 DEF HistoryIs
<1>6. QED
  BY <1>2, <1>3, <1>4, <1>5 DEF Elems

\* publish: the history keeps the last events.
LEMMA KeepHistory ==
  ASSUME HubTypeOK, HistoryIs,
         seq' = seq + 1, history' = Keep(history, seq + 1)
  PROVE  /\ HistoryIs'
         /\ history' \in Seq(1 .. seq')
         /\ Len(history') <= HistorySize
<1>1. seq \in Nat /\ history \in Seq(1 .. seq) /\ Len(history) \in Nat
      /\ Len(history) <= HistorySize /\ HistorySize \in Nat /\ HistorySize > 0
  BY HubAssumption DEF HubTypeOK
<1>2. history \in Seq(1 .. seq + 1) /\ seq + 1 \in 1 .. seq + 1
  BY <1>1
<1>3. CASE Len(history) < HistorySize
  <2>1. history' = Append(history, seq + 1)
    BY <1>3 DEF Keep
  <2>2. /\ Len(history') = Len(history) + 1 /\ history' \in Seq(1 .. seq + 1)
        /\ \A i \in 1 .. Len(history) : history'[i] = history[i]
        /\ history'[Len(history) + 1] = seq + 1
    <3> DEFINE S == 1 .. seq + 1
    <3>1. history \in Seq(S) /\ seq + 1 \in S
      BY <1>2
    <3> HIDE DEF S
    <3>2. history' \in Seq(S) /\ Len(history') = Len(history) + 1
          /\ (\A i \in 1 .. Len(history) : history'[i] = history[i])
          /\ history'[Len(history) + 1] = seq + 1
      BY <2>1, <3>1, AppendFacts
    <3>3. QED
      BY <3>2 DEF S
  <2>3. \A i \in 1 .. Len(history') : history'[i] = seq + 1 - Len(history') + i
    <3>1. TAKE i \in 1 .. Len(history')
    <3>2. CASE i = Len(history) + 1
      BY <1>1, <2>2, <3>2
    <3>3. CASE i # Len(history) + 1
      <4>1. i \in 1 .. Len(history)
        BY <1>1, <2>2, <3>3
      <4>2. history'[i] = seq - Len(history) + i
        BY <2>2, <4>1 DEF HistoryIs
      <4>3. QED
        <5>1. i \in Nat /\ seq + 1 - (Len(history) + 1) + i = seq - Len(history) + i
          BY <1>1, <4>1
        <5>2. QED
          BY <2>2, <4>2, <5>1
    <3>4. QED
      BY <3>2, <3>3
  <2>4. QED
    BY <1>1, <1>3, <2>2, <2>3 DEF HistoryIs
<1>4. CASE ~(Len(history) < HistorySize)
  <2>1. history' = Append(Tail(history), seq + 1) /\ Len(history) > 0
    BY <1>1, <1>4 DEF Keep
  <2>2. /\ Tail(history) \in Seq(1 .. seq + 1) /\ Len(Tail(history)) = Len(history) - 1
        /\ \A i \in 1 .. Len(history) - 1 : Tail(history)[i] = history[i + 1]
    BY <1>1, <1>2, <2>1
  <2>3. /\ Len(history') = Len(history) /\ history' \in Seq(1 .. seq + 1)
        /\ \A i \in 1 .. Len(history) - 1 : history'[i] = Tail(history)[i]
        /\ history'[Len(history)] = seq + 1
    <3> DEFINE T == Tail(history)
               S == 1 .. seq + 1
    <3>1. T \in Seq(S) /\ Len(T) = Len(history) - 1 /\ history' = Append(T, seq + 1)
          /\ seq + 1 \in S
      BY <1>2, <2>1, <2>2
    <3> HIDE DEF T, S
    <3>2. /\ Len(history') = Len(T) + 1 /\ history' \in Seq(S)
          /\ \A i \in 1 .. Len(T) : history'[i] = T[i]
          /\ history'[Len(T) + 1] = seq + 1
      BY <3>1, AppendFacts
    <3>3. QED
      BY <1>1, <3>1, <3>2 DEF T, S
  <2>4. \A i \in 1 .. Len(history') : history'[i] = seq + 1 - Len(history') + i
    <3>1. TAKE i \in 1 .. Len(history')
    <3>2. CASE i = Len(history)
      BY <1>1, <2>3, <3>2
    <3>3. CASE i # Len(history)
      <4>1. i \in 1 .. Len(history) - 1 /\ i + 1 \in 1 .. Len(history)
        BY <1>1, <2>3, <3>3
      <4>2. history'[i] = history[i + 1]
        BY <2>2, <2>3, <4>1
      <4>3. history[i + 1] = seq - Len(history) + (i + 1)
        BY <4>1 DEF HistoryIs
      <4>4. QED
        <5>1. history'[i] = seq - Len(history) + (i + 1) /\ i \in Nat
          BY <4>1, <4>2, <4>3
        <5>2. seq - Len(history) + (i + 1) = seq + 1 - Len(history) + i
          BY <1>1, <5>1
        <5>3. QED
          BY <2>3, <5>1, <5>2
    <3>4. QED
      BY <3>2, <3>3
  <2>5. QED
    BY <1>1, <2>3, <2>4 DEF HistoryIs
<1>5. QED
  BY <1>3, <1>4
\* A client that a step does not touch.
LEMMA ClientKept ==
  ASSUME NEW c \in Clients, ClientInv(c),
         got'[c] = got[c], queue'[c] = queue[c], filling'[c] = filling[c],
         dropped'[c] = dropped[c], base'[c] = base[c], state'[c] = state[c],
         c \in subscribers' <=> c \in subscribers, seq' = seq,
         \A p \in Publishers : /\ c \in sending'[p].to <=> c \in sending[p].to
                               /\ sending'[p].event = sending[p].event
  PROVE  ClientInv(c)'
<1>1. Pending(c)' = Pending(c)
  BY DEF Pending
<1>2. Streaming(c)' = Streaming(c)
  BY DEF Streaming
<1>3. Apart(c)'
  BY <1>1, <1>2 DEF ClientInv, Apart
<1>4. Published(c)'
  BY <1>1, <1>2 DEF ClientInv, Published
<1>5. Fresh(c)'
  BY <1>1 DEF ClientInv, Fresh
<1>6. Complete(c)'
  BY <1>1, <1>2 DEF ClientInv, Complete
<1>7. DifferentEvents(c)'
  BY DEF ClientInv, DifferentEvents
<1>8. QED
  BY <1>3, <1>4, <1>5, <1>6, <1>7 DEF ClientInv

LEMMA PublishInv ==
  ASSUME HubInv, NEW p \in Publishers, Publish(p)
  PROVE  HubInv'
<1>1. HubTypeOK /\ HistoryIs
  BY DEF HubInv
<1>2. /\ seq' = seq + 1 /\ history' = Keep(history, seq + 1) /\ sending[p].to = {}
      /\ sending' = [sending EXCEPT ![p] = [event |-> seq + 1, to |-> subscribers]]
      /\ UNCHANGED <<subscribers, queue, filling, state, got, dropped, base>>
  BY DEF Publish
<1>3. seq \in Nat /\ sending \in [Publishers -> [event : Nat, to : SUBSET Clients]]
  BY <1>1 DEF HubTypeOK
<1>4. HistoryIs' /\ history' \in Seq(1 .. seq') /\ Len(history') <= HistorySize
  BY <1>1, <1>2, KeepHistory
<1>5. HubTypeOK'
  <2>1. seq' \in Nat /\ sending' \in [Publishers -> [event : Nat, to : SUBSET Clients]]
    BY <1>1, <1>2, <1>3 DEF HubTypeOK
  <2>2. QED
    BY <1>1, <1>2, <1>4, <2>1 DEF HubTypeOK
<1>6. ASSUME NEW c \in Clients
      PROVE  ClientInv(c)'
  <2>1. ClientInv(c)
    BY DEF HubInv
  <2>2. /\ \A q \in Publishers : q # p => sending'[q] = sending[q]
        /\ sending'[p].event = seq + 1 /\ sending'[p].to = subscribers
    BY <1>2, <1>3
  <2>3. Streaming(c)' = Streaming(c)
    BY <1>2 DEF Streaming
  <2>4. Pending(c)' = IF c \in subscribers THEN Pending(c) \union {seq + 1} ELSE Pending(c)
    <3>1. \A q \in Publishers : c \in sending[q].to => q # p
      BY <1>2
    <3>2. QED
      BY <2>2, <3>1 DEF Pending
  <2>5. Published(c) /\ Apart(c) /\ Fresh(c) /\ Complete(c) /\ DifferentEvents(c)
    BY <2>1 DEF ClientInv
  <2>6. /\ seq + 1 \notin 1 .. seq /\ (1 .. seq) \union {seq + 1} \subseteq 1 .. seq'
        /\ 1 .. seq \subseteq 1 .. seq'
    BY <1>2, <1>3
  <2>7. Published(c)'
    BY <1>2, <2>3, <2>4, <2>5, <2>6 DEF Published
  <2>8. /\ seq + 1 \notin Streaming(c) /\ seq + 1 \notin Pending(c)
        /\ seq + 1 \notin dropped[c]
    BY <2>5, <2>6 DEF Published
  <2>9. Apart(c)'
    BY <1>2, <2>3, <2>4, <2>5, <2>8 DEF Apart
  <2>10. Fresh(c)'
    BY <1>2, <2>4, <2>5 DEF Fresh
  <2>11. Complete(c)'
    <3>1. base[c] \in Nat
      BY <1>1 DEF HubTypeOK
    <3>2. base[c] + 1 .. seq + 1 \subseteq (base[c] + 1 .. seq) \union {seq + 1}
      BY <1>3, <3>1
    <3>3. QED
      BY <1>2, <2>3, <2>4, <2>5, <3>2 DEF Complete
  <2>12. DifferentEvents(c)'
    <3>1. \A q \in Publishers : c \in sending[q].to => sending[q].event # seq + 1
      BY <2>8 DEF Pending
    <3>2. QED
      BY <2>2, <2>5, <3>1 DEF DifferentEvents
  <2>13. QED
    BY <2>7, <2>9, <2>10, <2>11, <2>12 DEF ClientInv
<1>7. QED
  BY <1>4, <1>5, <1>6 DEF HubInv

LEMMA DeliverInv ==
  ASSUME HubInv, NEW p \in Publishers, NEW c \in Clients, Deliver(p, c)
  PROVE  HubInv'
<1> DEFINE e == sending[p].event
<1>1. HubTypeOK /\ HistoryIs /\ ClientInv(c)
  BY DEF HubInv
<1>2. /\ c \in sending[p].to /\ Put(c, e)
      /\ sending' = [sending EXCEPT ![p].to = @ \ {c}]
      /\ UNCHANGED <<seq, history, subscribers, filling, state, got, base>>
  BY DEF Deliver
<1>3. /\ sending \in [Publishers -> [event : Nat, to : SUBSET Clients]] /\ e \in Nat
      /\ queue \in [Clients -> Seq(Nat)] /\ dropped \in [Clients -> SUBSET Nat]
      /\ queue[c] \in Seq(Nat) /\ dropped[c] \in SUBSET Nat
      /\ Len(queue[c]) \in Nat /\ QueueSize \in Nat
  BY <1>1, HubAssumption DEF HubTypeOK
<1>4. /\ \A q \in Publishers : sending'[q].event = sending[q].event
      /\ \A q \in Publishers : q # p => sending'[q].to = sending[q].to
      /\ sending'[p].to = sending[p].to \ {c}
      /\ sending' \in [Publishers -> [event : Nat, to : SUBSET Clients]]
  BY <1>2, <1>3
<1>5. \/ /\ Len(queue[c]) < QueueSize /\ queue' = [queue EXCEPT ![c] = Append(@, e)]
         /\ dropped' = dropped
      \/ dropped' = [dropped EXCEPT ![c] = @ \union {e}] /\ queue' = queue
  BY <1>2 DEF Put
<1>6. /\ Append(queue[c], e) \in Seq(Nat) /\ Len(Append(queue[c], e)) = Len(queue[c]) + 1
      /\ Elems(Append(queue[c], e)) = Elems(queue[c]) \union {e}
      /\ Distinct(queue[c]) /\ e \notin Elems(queue[c]) => Distinct(Append(queue[c], e))
  BY <1>3, ElemsAppend
<1>7. HubTypeOK'
  <2>1. queue' \in [Clients -> Seq(Nat)] /\ dropped' \in [Clients -> SUBSET Nat]
    BY <1>3, <1>5, <1>6
  <2>2. \A d \in Clients : Len(queue'[d]) <= QueueSize
    <3>1. TAKE d \in Clients
    <3>2. Len(queue[d]) <= QueueSize
      BY <1>1 DEF HubTypeOK
    <3>3. queue'[d] = queue[d] \/ (Len(queue'[d]) = Len(queue[c]) + 1 /\ Len(queue[c]) < QueueSize)
      BY <1>3, <1>5, <1>6
    <3>4. QED
      BY <1>3, <3>2, <3>3
  <2>3. QED
    BY <1>1, <1>2, <1>4, <2>1, <2>2 DEF HubTypeOK
<1>8. HistoryIs'
  BY <1>1, <1>2 DEF HistoryIs
<1>9. ASSUME NEW d \in Clients, d # c
      PROVE  ClientInv(d)'
  <2>1. ClientInv(d)
    BY DEF HubInv
  <2>2. queue'[d] = queue[d] /\ dropped'[d] = dropped[d]
    BY <1>3, <1>5, <1>9
  <2>3. \A q \in Publishers : d \in sending'[q].to <=> d \in sending[q].to
    BY <1>4, <1>9
  <2>4. QED
    BY <1>2, <1>4, <2>1, <2>2, <2>3, ClientKept
<1>10. ClientInv(c)'
  <2>1. Published(c) /\ Apart(c) /\ Fresh(c) /\ Complete(c) /\ DifferentEvents(c)
    BY <1>1 DEF ClientInv
  <2>2. e \in Pending(c)
    BY <1>2 DEF Pending
  <2>3. Pending(c)' = Pending(c) \ {e}
    <3>1. \A q \in Publishers : c \in sending[q].to /\ q # p => sending[q].event # e
      BY <1>2, <2>1 DEF DifferentEvents
    <3>2. \A q \in Publishers : c \in sending'[q].to <=> c \in sending[q].to /\ q # p
      BY <1>4
    <3>3. QED
      BY <1>4, <3>1, <3>2 DEF Pending
  <2>4. e \notin Streaming(c) /\ e \notin dropped[c] /\ e \in 1 .. seq
    BY <2>1, <2>2 DEF Apart, Published
  <2>5. \/ /\ Streaming(c)' = Streaming(c) \union {e} /\ dropped'[c] = dropped[c]
           /\ Elems(queue'[c]) = Elems(queue[c]) \union {e} /\ Distinct(queue'[c])
        \/ /\ Streaming(c)' = Streaming(c) /\ dropped'[c] = dropped[c] \union {e}
           /\ queue'[c] = queue[c]
    BY <1>2, <1>3, <1>5, <1>6, <2>1, <2>4 DEF Streaming, Apart
  <2>6. Apart(c)'
    <3>1. CASE Elems(queue'[c]) = Elems(queue[c]) \union {e} /\ Distinct(queue'[c])
               /\ Streaming(c)' = Streaming(c) \union {e} /\ dropped'[c] = dropped[c]
      <4>1. e \notin Elems(got[c]) /\ e \notin Elems(filling[c])
        BY <2>4 DEF Streaming
      <4>2. QED
        BY <1>2, <2>1, <2>3, <2>4, <3>1, <4>1 DEF Apart
    <3>2. CASE Streaming(c)' = Streaming(c) /\ dropped'[c] = dropped[c] \union {e}
               /\ queue'[c] = queue[c]
      BY <1>2, <2>1, <2>3, <2>4, <3>2 DEF Apart
    <3>3. QED
      BY <2>5, <3>1, <3>2
  <2>7. Published(c)'
    BY <1>2, <2>1, <2>3, <2>4, <2>5 DEF Published
  <2>8. Fresh(c)'
    BY <1>2, <2>1, <2>2 DEF Fresh
  <2>9. Complete(c)'
    BY <1>2, <2>1, <2>3, <2>5 DEF Complete
  <2>10. DifferentEvents(c)'
    BY <1>4, <2>1 DEF DifferentEvents
  <2>11. QED
    BY <2>6, <2>7, <2>8, <2>9, <2>10 DEF ClientInv
<1>11. QED
  BY <1>7, <1>8, <1>9, <1>10 DEF HubInv

\* A client's own step leaves the publishers and the other clients alone.
LEMMA OthersKept ==
  ASSUME HubInv, NEW c \in Clients, Client(c), NEW d \in Clients, d # c
  PROVE  ClientInv(d)'
<1>1. ClientInv(d) /\ HubTypeOK
  BY DEF HubInv
<1>2. seq' = seq /\ sending' = sending
  BY DEF Client, Register, Fill, Opened, Get, Unregister
<1>3. got'[d] = got[d] /\ queue'[d] = queue[d]
  BY <1>1 DEF HubTypeOK, Client, Register, Fill, Opened, Get, Unregister
<1>4. filling'[d] = filling[d] /\ dropped'[d] = dropped[d]
  BY <1>1 DEF HubTypeOK, Client, Register, Fill, Opened, Get, Unregister
<1>5. base'[d] = base[d] /\ state'[d] = state[d] /\ (d \in subscribers' <=> d \in subscribers)
  BY <1>1 DEF HubTypeOK, Client, Register, Fill, Opened, Get, Unregister
<1>6. QED
  BY <1>1, <1>2, <1>3, <1>4, <1>5, ClientKept

\* The client that takes a step.
LEMMA RegisterInv ==
  ASSUME HubInv, NEW c \in Clients, Register(c)
  PROVE  HubTypeOK' /\ ClientInv(c)'
<1>1. HubTypeOK /\ HistoryIs /\ ClientInv(c)
  BY DEF HubInv
<1>2. history \in Seq(Nat) /\ Distinct(history)
      /\ Elems(history) = seq - Len(history) + 1 .. seq
  BY <1>1, HistoryElems
<1>3. seq \in Nat /\ Len(history) \in Nat /\ seq - Len(history) \in Nat
  BY <1>1, <1>2 DEF HubTypeOK, HistoryIs
<1>4. /\ state[c] = "new"
      /\ state' = [state EXCEPT ![c] = "filling"]
      /\ filling' = [filling EXCEPT ![c] = history]
      /\ subscribers' = subscribers \union {c}
      /\ base' = [base EXCEPT ![c] = seq - Len(history)]
      /\ UNCHANGED <<seq, history, queue, sending, got, dropped>>
  BY DEF Register
<1>5. HubTypeOK'
  <2>1. filling' \in [Clients -> Seq(Nat)] /\ base' \in [Clients -> Nat]
    BY <1>1, <1>2, <1>3, <1>4 DEF HubTypeOK
  <2>2. /\ subscribers' \subseteq Clients
        /\ state' \in [Clients -> {"new", "filling", "open", "closed"}]
    BY <1>1, <1>4 DEF HubTypeOK
  <2>3. QED
    BY <1>1, <1>4, <2>1, <2>2 DEF HubTypeOK
<1>6. /\ filling'[c] = history /\ base'[c] = seq - Len(history) /\ state'[c] = "filling"
      /\ got'[c] = <<>> /\ queue'[c] = <<>> /\ dropped'[c] = {} /\ Pending(c)' = {}
  <2>1. Fresh(c)
    BY <1>1 DEF ClientInv
  <2>2. Pending(c)' = Pending(c)
    BY <1>4 DEF Pending
  <2>3. QED
    BY <1>1, <1>4, <2>1, <2>2 DEF Fresh, HubTypeOK
<1>7. Streaming(c)' = seq - Len(history) + 1 .. seq
  BY <1>2, <1>6, ElemsEmpty DEF Streaming
<1>8. Apart(c)'
  BY <1>2, <1>6, ElemsEmpty DEF Apart
<1>9. Published(c)' /\ Complete(c)'
  BY <1>3, <1>4, <1>6, <1>7 DEF Published, Complete
<1>10. Fresh(c)' /\ DifferentEvents(c)'
  BY <1>1, <1>4, <1>6 DEF ClientInv, Fresh, DifferentEvents
<1>11. QED
  BY <1>5, <1>8, <1>9, <1>10 DEF ClientInv

LEMMA FillInv ==
  ASSUME HubInv, NEW c \in Clients, Fill(c)
  PROVE  HubTypeOK' /\ ClientInv(c)'
<1>1. HubTypeOK /\ HistoryIs /\ ClientInv(c)
  BY DEF HubInv
<1> DEFINE h == Head(filling[c])
<1>2. /\ state[c] = "filling" /\ filling[c] # <<>>
      /\ UNCHANGED <<seq, history, subscribers, sending, state, got, base>>
  BY DEF Fill
<1>3. /\ queue \in [Clients -> Seq(Nat)] /\ dropped \in [Clients -> SUBSET Nat]
      /\ filling \in [Clients -> Seq(Nat)]
      /\ queue[c] \in Seq(Nat) /\ filling[c] \in Seq(Nat) /\ dropped[c] \in SUBSET Nat
      /\ Len(queue[c]) \in Nat /\ QueueSize \in Nat
  BY <1>1, HubAssumption DEF HubTypeOK
<1>4. /\ Tail(filling[c]) \in Seq(Nat) /\ h \in Nat
      /\ Elems(filling[c]) = {h} \union Elems(Tail(filling[c]))
      /\ Distinct(filling[c]) => Distinct(Tail(filling[c])) /\ h \notin Elems(Tail(filling[c]))
  BY <1>2, <1>3, ElemsTail
<1>5. /\ Append(queue[c], h) \in Seq(Nat) /\ Len(Append(queue[c], h)) = Len(queue[c]) + 1
      /\ Elems(Append(queue[c], h)) = Elems(queue[c]) \union {h}
      /\ Distinct(queue[c]) /\ h \notin Elems(queue[c]) => Distinct(Append(queue[c], h))
  BY <1>3, <1>4, ElemsAppend
<1>6. Elems(filling[c]) \subseteq Nat
  BY <1>3 DEF Elems
<1>7. Published(c) /\ Apart(c) /\ Fresh(c) /\ Complete(c) /\ DifferentEvents(c)
  BY <1>1 DEF ClientInv
<1>8. Pending(c)' = Pending(c) /\ DifferentEvents(c)' /\ Fresh(c)'
  BY <1>2, <1>7 DEF Pending, DifferentEvents, Fresh
<1> HIDE DEF h
<1>9. CASE /\ Len(queue[c]) < QueueSize
           /\ queue' = [queue EXCEPT ![c] = Append(@, h)]
           /\ filling' = [filling EXCEPT ![c] = Tail(@)]
           /\ dropped' = dropped
  <2>1. queue'[c] = Append(queue[c], h) /\ filling'[c] = Tail(filling[c])
    BY <1>3, <1>9
  <2>2. queue' \in [Clients -> Seq(Nat)] /\ filling' \in [Clients -> Seq(Nat)]
    BY <1>3, <1>4, <1>5, <1>9
  <2>3. \A d \in Clients : Len(queue'[d]) <= QueueSize
    <3>1. TAKE d \in Clients
    <3>2. Len(queue[d]) <= QueueSize
      BY <1>1 DEF HubTypeOK
    <3>3. queue'[d] = queue[d] \/ Len(queue'[d]) = Len(queue[c]) + 1
      BY <1>3, <1>5, <1>9
    <3>4. QED
      BY <1>3, <1>9, <3>2, <3>3
  <2>4. HubTypeOK'
    BY <1>1, <1>2, <1>9, <2>2, <2>3 DEF HubTypeOK
  <2>5. h \notin Elems(queue[c]) /\ h \notin Elems(got[c]) /\ h \in Elems(filling[c])
    BY <1>4, <1>7 DEF Apart
  <2>6. Streaming(c)' = Streaming(c)
    BY <1>2, <1>4, <1>5, <2>1 DEF Streaming
  <2>7. Apart(c)'
    BY <1>2, <1>4, <1>5, <1>7, <1>8, <1>9, <2>1, <2>5, <2>6 DEF Apart
  <2>8. Published(c)' /\ Complete(c)'
    BY <1>2, <1>7, <1>8, <1>9, <2>6 DEF Published, Complete
  <2>9. QED
    BY <1>8, <2>4, <2>7, <2>8 DEF ClientInv
<1>10. CASE /\ dropped' = [dropped EXCEPT ![c] = @ \union Elems(filling[c])]
            /\ filling' = [filling EXCEPT ![c] = <<>>]
            /\ queue' = queue
  <2>1. dropped'[c] = dropped[c] \union Elems(filling[c]) /\ filling'[c] = <<>>
    BY <1>3, <1>10
  <2>2. filling' \in [Clients -> Seq(Nat)]
    BY <1>3, <1>10
  <2>3. dropped' \in [Clients -> SUBSET Nat]
    BY <1>3, <1>6, <1>10
  <2>4. HubTypeOK'
    BY <1>1, <1>2, <1>10, <2>2, <2>3 DEF HubTypeOK
  <2>5. Streaming(c)' = Elems(got[c]) \union Elems(queue[c])
    BY <1>2, <1>10, <2>1, ElemsEmpty DEF Streaming
  <2>6. Apart(c)'
    <3>1. Elems(filling[c]) \subseteq Streaming(c) /\ Streaming(c)' \subseteq Streaming(c)
      BY <2>5 DEF Streaming
    <3>2. Streaming(c)' \intersect dropped'[c] = {}
      BY <1>7, <2>1, <2>5, <3>1 DEF Apart
    <3>3. Pending(c)' \intersect dropped'[c] = {} /\ Streaming(c)' \intersect Pending(c)' = {}
      BY <1>7, <1>8, <2>1, <3>1 DEF Apart
    <3>4. QED
      BY <1>2, <1>7, <1>10, <2>1, <3>2, <3>3, ElemsEmpty DEF Apart
  <2>7. Streaming(c)' \union dropped'[c] = Streaming(c) \union dropped[c]
    BY <2>1, <2>5 DEF Streaming
  <2>8. Published(c)' /\ Complete(c)'
    BY <1>2, <1>7, <1>8, <1>10, <2>7 DEF Published, Complete
  <2>9. QED
    BY <1>8, <2>4, <2>6, <2>8 DEF ClientInv
<1>11. QED
  BY <1>9, <1>10 DEF Fill, Elems, h

LEMMA GetInv ==
  ASSUME HubInv, NEW c \in Clients, Get(c)
  PROVE  HubTypeOK' /\ ClientInv(c)'
<1>1. HubTypeOK /\ HistoryIs /\ ClientInv(c)
  BY DEF HubInv
<1> DEFINE h == Head(queue[c])
<1>2. /\ state[c] = "open" /\ queue[c] # <<>>
      /\ got' = [got EXCEPT ![c] = Append(@, h)]
      /\ queue' = [queue EXCEPT ![c] = Tail(@)]
      /\ UNCHANGED <<seq, history, subscribers, sending, filling, state, dropped, base>>
  BY DEF Get
<1>3. /\ queue \in [Clients -> Seq(Nat)] /\ got \in [Clients -> Seq(Nat)]
      /\ queue[c] \in Seq(Nat) /\ got[c] \in Seq(Nat)
      /\ Len(queue[c]) \in Nat /\ QueueSize \in Nat /\ Len(queue[c]) <= QueueSize
  BY <1>1, HubAssumption DEF HubTypeOK
<1>4. /\ Tail(queue[c]) \in Seq(Nat) /\ h \in Nat /\ Len(Tail(queue[c])) = Len(queue[c]) - 1
      /\ Elems(queue[c]) = {h} \union Elems(Tail(queue[c]))
      /\ Distinct(queue[c]) => Distinct(Tail(queue[c])) /\ h \notin Elems(Tail(queue[c]))
  BY <1>2, <1>3, ElemsTail
<1>5. /\ Append(got[c], h) \in Seq(Nat)
      /\ Elems(Append(got[c], h)) = Elems(got[c]) \union {h}
      /\ Distinct(got[c]) /\ h \notin Elems(got[c]) => Distinct(Append(got[c], h))
  BY <1>3, <1>4, ElemsAppend
<1>6. Published(c) /\ Apart(c) /\ Fresh(c) /\ Complete(c) /\ DifferentEvents(c)
  BY <1>1 DEF ClientInv
<1>7. Pending(c)' = Pending(c) /\ DifferentEvents(c)' /\ Fresh(c)'
  BY <1>2, <1>6 DEF Pending, DifferentEvents, Fresh
<1> HIDE DEF h
<1>8. queue'[c] = Tail(queue[c]) /\ got'[c] = Append(got[c], h)
  BY <1>2, <1>3
<1>9. HubTypeOK'
  <2>1. queue' \in [Clients -> Seq(Nat)] /\ got' \in [Clients -> Seq(Nat)]
    BY <1>2, <1>3, <1>4, <1>5
  <2>2. \A d \in Clients : Len(queue'[d]) <= QueueSize
    <3>1. TAKE d \in Clients
    <3>2. Len(queue[d]) <= QueueSize
      BY <1>1 DEF HubTypeOK
    <3>3. queue'[d] = queue[d] \/ Len(queue'[d]) = Len(queue[c]) - 1
      BY <1>2, <1>3, <1>4
    <3>4. QED
      BY <1>3, <3>2, <3>3
  <2>3. QED
    BY <1>1, <1>2, <2>1, <2>2 DEF HubTypeOK
<1>10. Streaming(c)' = Streaming(c)
  BY <1>2, <1>4, <1>5, <1>8 DEF Streaming
<1>11. h \notin Elems(got[c]) /\ h \notin Elems(filling[c]) /\ h \in Elems(queue[c])
  BY <1>4, <1>6 DEF Apart
<1>12. Apart(c)'
  BY <1>2, <1>4, <1>5, <1>6, <1>7, <1>8, <1>10, <1>11 DEF Apart
<1>13. Published(c)' /\ Complete(c)'
  BY <1>2, <1>6, <1>7, <1>10 DEF Published, Complete
<1>14. QED
  BY <1>7, <1>9, <1>12, <1>13 DEF ClientInv

LEMMA StateInv ==
  ASSUME HubInv, NEW c \in Clients, Opened(c) \/ Unregister(c)
  PROVE  HubTypeOK' /\ ClientInv(c)'
<1>1. HubTypeOK /\ ClientInv(c)
  BY DEF HubInv
<1>2. UNCHANGED <<seq, history, queue, sending, filling, got, dropped, base>>
  BY DEF Opened, Unregister
<1>3. /\ subscribers' \subseteq subscribers
      /\ state' \in [Clients -> {"new", "filling", "open", "closed"}] /\ state'[c] # "new"
  BY <1>1 DEF Opened, Unregister, HubTypeOK
<1>4. HubTypeOK'
  BY <1>1, <1>2, <1>3 DEF HubTypeOK
<1>5. Pending(c)' = Pending(c) /\ Streaming(c)' = Streaming(c)
  BY <1>2 DEF Pending, Streaming
<1>6. Apart(c)' /\ Published(c)'
  BY <1>1, <1>2, <1>5 DEF ClientInv, Apart, Published
<1>7. Fresh(c)' /\ Complete(c)' /\ DifferentEvents(c)'
  BY <1>1, <1>2, <1>3, <1>5 DEF ClientInv, Fresh, Complete, DifferentEvents
<1>8. QED
  BY <1>4, <1>6, <1>7 DEF ClientInv

LEMMA HubStep ==
  ASSUME HubInv, [HubNext]_hub
  PROVE  HubInv'
<1>1. ASSUME NEW c \in Clients, Client(c)
      PROVE  HubInv'
  <2>1. HubTypeOK' /\ ClientInv(c)'
    BY <1>1, RegisterInv, FillInv, GetInv, StateInv DEF Client
  <2>2. HistoryIs'
    <3>1. history' = history /\ seq' = seq
      BY <1>1 DEF Client, Register, Fill, Opened, Get, Unregister
    <3>2. QED
      BY <3>1 DEF HubInv, HistoryIs
  <2>3. \A d \in Clients : ClientInv(d)'
    BY <1>1, <2>1, OthersKept
  <2>4. QED
    BY <2>1, <2>2, <2>3 DEF HubInv
<1>2. CASE UNCHANGED hub
  <2>1. HubTypeOK'
    BY <1>2 DEF HubInv, HubTypeOK, hub
  <2>2. HistoryIs'
    BY <1>2 DEF HubInv, HistoryIs, hub
  <2>3. ASSUME NEW c \in Clients
        PROVE  ClientInv(c)'
    BY <1>2, ClientKept DEF HubInv, hub
  <2>4. QED
    BY <2>1, <2>2, <2>3 DEF HubInv
<1>3. QED
  BY <1>1, <1>2, PublishInv, DeliverInv DEF HubNext

\* Stream(c) of the properties is the concatenation of the three places.
LEMMA StreamFacts ==
  ASSUME NEW c \in Clients, HubTypeOK, Apart(c)
  PROVE  Streamed(c) = Streaming(c) /\ Distinct(Stream(c))
<1> DEFINE gq == got[c] \o queue[c]
<1>1. got[c] \in Seq(Nat) /\ queue[c] \in Seq(Nat) /\ filling[c] \in Seq(Nat)
  BY DEF HubTypeOK
<1>2. gq \in Seq(Nat) /\ Elems(gq) = Elems(got[c]) \union Elems(queue[c]) /\ Distinct(gq)
  BY <1>1, ElemsConcat DEF Apart
<1> HIDE DEF gq
<1>3. Elems(gq) \intersect Elems(filling[c]) = {} /\ Distinct(filling[c])
  BY <1>2 DEF Apart
<1>4. /\ Elems(gq \o filling[c]) = Elems(gq) \union Elems(filling[c])
      /\ Distinct(gq \o filling[c])
  BY <1>1, <1>2, <1>3, ElemsConcat
<1>5. Stream(c) = gq \o filling[c]
  BY DEF Stream, gq
<1>6. QED
  BY <1>2, <1>4, <1>5 DEF Streamed, Streaming, Elems

LEMMA HubProperties == HubInv => NothingLost /\ NoDuplicates
<1>1. SUFFICES ASSUME HubInv PROVE NothingLost /\ NoDuplicates
  OBVIOUS
<1>2. HubTypeOK /\ \A c \in Clients : ClientInv(c)
  BY <1>1 DEF HubInv
<1>3. \A c \in Clients : Streamed(c) = Streaming(c) /\ Distinct(Stream(c))
  BY <1>2, StreamFacts DEF ClientInv
<1>4. NothingLost
  BY <1>2, <1>3 DEF NothingLost, ClientInv, Complete, HubTypeOK
<1>5. ASSUME NEW c \in Clients
      PROVE  /\ \A i, j \in 1 .. Len(Stream(c)) : i # j => Stream(c)[i] # Stream(c)[j]
             /\ Streamed(c) \intersect (Pending(c) \union dropped[c]) = {}
             /\ \A p, q \in Publishers :
                  p # q /\ c \in sending[p].to \intersect sending[q].to =>
                    sending[p].event # sending[q].event
  <2>1. \A i, j \in 1 .. Len(Stream(c)) : i # j => Stream(c)[i] # Stream(c)[j]
    BY <1>3 DEF Distinct
  <2>2. Streamed(c) \intersect (Pending(c) \union dropped[c]) = {}
    BY <1>2, <1>3 DEF ClientInv, Apart
  <2>3. QED
    BY <1>2, <2>1, <2>2 DEF ClientInv, DifferentEvents
<1>6. QED
  BY <1>4, <1>5 DEF NoDuplicates

-----------------------------------------------------------------------------
(* The process *)

\* The workload does not change, and a step that is not one of the hub's
\* leaves the hub alone.
LoadOK == load \in Workloads

LEMMA HubOfServer ==
  ASSUME LoadOK, [Next]_vars
  PROVE  [HubNext]_hub /\ LoadOK'
<1> USE DEF LoadOK
<1>1. CASE \E w \in Workers : HandlerPublishes(w) \/ HandlerDelivers(w)
  BY <1>1 DEF HandlerPublishes, HandlerDelivers, HubNext, Workers, work
<1>2. CASE \E c \in load.streams : ClientStep(c)
  <2>1. load.streams \subseteq Clients
    BY ApiAssumption
  <2>2. QED
    BY <1>2, <2>1 DEF ClientStep, HubNext, work
<1>3. ASSUME NEW w \in Workers,
             \/ RateLimit(w) \/ RateStoreFails(w) \/ CheckTimestamp(w)
             \/ CheckSignature(w) \/ NonceStoreFails(w) \/ Respond(w) \/ Sent(w)
      PROVE  hub' = hub /\ load' = load
  BY <1>3 DEF RateLimit, RateStoreFails, CheckTimestamp, CheckSignature, NonceStoreFails,
              Respond, Sent, Goto, Leave
<1>4. CASE \E w \in Workers : \E r \in load.requests : Arrive(w, r)
  BY <1>4 DEF Arrive
<1>5. ASSUME \/ Tick \/ Lifespan \/ \E s \in Sweepers : Sweep(s)
             \/ UNCHANGED vars
      PROVE  hub' = hub /\ load' = load
  BY <1>5 DEF Tick, Lifespan, Sweep, Clean, Rearm, ShutDown, Drained, Stop, Cancel, Stopped,
              work, vars
<1>6. QED
  BY <1>1, <1>2, <1>3, <1>4, <1>5 DEF Next, Work

\* The API process uses the hub as SseHub says: its handlers and connections
\* take the hub's steps and nothing else touches the hub.
THEOREM ApiImplementsHub == Spec => HubSpec
<1>1. Init => HubInit /\ LoadOK
  BY DEF Init, LoadOK
<1>2. LoadOK /\ [Next]_vars => [HubNext]_hub /\ LoadOK'
  BY HubOfServer
<1>3. QED
  BY <1>1, <1>2, PTL DEF Spec, HubSpec

\* No event is lost between a client's history and its live stream: every
\* event from the oldest of the history register gave it on is in its queue,
\* was read, is being put there, or was dropped by the full queue.
THEOREM NothingIsLost == Spec => []NothingLost
<1>1. HubInit => HubInv
  BY HubInitial
<1>2. HubInv /\ [HubNext]_hub => HubInv'
  BY HubStep
<1>3. HubInv => NothingLost
  BY HubProperties
<1>4. QED
  BY <1>1, <1>2, <1>3, ApiImplementsHub, PTL DEF HubSpec

\* No client's stream holds an event twice, although register fills the queue
\* and publishers put into it outside the lock.
THEOREM NoEventTwice == Spec => []NoDuplicates
<1>1. HubInit => HubInv
  BY HubInitial
<1>2. HubInv /\ [HubNext]_hub => HubInv'
  BY HubStep
<1>3. HubInv => NoDuplicates
  BY HubProperties
<1>4. QED
  BY <1>1, <1>2, <1>3, ApiImplementsHub, PTL DEF HubSpec

-----------------------------------------------------------------------------
(* The lifespan. A timer that was stopped stays stopped: the callback arms   *)
(* the next one only if the module variable still holds one. The counter of *)
(* requests in flight is their number.                                       *)

Silent ==
  /\ timer \in [Sweepers -> BOOLEAN] /\ armed \in [Sweepers -> BOOLEAN]
  /\ phase = "stopped" => \A s \in Sweepers : ~timer[s] /\ ~armed[s]

LEMMA SilentStep ==
  ASSUME Silent, [Next]_vars
  PROVE  Silent'
<1>1. ASSUME NEW s \in Sweepers, Clean(s) \/ Rearm(s) \/ Stop(s) \/ Cancel(s)
      PROVE  Silent'
  <2>1. timer' \in [Sweepers -> BOOLEAN] /\ armed' \in [Sweepers -> BOOLEAN]
    BY <1>1 DEF Silent, Clean, Rearm, Stop, Cancel
  <2>2. phase' = phase
    BY <1>1 DEF Clean, Rearm, Stop, Cancel, life
  <2>3. phase = "stopped" => \A t \in Sweepers : ~timer'[t] /\ ~armed'[t]
    BY <1>1 DEF Silent, Clean, Rearm, Stop, Cancel
  <2>4. QED
    BY <2>1, <2>2, <2>3 DEF Silent
<1>2. CASE Stopped
  BY <1>2 DEF Stopped, Silent, timers
<1>3. CASE ShutDown \/ Drained
  BY <1>3 DEF ShutDown, Drained, Silent, timers
<1>4. ASSUME \/ Tick
             \/ \E w \in Workers : Work(w) \/ \E r \in load.requests : Arrive(w, r)
             \/ \E c \in load.streams : ClientStep(c)
             \/ UNCHANGED vars
      PROVE  timer' = timer /\ armed' = armed /\ phase' = phase
  BY <1>4 DEF Tick, Work, RateLimit, RateStoreFails, CheckTimestamp, CheckSignature,
              NonceStoreFails, HandlerPublishes, HandlerDelivers, Respond, Sent, Arrive,
              ClientStep,
              Goto, Leave, timers, life, vars
<1>5. QED
  BY <1>1, <1>2, <1>3, <1>4 DEF Next, Sweep, Lifespan, Silent

\* After the lifespan no sweeper's timer is waiting, also when its callback
\* was running while the scheduler was stopped.
THEOREM SweepersAreSilent == Spec => []SweepersSilent
<1>1. Init => Silent
  BY DEF Init, Silent
<1>2. Silent /\ [Next]_vars => Silent'
  BY SilentStep
<1>3. Silent => SweepersSilent
  BY DEF Silent, SweepersSilent
<1>4. QED
  BY <1>1, <1>2, <1>3, PTL DEF Spec

Busy == {w \in Workers : pc[w] # "idle"}

Counting ==
  /\ pc \in [Workers -> {"idle", "rate", "timestamp", "nonce", "handler"}]
  /\ inflight = Cardinality(Busy)
  /\ clean => phase \in {"stopping", "stopped"} /\ inflight = 0

\* A request that is admitted adds one, one that leaves takes one away.
LEMMA BusySteps ==
  ASSUME Counting, NEW w \in Workers, NEW l \in {"idle", "rate", "timestamp", "nonce", "handler"},
         pc' = [pc EXCEPT ![w] = l]
  PROVE  /\ pc' \in [Workers -> {"idle", "rate", "timestamp", "nonce", "handler"}]
         /\ IsFiniteSet(Busy) /\ Cardinality(Busy) \in Nat
         /\ pc[w] = "idle" /\ l # "idle" => Cardinality(Busy') = Cardinality(Busy) + 1
         /\ pc[w] # "idle" /\ l = "idle" => Cardinality(Busy') = Cardinality(Busy) - 1
         /\ pc[w] # "idle" /\ l # "idle" => Busy' = Busy
<1>1. pc \in [Workers -> {"idle", "rate", "timestamp", "nonce", "handler"}]
  BY DEF Counting
<1>2. IsFiniteSet(Busy) /\ Cardinality(Busy) \in Nat
  <2>1. Busy \subseteq Publishers
    BY DEF Busy, Workers
  <2>2. QED
    BY <2>1, ApiAssumption, FS_Subset, FS_CardinalityType
<1>3. /\ \A v \in Workers : v # w => pc'[v] = pc[v]
      /\ pc'[w] = l
  BY <1>1
<1>4. pc[w] = "idle" /\ l # "idle" => Busy' = Busy \union {w} /\ w \notin Busy
  BY <1>3 DEF Busy
<1>5. pc[w] # "idle" /\ l = "idle" => Busy' = Busy \ {w} /\ w \in Busy
  BY <1>3 DEF Busy
<1>6. pc[w] # "idle" /\ l # "idle" => Busy' = Busy
  BY <1>3 DEF Busy
<1>7. QED
  BY <1>1, <1>2, <1>4, <1>5, <1>6, FS_AddElement, FS_RemoveElement

LEMMA CountingStep ==
  ASSUME Counting, [Next]_vars
  PROVE  Counting'
<1>1. ASSUME NEW w \in Workers, NEW r \in load.requests, Arrive(w, r)
      PROVE  Counting'
  <2>1. CASE Admit(w, r)
    <3>1. phase' = phase /\ clean' = clean /\ phase = "up" /\ pc[w] = "idle"
          /\ pc' = [pc EXCEPT ![w] = "rate"] /\ inflight' = inflight + 1
      BY <1>1, <2>1 DEF Arrive, Admit
    <3>2. Cardinality(Busy') = Cardinality(Busy) + 1
          /\ pc' \in [Workers -> {"idle", "rate", "timestamp", "nonce", "handler"}]
      BY <3>1, BusySteps
    <3>3. QED
      BY <3>1, <3>2 DEF Counting
  <2>2. CASE UNCHANGED <<pc, req, inflight>>
    BY <1>1, <2>2 DEF Arrive, Counting, Busy
  <2>3. QED
    BY <1>1, <2>1, <2>2 DEF Arrive
<1>2. ASSUME NEW w \in Workers, pc[w] # "idle", Leave(w)
      PROVE  Counting'
  <2>1. pc' = [pc EXCEPT ![w] = "idle"] /\ inflight' = inflight - 1
        /\ phase' = phase /\ clean' = clean
    BY <1>2 DEF Leave
  <2>2. Cardinality(Busy') = Cardinality(Busy) - 1 /\ Cardinality(Busy) \in Nat
        /\ pc' \in [Workers -> {"idle", "rate", "timestamp", "nonce", "handler"}]
    BY <1>2, <2>1, BusySteps
  <2>3. inflight # 0
    <3>1. Busy # {} /\ IsFiniteSet(Busy)
      BY <1>2, <2>1, BusySteps DEF Busy
    <3>2. QED
      BY <3>1, FS_EmptySet DEF Counting
  <2>4. QED
    BY <2>1, <2>2, <2>3 DEF Counting
<1>3. ASSUME NEW w \in Workers, pc[w] # "idle",
             NEW l \in {"rate", "timestamp", "nonce", "handler"}, Goto(w, l)
      PROVE  Counting'
  <2>1. pc' = [pc EXCEPT ![w] = l] /\ inflight' = inflight
        /\ phase' = phase /\ clean' = clean
    BY <1>3 DEF Goto, life
  <2>2. Busy' = Busy /\ pc' \in [Workers -> {"idle", "rate", "timestamp", "nonce", "handler"}]
    BY <1>3, <2>1, BusySteps
  <2>3. QED
    BY <2>1, <2>2 DEF Counting
<1>4. ASSUME NEW w \in Workers, Work(w)
      PROVE  Counting'
  <2>1. CASE UNCHANGED <<pc, life>>
    BY <2>1 DEF Counting, Busy, life
  <2>2. \/ UNCHANGED <<pc, life>>
        \/ pc[w] # "idle" /\ Leave(w)
        \/ pc[w] # "idle" /\ \E l \in {"rate", "timestamp", "nonce", "handler"} : Goto(w, l)
    BY <1>4 DEF Work, RateLimit, RateStoreFails, CheckTimestamp, CheckSignature,
                NonceStoreFails, HandlerPublishes, HandlerDelivers, Respond, Sent, AfterRate, work
  <2>3. QED
    BY <1>2, <1>3, <2>1, <2>2
<1>5. CASE Drained
  <2>1. Cardinality(Busy) \in Nat
    <3>1. Busy \subseteq Publishers
      BY DEF Busy, Workers
    <3>2. QED
      BY <3>1, ApiAssumption, FS_Subset, FS_CardinalityType
  <2>2. pc' = pc /\ inflight' = inflight /\ phase' = "stopping" /\ clean' = (inflight <= 0)
    BY <1>5 DEF Drained, work
  <2>3. Busy' = Busy
    BY <2>2 DEF Busy
  <2>4. clean' => inflight = 0
    <3>1. clean' => inflight <= 0
      BY <2>2, Zenon
    <3>2. inflight <= 0 => inflight = 0
      BY <2>1 DEF Counting
    <3>3. QED
      BY <3>1, <3>2
  <2>5. QED
    BY <2>2, <2>3, <2>4 DEF Counting
<1>6. CASE ShutDown \/ Stopped
  BY <1>6 DEF ShutDown, Stopped, Counting, Busy, work
<1>7. ASSUME \/ Tick
             \/ \E s \in Sweepers : Sweep(s) \/ Stop(s) \/ Cancel(s)
             \/ \E c \in load.streams : ClientStep(c)
             \/ UNCHANGED vars
      PROVE  pc' = pc /\ inflight' = inflight /\ clean' = clean /\ phase' = phase
  BY <1>7 DEF Tick, Sweep, Clean, Rearm, Stop, Cancel, ClientStep, work, life, vars
<1>8. CASE pc' = pc /\ inflight' = inflight /\ clean' = clean /\ phase' = phase
  BY <1>8 DEF Counting, Busy
<1>9. QED
  BY <1>1, <1>4, <1>5, <1>6, <1>7, <1>8 DEF Next, Lifespan

\* A drain that ends before its deadline has waited for every request the
\* middleware let in: the counter is the number of requests in flight, and
\* none is admitted once the drain has begun.
THEOREM DrainIsHonest == Spec => []DrainHonest
<1>1. Init => Counting
  <2>1. Init => Busy = {} /\ pc \in [Workers -> {"idle", "rate", "timestamp", "nonce", "handler"}]
    BY DEF Init, Busy
  <2>2. QED
    BY <2>1, FS_EmptySet DEF Init, Counting
<1>2. Counting /\ [Next]_vars => Counting'
  BY CountingStep
<1>3. Counting => DrainHonest
  <2>1. SUFFICES ASSUME Counting, clean PROVE \A w \in Workers : pc[w] = "idle"
    BY DEF DrainHonest
  <2>2. IsFiniteSet(Busy)
    <3>1. Busy \subseteq Publishers
      BY DEF Busy, Workers
    <3>2. QED
      BY <3>1, ApiAssumption, FS_Subset
  <2>3. Busy = {}
    BY <2>1, <2>2, FS_EmptySet DEF Counting
  <2>4. QED
    BY <2>3 DEF Busy
<1>4. QED
  BY <1>1, <1>2, <1>3, PTL DEF Spec

-----------------------------------------------------------------------------
(* The rate limit, for the times P of the requests that one key got through, *)
(* its count n and window start s, the time t and the store d. The last     *)
(* requests, as many as the window counts, lie in the window; those before   *)
(* it lie before the window, and those a whole limit earlier more than a     *)
(* window before it. A bucket that was swept leaves no request that is       *)
(* younger than a window.                                                    *)

Used(n) == IF n < Limit THEN n ELSE Limit

Spaced(P) == \A i \in 1 .. Len(P) : i + 2 * Limit <= Len(P) => P[i + 2 * Limit] - P[i] > Window

InWindow(P, n, s, d) ==
  /\ Used(n) <= Len(P)
  /\ \A i \in 1 .. Len(P) :
       /\ i > Len(P) - Used(n) => s <= P[i] /\ P[i] <= s + Window
       /\ i > Len(P) - Used(n) /\ d = "redis" => P[i] < s + Window
       /\ i <= Len(P) - Used(n) => P[i] < s
       /\ i <= Len(P) - Used(n) - Limit => P[i] + Window < s

Charged(P, n, s, t, d) ==
  /\ P \in Seq(Nat) /\ n \in Nat /\ s \in Nat /\ t \in Nat /\ s <= t
  /\ \A i \in 1 .. Len(P) : P[i] <= t
  /\ n = 0 => \A i \in 1 .. Len(P) : P[i] + Window < t
  /\ n > 0 => InWindow(P, n, s, d)
  /\ Spaced(P)

Over(s, t, d) == IF d = "redis" THEN t - s >= Window ELSE t - s > Window

LEMMA ChargedLater ==
  ASSUME NEW P, NEW n, NEW s, NEW t, NEW d, Charged(P, n, s, t, d)
  PROVE  Charged(P, n, s, t + 1, d)
<1>1. P \in Seq(Nat) /\ t \in Nat /\ s \in Nat /\ Len(P) \in Nat
      /\ \A i \in 1 .. Len(P) : P[i] \in Nat
  BY DEF Charged
<1>2. Window \in Nat
  BY ApiAssumption
<1>3. QED
  BY <1>1, <1>2 DEF Charged

LEMMA ChargedSwept ==
  ASSUME NEW P, NEW n, NEW s, NEW t, Charged(P, n, s, t, "memory"), t - s > 4 * Window
  PROVE  Charged(P, 0, 0, t, "memory")
<1>1. P \in Seq(Nat) /\ t \in Nat /\ s \in Nat /\ n \in Nat /\ Len(P) \in Nat
      /\ \A i \in 1 .. Len(P) : P[i] \in Nat
  BY DEF Charged
<1>2. Window \in Nat /\ Limit \in Nat
  BY ApiAssumption
<1>3. ASSUME NEW i \in 1 .. Len(P)
      PROVE  P[i] + Window < t
  <2>1. CASE n = 0
    BY <2>1 DEF Charged
  <2>2. CASE n > 0
    <3>1. InWindow(P, n, s, "memory") /\ Used(n) \in Nat
      BY <1>1, <1>2, <2>2 DEF Charged, Used
    <3>a. i > Len(P) - Used(n) => P[i] <= s + Window
      BY <3>1 DEF InWindow
    <3>b. i <= Len(P) - Used(n) => P[i] < s
      BY <3>1 DEF InWindow
    <3>c. i > Len(P) - Used(n) \/ i <= Len(P) - Used(n)
      BY <1>1, <3>1
    <3>d. P[i] \in Nat
      BY <1>1
    <3>2. P[i] <= s + Window
      BY <1>1, <1>2, <3>a, <3>b, <3>c, <3>d
    <3>3. QED
      BY <1>1, <1>2, <3>2, <3>d
  <2>3. QED
    BY <1>1, <2>1, <2>2
<1>4. QED
  BY <1>1, <1>3 DEF Charged

LEMMA ChargedRefused ==
  ASSUME NEW P, NEW n, NEW s, NEW t, NEW d, Charged(P, n, s, t, d), n >= Limit
  PROVE  Charged(P, n + 1, s, t, d)
<1>1. n \in Nat /\ Limit \in Nat /\ Limit > 0
  BY ApiAssumption DEF Charged
<1>2. Used(n + 1) = Used(n) /\ n > 0 /\ n + 1 > 0 /\ n + 1 \in Nat /\ n + 1 # 0
  BY <1>1 DEF Used
<1>3. InWindow(P, n, s, d) => InWindow(P, n + 1, s, d)
  BY <1>2 DEF InWindow
<1>4. QED
  BY <1>2, <1>3 DEF Charged

\* A request that opens a window.
LEMMA ChargedFirst ==
  ASSUME NEW P, NEW n, NEW s, NEW t, NEW d, Charged(P, n, s, t, d), n = 0 \/ Over(s, t, d)
  PROVE  Charged(Append(P, t), 1, t, t, d)
<1> DEFINE Q == Append(P, t)
<1>1. /\ P \in Seq(Nat) /\ t \in Nat /\ s \in Nat /\ n \in Nat /\ Len(P) \in Nat /\ s <= t
      /\ \A i \in 1 .. Len(P) : P[i] \in Nat /\ P[i] <= t
      /\ Spaced(P)
  BY DEF Charged
<1>2. Window \in Nat /\ Limit \in Nat /\ Window > 0 /\ Limit > 0
  BY ApiAssumption
<1>3. /\ Q \in Seq(Nat) /\ Len(Q) = Len(P) + 1
      /\ \A i \in 1 .. Len(P) : Q[i] = P[i]
      /\ Q[Len(P) + 1] = t
  BY <1>1, AppendFacts
<1> HIDE DEF Q
<1>4. ASSUME NEW i \in 1 .. Len(P)
      PROVE  P[i] < t /\ (i <= Len(P) - Limit => P[i] + Window < t)
  <2>1. CASE n = 0
    <3>1. P[i] + Window < t
      BY <2>1 DEF Charged
    <3>2. QED
      BY <1>1, <1>2, <3>1
  <2>2. CASE n > 0 /\ Over(s, t, d)
    <3>1. InWindow(P, n, s, d) /\ Used(n) \in Nat /\ Used(n) <= Limit
      BY <1>1, <1>2, <2>2 DEF Charged, Used
    <3>2. /\ i > Len(P) - Used(n) => P[i] <= s + Window
          /\ i > Len(P) - Used(n) /\ d = "redis" => P[i] < s + Window
          /\ i <= Len(P) - Used(n) => P[i] < s
      BY <3>1 DEF InWindow
    <3>3. t - s >= Window /\ (d # "redis" => t - s > Window)
      BY <1>1, <1>2, <2>2 DEF Over
    <3>4. P[i] < t
      BY <1>1, <1>2, <3>1, <3>2, <3>3
    <3>5. i <= Len(P) - Limit => P[i] + Window < t
      BY <1>1, <1>2, <3>1, <3>2, <3>3
    <3>6. QED
      BY <3>4, <3>5
  <2>3. QED
    BY <1>1, <2>1, <2>2
<1>5. \A i \in 1 .. Len(Q) : i \in 1 .. Len(P) \/ i = Len(P) + 1
  BY <1>1, <1>3
<1>6. Used(1) = 1 /\ 1 <= Len(Q)
  BY <1>1, <1>2, <1>3 DEF Used
<1>7. InWindow(Q, 1, t, d)
  <2>1. SUFFICES ASSUME NEW i \in 1 .. Len(Q)
                 PROVE  /\ i > Len(Q) - 1 => t <= Q[i] /\ Q[i] <= t + Window
                        /\ i > Len(Q) - 1 /\ d = "redis" => Q[i] < t + Window
                        /\ i <= Len(Q) - 1 => Q[i] < t
                        /\ i <= Len(Q) - 1 - Limit => Q[i] + Window < t
    BY <1>6 DEF InWindow
  <2>2. CASE i \in 1 .. Len(P)
    <3>1. /\ Len(Q) - 1 = Len(P) /\ Q[i] = P[i] /\ P[i] < t
          /\ i <= Len(P) - Limit => P[i] + Window < t
      BY <1>1, <1>3, <1>4, <2>2
    <3>2. ~(i > Len(P))
      BY <1>1, <2>2
    <3>3. QED
      BY <3>1, <3>2
  <2>3. CASE i = Len(P) + 1
    <3>1. Len(Q) - 1 = Len(P) /\ Q[i] = t /\ ~(i <= Len(P)) /\ ~(i <= Len(P) - Limit)
      BY <1>1, <1>2, <1>3, <2>3
    <3>2. t <= t /\ t <= t + Window /\ t < t + Window
      BY <1>1, <1>2
    <3>3. QED
      BY <3>1, <3>2
  <2>4. QED
    BY <1>5, <2>2, <2>3
<1>8. Spaced(Q)
  <2>1. SUFFICES ASSUME NEW i \in 1 .. Len(Q), i + 2 * Limit <= Len(Q)
                 PROVE  Q[i + 2 * Limit] - Q[i] > Window
    BY DEF Spaced
  <2>2. i \in 1 .. Len(P) /\ Q[i] = P[i]
    BY <1>1, <1>2, <1>3, <2>1
  <2>3. CASE i + 2 * Limit = Len(P) + 1
    <3>1. i <= Len(P) - Limit
      BY <1>1, <1>2, <2>2, <2>3
    <3>2. P[i] + Window < t /\ P[i] \in Nat
      BY <1>1, <1>4, <2>2, <3>1
    <3>3. Q[i + 2 * Limit] = t /\ Q[i] = P[i]
      BY <1>3, <2>2, <2>3
    <3>4. t - P[i] > Window
      BY <1>1, <1>2, <3>2
    <3>5. QED
      BY <3>3, <3>4
  <2>4. CASE i + 2 * Limit <= Len(P)
    <3>1. i + 2 * Limit \in 1 .. Len(P)
      BY <1>1, <1>2, <2>2, <2>4
    <3>2. QED
      BY <1>1, <1>3, <2>2, <2>4, <3>1 DEF Spaced
  <2>5. i + 2 * Limit = Len(P) + 1 \/ i + 2 * Limit <= Len(P)
    <3>1. i \in Nat /\ i + 2 * Limit <= Len(P) + 1
      BY <1>3, <2>1, <2>2
    <3>2. i + 2 * Limit \in Nat
      BY <1>2, <3>1
    <3>3. \A x, y \in Nat : x <= y + 1 => x = y + 1 \/ x <= y
      OBVIOUS
    <3>4. QED
      BY <1>1, <3>1, <3>2, <3>3
  <2>6. QED
    BY <2>3, <2>4, <2>5
<1>9. \A i \in 1 .. Len(Q) : Q[i] <= t
  <2>1. t <= t
    BY <1>1
  <2>2. QED
    BY <2>1, <1>1, <1>3, <1>5
<1>10. Charged(Q, 1, t, t, d)
  BY <1>1, <1>3, <1>7, <1>8, <1>9 DEF Charged
<1>11. QED
  BY <1>10 DEF Q

\* A request that the window still has room for.
LEMMA ChargedAgain ==
  ASSUME NEW P, NEW n, NEW s, NEW t, NEW d, Charged(P, n, s, t, d), n # 0, ~Over(s, t, d),
         n + 1 <= Limit
  PROVE  Charged(Append(P, t), n + 1, s, t, d)
<1> DEFINE Q == Append(P, t)
<1>1. /\ P \in Seq(Nat) /\ t \in Nat /\ s \in Nat /\ n \in Nat /\ Len(P) \in Nat /\ s <= t
      /\ \A i \in 1 .. Len(P) : P[i] \in Nat /\ P[i] <= t
      /\ Spaced(P)
  BY DEF Charged
<1>2. Window \in Nat /\ Limit \in Nat /\ Window > 0 /\ Limit > 0
  BY ApiAssumption
<1>3. /\ Q \in Seq(Nat) /\ Len(Q) = Len(P) + 1
      /\ \A i \in 1 .. Len(P) : Q[i] = P[i]
      /\ Q[Len(P) + 1] = t
  BY <1>1, AppendFacts
<1> HIDE DEF Q
<1>4. InWindow(P, n, s, d)
  BY <1>1 DEF Charged
<1>5. Used(n) = n /\ Used(n + 1) = n + 1
  BY <1>1, <1>2 DEF Used
<1>6. t <= s + Window /\ (d = "redis" => t < s + Window)
  BY <1>1, <1>2 DEF Over
<1>7. \A i \in 1 .. Len(Q) : i \in 1 .. Len(P) \/ i = Len(P) + 1
  BY <1>1, <1>3
<1>8. ASSUME NEW i \in 1 .. Len(P)
      PROVE  /\ i > Len(P) - n => s <= P[i] /\ P[i] <= s + Window
             /\ i > Len(P) - n /\ d = "redis" => P[i] < s + Window
             /\ i <= Len(P) - n => P[i] < s
             /\ i <= Len(P) - n - Limit => P[i] + Window < s
  BY <1>4, <1>5 DEF InWindow
<1>9. Len(Q) - (n + 1) = Len(P) - n /\ n + 1 <= Len(Q)
  <2>1. n <= Len(P)
    BY <1>4, <1>5 DEF InWindow
  <2>2. QED
    BY <1>1, <1>3, <2>1
<1>10. InWindow(Q, n + 1, s, d)
  <2>1. SUFFICES ASSUME NEW i \in 1 .. Len(Q)
                 PROVE  /\ i > Len(P) - n => s <= Q[i] /\ Q[i] <= s + Window
                        /\ i > Len(P) - n /\ d = "redis" => Q[i] < s + Window
                        /\ i <= Len(P) - n => Q[i] < s
                        /\ i <= Len(P) - n - Limit => Q[i] + Window < s
    BY <1>5, <1>9 DEF InWindow
  <2>2. CASE i \in 1 .. Len(P)
    BY <1>3, <1>8, <2>2
  <2>3. CASE i = Len(P) + 1
    BY <1>1, <1>2, <1>3, <1>6, <2>3
  <2>4. QED
    BY <1>7, <2>2, <2>3
<1>11. Spaced(Q)
  <2>1. SUFFICES ASSUME NEW i \in 1 .. Len(Q), i + 2 * Limit <= Len(Q)
                 PROVE  Q[i + 2 * Limit] - Q[i] > Window
    BY DEF Spaced
  <2>2. i \in 1 .. Len(P) /\ Q[i] = P[i]
    BY <1>1, <1>2, <1>3, <2>1
  <2>3. CASE i + 2 * Limit = Len(P) + 1
    <3>1. i <= Len(P) - n - Limit
      BY <1>1, <1>2, <2>2, <2>3
    <3>2. P[i] + Window < s /\ P[i] \in Nat
      BY <1>1, <1>8, <2>2, <3>1
    <3>3. Q[i + 2 * Limit] = t /\ Q[i] = P[i]
      BY <1>3, <2>2, <2>3
    <3>4. t - P[i] > Window
      BY <1>1, <1>2, <3>2
    <3>5. QED
      BY <3>3, <3>4
  <2>4. CASE i + 2 * Limit <= Len(P)
    <3>1. i + 2 * Limit \in 1 .. Len(P)
      BY <1>1, <1>2, <2>2, <2>4
    <3>2. QED
      BY <1>1, <1>3, <2>2, <2>4, <3>1 DEF Spaced
  <2>5. i + 2 * Limit = Len(P) + 1 \/ i + 2 * Limit <= Len(P)
    <3>1. i \in Nat /\ i + 2 * Limit <= Len(P) + 1
      BY <1>3, <2>1, <2>2
    <3>2. i + 2 * Limit \in Nat
      BY <1>2, <3>1
    <3>3. \A x, y \in Nat : x <= y + 1 => x = y + 1 \/ x <= y
      OBVIOUS
    <3>4. QED
      BY <1>1, <3>1, <3>2, <3>3
  <2>6. QED
    BY <2>3, <2>4, <2>5
<1>12. \A i \in 1 .. Len(Q) : Q[i] <= t
  <2>1. t <= t
    BY <1>1
  <2>2. QED
    BY <2>1, <1>1, <1>3, <1>7
<1>13. Charged(Q, n + 1, s, t, d)
  BY <1>1, <1>3, <1>10, <1>11, <1>12 DEF Charged
<1>14. QED
  BY <1>13 DEF Q

\* What is left of this for a key whose bucket was dropped for lack of room:
\* the window counts requests that lie in it.
Counted(P, n, s, t) ==
  /\ P \in Seq(Nat) /\ n \in Nat /\ s \in Nat /\ t \in Nat /\ s <= t
  /\ n > 0 => /\ Used(n) <= Len(P)
              /\ \A i \in 1 .. Len(P) : i > Len(P) - Used(n) => s <= P[i]

LEMMA CountedRefused ==
  ASSUME NEW P, NEW n, NEW s, NEW t, Counted(P, n, s, t), n >= Limit
  PROVE  Counted(P, n + 1, s, t)
<1>1. n \in Nat /\ Limit \in Nat /\ Limit > 0
  BY ApiAssumption DEF Counted
<1>2. Used(n + 1) = Used(n) /\ n > 0 /\ n + 1 \in Nat
  BY <1>1 DEF Used
<1>3. QED
  BY <1>2 DEF Counted

\* A request that opens a window, or that the window has room for.
LEMMA CountedPassed ==
  ASSUME NEW P, NEW n, NEW s, NEW t, Counted(P, n, s, t), n + 1 <= Limit
  PROVE  /\ Counted(Append(P, t), 1, t, t)
         /\ n > 0 => Counted(Append(P, t), n + 1, s, t)
<1> DEFINE Q == Append(P, t)
<1>1. /\ P \in Seq(Nat) /\ t \in Nat /\ s \in Nat /\ n \in Nat /\ Len(P) \in Nat /\ s <= t
      /\ Limit \in Nat
  BY ApiAssumption DEF Counted
<1>2. /\ Q \in Seq(Nat) /\ Len(Q) = Len(P) + 1
      /\ \A i \in 1 .. Len(P) : Q[i] = P[i]
      /\ Q[Len(P) + 1] = t
  BY <1>1, AppendFacts
<1> HIDE DEF Q
<1>3. \A i \in 1 .. Len(Q) : i \in 1 .. Len(P) \/ i = Len(P) + 1
  BY <1>1, <1>2
<1>4. Used(1) = 1 /\ Used(n) = n /\ Used(n + 1) = n + 1
  BY <1>1 DEF Used
<1>5. Counted(Q, 1, t, t)
  <2>1. \A i \in 1 .. Len(Q) : i > Len(Q) - 1 => i = Len(P) + 1
    BY <1>1, <1>2
  <2>2. t <= t /\ 1 <= Len(Q)
    BY <1>1, <1>2
  <2>3. QED
    BY <1>1, <1>2, <1>4, <2>1, <2>2 DEF Counted
<1>6. ASSUME n > 0
      PROVE  Counted(Q, n + 1, s, t)
  <2>1. n <= Len(P) /\ \A i \in 1 .. Len(P) : i > Len(P) - n => s <= P[i]
    BY <1>4, <1>6 DEF Counted
  <2>2. \A i \in 1 .. Len(P) : i > Len(Q) - (n + 1) => i > Len(P) - n
    BY <1>1, <1>2
  <2>3. \A i \in 1 .. Len(Q) : i > Len(Q) - (n + 1) => s <= Q[i]
    BY <1>1, <1>2, <1>3, <2>1, <2>2
  <2>4. n + 1 <= Len(Q) /\ n + 1 \in Nat
    BY <1>1, <1>2, <2>1
  <2>5. QED
    BY <1>1, <1>2, <1>4, <2>3, <2>4 DEF Counted
<1>7. QED
  BY <1>5, <1>6 DEF Q

\* The requests in hand carry configured keys; every bucket counts requests of
\* its window, and one that was never dropped for lack of room is charged.
RateInv ==
  /\ now \in Nat
  /\ pc \in [Workers -> {"idle", "rate", "timestamp", "nonce", "handler"}]
  /\ req = [w \in Workers |-> req[w]]
  /\ \A w \in Workers : pc[w] # "idle" => req[w].key \in Keys
  /\ rate \in [Keys -> [count : Nat, start : Nat]]
  /\ passed \in [Keys -> Seq(Nat)]
  /\ store \in {"memory", "redis"}
  /\ \A k \in Keys : Counted(passed[k], rate[k].count, rate[k].start, now)
  /\ \A k \in Keys \ evicted : Charged(passed[k], rate[k].count, rate[k].start, now, store)

LEMMA RateInitial == Init => RateInv
<1>1. SUFFICES ASSUME Init PROVE RateInv
  OBVIOUS
<1>2. store \in {"memory", "redis"}
  BY <1>1, ApiAssumption DEF Init
<1>3. /\ now = 0 /\ \A w \in Workers : pc[w] = "idle"
      /\ req = [w \in Workers |-> req[w]]
      /\ pc \in [Workers -> {"idle", "rate", "timestamp", "nonce", "handler"}]
      /\ rate \in [Keys -> [count : Nat, start : Nat]]
      /\ passed \in [Keys -> Seq(Nat)]
      /\ \A k \in Keys : rate[k].count = 0 /\ rate[k].start = 0 /\ passed[k] = <<>>
  BY <1>1 DEF Init, NoBucket
<1>4. Charged(<<>>, 0, 0, 0, store) /\ Counted(<<>>, 0, 0, 0)
  BY DEF Charged, Spaced, Counted
<1>5. QED
  BY <1>2, <1>3, <1>4 DEF RateInv

\* The requests in hand after a step of a worker.
LEMMA KeysKept ==
  ASSUME RateInv, NEW w \in Workers,
         \/ pc[w] # "idle" /\ Leave(w)
         \/ pc[w] # "idle" /\ \E l \in {"rate", "timestamp", "nonce", "handler"} : Goto(w, l)
         \/ \E r : Admit(w, r)
         \/ UNCHANGED <<pc, req>>
  PROVE  /\ pc' \in [Workers -> {"idle", "rate", "timestamp", "nonce", "handler"}]
         /\ req' = [v \in Workers |-> req'[v]]
         /\ \A v \in Workers : pc'[v] # "idle" => req'[v].key \in Keys
<1>1. pc \in [Workers -> {"idle", "rate", "timestamp", "nonce", "handler"}]
      /\ req = [v \in Workers |-> req[v]]
  BY DEF RateInv
<1>2. pc' \in [Workers -> {"idle", "rate", "timestamp", "nonce", "handler"}]
  BY <1>1 DEF Leave, Goto, Admit
<1>3. req' = [v \in Workers |-> req'[v]]
  BY <1>1 DEF Leave, Goto, Admit
<1>4. ASSUME NEW v \in Workers, pc'[v] # "idle"
      PROVE  req'[v].key \in Keys
  <2>1. CASE req'[v] = req[v] /\ pc[v] # "idle"
    BY <2>1 DEF RateInv
  <2>2. CASE \E r : Admit(w, r) /\ v = w
    BY <1>1, <2>2 DEF Admit
  <2>3. v # w => req'[v] = req[v] /\ pc'[v] = pc[v]
    BY <1>1 DEF Leave, Goto, Admit
  <2>4. v = w => (req'[v] = req[v] /\ pc[v] # "idle") \/ \E r : Admit(w, r)
    BY <1>1, <1>4 DEF Leave, Goto, Admit
  <2>5. QED
    BY <1>4, <2>1, <2>2, <2>3, <2>4
<1>5. QED
  BY <1>2, <1>4, <1>3

\* What a clean-up leaves: it drops buckets of windows that are long over, and
\* evicts the others that it drops.
LEMMA CleanedUp ==
  ASSUME RateInv
  PROVE  /\ CleanupRate \in [Keys -> [count : Nat, start : Nat]]
         /\ \A k \in Keys :
              /\ Counted(passed[k], CleanupRate[k].count, CleanupRate[k].start, now)
              /\ CleanupRate[k].count # 0 => CleanupRate[k] = rate[k]
         /\ \A k \in Keys : k \notin evicted \union (Dropped \ Old) =>
              Charged(passed[k], CleanupRate[k].count, CleanupRate[k].start, now, store)
         /\ store = "redis" => CleanupRate = rate
<1>1. rate \in [Keys -> [count : Nat, start : Nat]] /\ now \in Nat
  BY DEF RateInv
<1>2. NoBucket \in [count : Nat, start : Nat] /\ NoBucket.count = 0 /\ NoBucket.start = 0
  BY DEF NoBucket
<1>3. \A k \in Keys : \/ k \notin Dropped /\ CleanupRate[k] = rate[k]
                      \/ k \in Dropped /\ CleanupRate[k] = NoBucket
  BY DEF CleanupRate
<1>4. CleanupRate \in [Keys -> [count : Nat, start : Nat]]
  <2>1. \A k \in Keys : CleanupRate[k] \in [count : Nat, start : Nat]
    BY <1>1, <1>2, <1>3
  <2>2. CleanupRate = [k \in Keys |-> CleanupRate[k]]
    BY DEF CleanupRate
  <2> HIDE DEF CleanupRate
  <2>3. QED
    BY <2>1, <2>2
<1>5. ASSUME NEW k \in Keys
      PROVE  /\ Counted(passed[k], CleanupRate[k].count, CleanupRate[k].start, now)
             /\ CleanupRate[k].count # 0 => CleanupRate[k] = rate[k]
  <2>1. Counted(passed[k], rate[k].count, rate[k].start, now)
    BY DEF RateInv
  <2>2. Counted(passed[k], 0, 0, now)
    BY <1>1, <2>1 DEF Counted
  <2>3. QED
    BY <1>2, <1>3, <2>1, <2>2
<1>6. ASSUME NEW k \in Keys, k \notin evicted \union (Dropped \ Old)
      PROVE  Charged(passed[k], CleanupRate[k].count, CleanupRate[k].start, now, store)
  <2>1. Charged(passed[k], rate[k].count, rate[k].start, now, store)
    BY <1>6 DEF RateInv
  <2>2. ASSUME k \in Dropped
        PROVE  store = "memory" /\ now - rate[k].start > 4 * Window
    <3>1. store = "memory"
      BY <2>2, Zenon DEF Dropped
    <3>2. k \in Old
      BY <1>6, <2>2
    <3>3. QED
      BY <3>1, <3>2 DEF Old
  <2>3. k \in Dropped => Charged(passed[k], 0, 0, now, store)
    BY <2>1, <2>2, ChargedSwept
  <2>4. QED
    BY <1>2, <1>3, <2>1, <2>3
<1>7. ASSUME store = "redis"
      PROVE  CleanupRate = rate
  <2>1. Dropped = {}
    BY <1>7 DEF Dropped
  <2>2. QED
    BY <1>1, <2>1 DEF CleanupRate
<1>8. QED
  BY <1>4, <1>5, <1>6, <1>7

\* enforce_rate_limit keeps the bucket of its key charged.
LEMMA RateLimitInv ==
  ASSUME RateInv, NEW w \in Workers, RateLimit(w)
  PROVE  RateInv'
<1> DEFINE k == req[w].key
           b == Bucket(k)
           c == CleanupRate
<1>1. pc[w] = "rate" /\ k \in Keys /\ now \in Nat /\ passed \in [Keys -> Seq(Nat)]
  BY DEF RateInv, RateLimit
<1>2. now' = now /\ store' = store /\ evicted' = evicted \union (Dropped \ Old)
  BY DEF RateLimit
<1>a. /\ c \in [Keys -> [count : Nat, start : Nat]]
      /\ \A j \in Keys : Counted(passed[j], c[j].count, c[j].start, now)
      /\ \A j \in Keys \ evicted' : Charged(passed[j], c[j].count, c[j].start, now, store)
      /\ c[k].count # 0 => c[k] = rate[k]
  <2> HIDE DEF k
  <2>1. \A j \in Keys : j \notin evicted' =>
          Charged(passed[j], c[j].count, c[j].start, now, store)
    BY <1>2, CleanedUp
  <2>2. QED
    BY <1>1, <2>1, CleanedUp
<1>3. Limit \in Nat /\ Limit > 0 /\ c[k].count \in Nat /\ c[k].start \in Nat
  BY <1>1, <1>a, ApiAssumption
<1>4. c[k].count # 0 => (WindowOver(k) <=> Over(c[k].start, now, store))
  BY <1>a DEF WindowOver, Over
<1>5. \/ /\ c[k].count = 0 \/ Over(c[k].start, now, store)
         /\ b.count = 0 /\ b.start = now /\ b = [count |-> 0, start |-> now]
      \/ /\ c[k].count # 0 /\ ~Over(c[k].start, now, store)
         /\ b = c[k]
  BY <1>4 DEF Bucket
<1>6. b \in [count : Nat, start : Nat]
  BY <1>1, <1>a, <1>5
<1>7. /\ pc' \in [Workers -> {"idle", "rate", "timestamp", "nonce", "handler"}]
      /\ req' = [v \in Workers |-> req'[v]]
      /\ \A v \in Workers : pc'[v] # "idle" => req'[v].key \in Keys
  <2>1. \/ pc[w] # "idle" /\ Leave(w)
        \/ pc[w] # "idle" /\ \E l \in {"rate", "timestamp", "nonce", "handler"} : Goto(w, l)
    BY DEF RateLimit, AfterRate
  <2>2. QED
    BY <2>1, KeysKept
<1>b. \/ /\ b.count + 1 > Limit
         /\ rate' = IF store = "redis" THEN [c EXCEPT ![k] = [b EXCEPT !.count = @ + 1]] ELSE c
         /\ passed' = passed
      \/ /\ ~(b.count + 1 > Limit)
         /\ rate' = [c EXCEPT ![k] = [b EXCEPT !.count = @ + 1]]
         /\ passed' = [passed EXCEPT ![k] = Append(@, now)]
  BY DEF RateLimit
<1> HIDE DEF b, k, c
<1>8. [b EXCEPT !.count = @ + 1] = [count |-> b.count + 1, start |-> b.start]
       /\ b.count + 1 \in Nat /\ b.start \in Nat
  BY <1>6
<1>9. CASE /\ b.count + 1 > Limit
           /\ rate' = IF store = "redis" THEN [c EXCEPT ![k] = [b EXCEPT !.count = @ + 1]] ELSE c
           /\ passed' = passed
  <2>1. b = c[k] /\ c[k].count >= Limit
    BY <1>3, <1>5, <1>9
  <2>2. \/ rate' = c
        \/ rate' = [c EXCEPT ![k] = [count |-> c[k].count + 1, start |-> c[k].start]]
    <3>1. CASE store = "redis"
      BY <1>9, <1>8, <2>1, <3>1
    <3>2. CASE store # "redis"
      BY <1>9, <3>2
    <3>3. QED
      BY <3>1, <3>2
  <2>3. /\ k \notin evicted' => Charged(passed[k], c[k].count + 1, c[k].start, now, store)
        /\ Counted(passed[k], c[k].count + 1, c[k].start, now)
    BY <1>1, <1>a, <2>1, ChargedRefused, CountedRefused
  <2>4. rate' \in [Keys -> [count : Nat, start : Nat]]
    <3>1. [count |-> c[k].count + 1, start |-> c[k].start] \in [count : Nat, start : Nat]
      BY <1>3
    <3>2. QED
      BY <1>1, <1>a, <2>2, <3>1
  <2>5. ASSUME NEW j \in Keys
        PROVE  /\ Counted(passed[j], rate'[j].count, rate'[j].start, now)
               /\ j \notin evicted' =>
                    Charged(passed[j], rate'[j].count, rate'[j].start, now, store)
    <3>1. \/ rate'[j] = c[j]
          \/ j = k /\ rate'[j].count = c[k].count + 1 /\ rate'[j].start = c[k].start
      BY <1>1, <1>a, <2>2
    <3>2. QED
      BY <1>a, <2>3, <3>1
  <2>6. QED
    BY <1>1, <1>2, <1>7, <1>9, <2>4, <2>5 DEF RateInv
<1>10. CASE /\ ~(b.count + 1 > Limit)
            /\ rate' = [c EXCEPT ![k] = [b EXCEPT !.count = @ + 1]]
            /\ passed' = [passed EXCEPT ![k] = Append(@, now)]
  <2>0. b.count + 1 <= Limit
    BY <1>3, <1>8, <1>10
  <2>1. /\ rate'[k].count = b.count + 1 /\ rate'[k].start = b.start
        /\ rate' \in [Keys -> [count : Nat, start : Nat]]
        /\ \A j \in Keys : j # k => rate'[j] = c[j]
    <3>1. rate' = [c EXCEPT ![k] = [count |-> b.count + 1, start |-> b.start]]
      BY <1>10, <1>8
    <3>2. QED
      BY <1>1, <1>a, <1>8, <3>1
  <2>2. /\ passed'[k] = Append(passed[k], now) /\ passed' \in [Keys -> Seq(Nat)]
        /\ \A j \in Keys : j # k => passed'[j] = passed[j]
    BY <1>1, <1>10
  <2>3. /\ Counted(passed'[k], rate'[k].count, rate'[k].start, now)
        /\ k \notin evicted' => Charged(passed'[k], rate'[k].count, rate'[k].start, now, store)
    <3>0. Counted(passed[k], c[k].count, c[k].start, now)
      BY <1>1, <1>a
    <3>1. CASE /\ c[k].count = 0 \/ Over(c[k].start, now, store)
               /\ b.count = 0 /\ b.start = now
      <4>1. /\ k \notin evicted' => Charged(Append(passed[k], now), 1, now, now, store)
            /\ Counted(Append(passed[k], now), 1, now, now)
        <5>1. k \notin evicted' => Charged(Append(passed[k], now), 1, now, now, store)
          BY <1>1, <1>a, <3>1, ChargedFirst
        <5>2. Counted(passed[k], 0, c[k].start, now) /\ 0 + 1 <= Limit
          BY <1>3, <3>0 DEF Counted
        <5>3. Counted(Append(passed[k], now), 1, now, now)
          BY <5>2, CountedPassed
        <5>4. QED
          BY <5>1, <5>3
      <4>2. b.count + 1 = 1
        BY <3>1
      <4>3. QED
        BY <2>1, <2>2, <3>1, <4>1, <4>2
    <3>2. CASE /\ c[k].count # 0 /\ ~Over(c[k].start, now, store)
               /\ b = c[k]
      <4>0. c[k].count > 0 /\ c[k].count + 1 <= Limit
        BY <1>3, <2>0, <3>2
      <4>1. /\ k \notin evicted' =>
                 Charged(Append(passed[k], now), c[k].count + 1, c[k].start, now, store)
            /\ Counted(Append(passed[k], now), c[k].count + 1, c[k].start, now)
        BY <1>1, <1>a, <3>0, <3>2, <4>0, ChargedAgain, CountedPassed
      <4>2. QED
        BY <2>1, <2>2, <3>2, <4>1
    <3>3. QED
      BY <1>5, <3>1, <3>2
  <2>4. \A j \in Keys :
          /\ Counted(passed'[j], rate'[j].count, rate'[j].start, now)
          /\ j \notin evicted' => Charged(passed'[j], rate'[j].count, rate'[j].start, now, store)
    BY <1>a, <2>1, <2>2, <2>3
  <2>5. QED
    BY <1>1, <1>2, <1>7, <2>1, <2>2, <2>4 DEF RateInv
<1>11. QED
  BY <1>b, <1>9, <1>10

LEMMA CleanInv ==
  ASSUME RateInv, NEW s \in Sweepers, Clean(s)
  PROVE  RateInv'
<1>1. now' = now /\ store' = store /\ passed' = passed /\ pc' = pc /\ req' = req
  BY DEF Clean, work
<1>2. \/ rate' = rate /\ evicted' = evicted
      \/ rate' = CleanupRate /\ evicted' = evicted \union (Dropped \ Old)
  BY DEF Clean
<1>3. CASE rate' = rate /\ evicted' = evicted
  BY <1>1, <1>3 DEF RateInv
<1>4. CASE rate' = CleanupRate /\ evicted' = evicted \union (Dropped \ Old)
  <2>1. \A k \in Keys : k \notin evicted' =>
          Charged(passed[k], rate'[k].count, rate'[k].start, now, store)
    BY <1>4, CleanedUp
  <2>2. /\ rate' \in [Keys -> [count : Nat, start : Nat]]
        /\ \A k \in Keys : Counted(passed[k], rate'[k].count, rate'[k].start, now)
    BY <1>4, CleanedUp
  <2>3. QED
    BY <1>1, <2>1, <2>2 DEF RateInv
<1>5. QED
  BY <1>2, <1>3, <1>4

LEMMA RateStep ==
  ASSUME RateInv, [Next]_vars
  PROVE  RateInv'
<1>1. ASSUME UNCHANGED <<now, store, rate, passed, evicted, pc, req>>
      PROVE  RateInv'
  BY <1>1 DEF RateInv
<1>2. CASE Tick
  <2>1. now' = now + 1 /\ UNCHANGED <<store, rate, passed, evicted, pc, req>>
    BY <1>2 DEF Tick, guards, rates, work
  <2>2. \A k \in Keys \ evicted :
          Charged(passed[k], rate[k].count, rate[k].start, now + 1, store)
    BY ChargedLater DEF RateInv
  <2>a. \A k \in Keys : Counted(passed[k], rate[k].count, rate[k].start, now + 1)
    BY DEF RateInv, Counted
  <2>3. QED
    BY <2>1, <2>2, <2>a DEF RateInv
<1>3. ASSUME NEW w \in Workers,
             \/ \E r \in load.requests : Arrive(w, r)
             \/ Work(w) /\ ~RateLimit(w)
      PROVE  RateInv'
  <2>1. UNCHANGED <<now, store, rate, passed, evicted>>
    BY <1>3 DEF Arrive, Work, RateStoreFails, CheckTimestamp, CheckSignature, NonceStoreFails,
                HandlerPublishes, HandlerDelivers, Respond, Sent, guards, rates
  <2>2. \/ pc[w] # "idle" /\ Leave(w)
        \/ pc[w] # "idle" /\ \E l \in {"rate", "timestamp", "nonce", "handler"} : Goto(w, l)
        \/ \E r : Admit(w, r)
        \/ UNCHANGED <<pc, req>>
    BY <1>3 DEF Arrive, Work, RateStoreFails, CheckTimestamp, CheckSignature, NonceStoreFails,
                HandlerPublishes, HandlerDelivers, Respond, Sent, AfterRate, work
  <2>3. /\ pc' \in [Workers -> {"idle", "rate", "timestamp", "nonce", "handler"}]
        /\ req' = [v \in Workers |-> req'[v]]
        /\ \A v \in Workers : pc'[v] # "idle" => req'[v].key \in Keys
    BY <2>2, KeysKept
  <2>4. QED
    BY <2>1, <2>3 DEF RateInv
<1>4. ASSUME \/ Lifespan
             \/ \E s \in Sweepers : Rearm(s)
             \/ \E c \in load.streams : ClientStep(c)
             \/ UNCHANGED vars
      PROVE  UNCHANGED <<now, store, rate, passed, evicted, pc, req>>
  BY <1>4 DEF Lifespan, ShutDown, Drained, Stopped, Stop, Cancel, Rearm, ClientStep,
              guards, rates, work, vars
<1>5. QED
  BY <1>1, <1>2, <1>3, <1>4, RateLimitInv, CleanInv DEF Next, Sweep, Work

\* A key whose bucket was never dropped for lack of room gets at most two limits
\* of requests through within the length of a window, for every limit, window,
\* capacity, store and interleaving with the sweepers.
THEOREM RateIsBounded == Spec => []RateBound
<1>1. Init => RateInv
  BY RateInitial
<1>2. RateInv /\ [Next]_vars => RateInv'
  BY RateStep
<1>3. RateInv => RateBound
  BY DEF RateInv, RateBound, Charged, Spaced
<1>4. QED
  BY <1>1, <1>2, <1>3, PTL DEF Spec

\* The memory store refuses only a request that comes after a full limit of
\* others within the last window.
THEOREM RefusalsDeserved == Spec => RefusedOverLimit
<1>1. Init => RateInv
  BY RateInitial
<1>2. RateInv /\ [Next]_vars => RateInv'
  BY RateStep
<1>3. ASSUME RateInv, [Next]_vars
      PROVE  [\A w \in Workers :
                store = "memory" /\ pc[w] = "rate" /\ pc'[w] = "idle" => Deserved(w)]_vars
  <2>1. SUFFICES ASSUME NEW w \in Workers, store = "memory", pc[w] = "rate", pc'[w] = "idle"
                 PROVE  Deserved(w)
    OBVIOUS
  <2> DEFINE k == req[w].key
             P == passed[k]
             I == {i \in 1 .. Len(P) : now - P[i] <= Window}
  <2>2. RateLimit(w)
    <3>1. pc \in [Workers -> {"idle", "rate", "timestamp", "nonce", "handler"}]
      BY <1>3 DEF RateInv
    <3>2. ASSUME NEW v \in Workers, Work(v)
          PROVE  v = w
      <4>1. v # w => pc'[w] = pc[w]
        BY <3>1, <3>2 DEF Work, RateLimit, RateStoreFails, CheckTimestamp, CheckSignature,
                          NonceStoreFails, HandlerPublishes, HandlerDelivers, Respond, Sent, Goto,
                          Leave, work
      <4>2. QED
        BY <2>1, <4>1
    <3>3. Work(w) => RateLimit(w)
      BY <2>1 DEF Work, RateLimit, RateStoreFails, CheckTimestamp, CheckSignature,
                  NonceStoreFails, HandlerPublishes, HandlerDelivers, Respond, Sent, work
    <3>4. ASSUME NEW v \in Workers, NEW r \in load.requests, Arrive(v, r)
          PROVE  FALSE
      BY <2>1, <3>1, <3>4 DEF Arrive, Admit
    <3>5. ASSUME \/ Tick \/ Lifespan
                 \/ \E s \in Sweepers : Sweep(s)
                 \/ \E c \in load.streams : ClientStep(c)
                 \/ UNCHANGED vars
          PROVE  pc' = pc
      BY <3>5 DEF Tick, Lifespan, ShutDown, Drained, Stopped, Stop, Cancel, Sweep, Clean,
                  Rearm, ClientStep, work, vars
    <3>6. QED
      BY <1>3, <2>1, <3>2, <3>3, <3>4, <3>5 DEF Next
  <2>3. k \in Keys /\ now \in Nat /\ rate[k].count \in Nat /\ rate[k].start \in Nat
        /\ Counted(P, rate[k].count, rate[k].start, now)
        /\ (CleanupRate[k].count # 0 => CleanupRate[k] = rate[k])
    <3>1. k \in Keys
      BY <1>3, <2>1 DEF RateInv
    <3>2. CleanupRate[k].count # 0 => CleanupRate[k] = rate[k]
      BY <1>3, <3>1, CleanedUp
    <3> HIDE DEF k
    <3>3. QED
      BY <1>3, <3>1, <3>2 DEF RateInv
  <2>4. Limit \in Nat /\ Limit > 0 /\ Window \in Nat
    BY ApiAssumption
  <2>5. Bucket(k).count + 1 > Limit
    <3>1. /\ AfterRate(w) # "idle"
          /\ pc \in [Workers -> {"idle", "rate", "timestamp", "nonce", "handler"}]
      BY <1>3 DEF AfterRate, RateInv
    <3>2. QED
      BY <2>1, <2>2, <3>1 DEF RateLimit, Goto
  <2>6. rate[k].count >= Limit /\ rate[k].count > 0 /\ now - rate[k].start <= Window
    BY <2>1, <2>3, <2>4, <2>5 DEF Bucket, WindowOver
  <2>7. Used(rate[k].count) = Limit
    BY <2>3, <2>4, <2>6 DEF Used
  <2>8. P \in Seq(Nat) /\ Len(P) \in Nat /\ Limit <= Len(P)
    BY <2>3, <2>6, <2>7 DEF Counted
  <2> HIDE DEF k, P
  <2>9. ASSUME NEW i \in Len(P) - Limit + 1 .. Len(P)
        PROVE  i \in I
    <3>1. i \in 1 .. Len(P) /\ i > Len(P) - Limit
      BY <2>4, <2>8
    <3>2. rate[k].start <= P[i] /\ P[i] \in Nat
      BY <2>3, <2>6, <2>7, <2>8, <3>1 DEF Counted
    <3>3. QED
      BY <2>3, <2>4, <2>6, <3>1, <3>2
  <2>10. Cardinality(Len(P) - Limit + 1 .. Len(P)) = Limit
    <3>1. Len(P) - Limit + 1 \in Int /\ Len(P) \in Int /\ Len(P) - Limit + 1 <= Len(P)
      BY <2>4, <2>8
    <3>2. Cardinality(Len(P) - Limit + 1 .. Len(P)) = Len(P) - (Len(P) - Limit + 1) + 1
      BY <3>1, FS_Interval
    <3>3. QED
      BY <2>4, <2>8, <3>2
  <2>11. IsFiniteSet(I)
    <3>1. I \subseteq 1 .. Len(P)
      OBVIOUS
    <3>2. IsFiniteSet(1 .. Len(P))
      BY <2>8, FS_Interval
    <3>3. QED
      BY <3>1, <3>2, FS_Subset
  <2>12. Limit <= Cardinality(I)
    <3>1. (Len(P) - Limit + 1 .. Len(P)) \subseteq I
      BY <2>9
    <3> HIDE DEF I
    <3>2. Cardinality(Len(P) - Limit + 1 .. Len(P)) <= Cardinality(I)
      BY <2>11, <3>1, FS_Subset
    <3>3. QED
      BY <2>10, <3>2
  <2>13. QED
    BY <2>12 DEF Deserved, k, P
<1>4. QED
  BY <1>1, <1>2, <1>3, PTL DEF Spec, RefusedOverLimit

-----------------------------------------------------------------------------
(* Nonces *)

\* The nonces that clients send.
SentNonces == {r.nonce : r \in UNION {l.requests : l \in Workloads}}

\* The entry that the i-th registration of R added to the store.
EntryOf(R, i) ==
  [nonce |-> R[i].nonce, until |-> R[i].at + Ttl * Sub, order |-> i]

\* The registrations R, made by the time t, in the order of their times.
Timely(R, t) ==
  /\ R \in Seq([nonce : SentNonces, at : Nat])
  /\ \A i \in 1 .. Len(R) : R[i].at <= t

\* The store N holds entries of registrations only, and each of them that
\* lives and was not pushed out by NonceMax later ones.
Holds(N, R, t, d) ==
  /\ \A e \in N : e.order \in 1 .. Len(R) /\ e = EntryOf(R, e.order)
  /\ \A i \in 1 .. Len(R) :
       t < R[i].at + Ttl * Sub /\ (d = "redis" \/ Len(R) - i < NonceMax) => EntryOf(R, i) \in N

\* What NonceOnce says of the registrations R.
Once(R, d) ==
  \A i, j \in 1 .. Len(R) :
    i < j /\ R[i].nonce = R[j].nonce =>
      R[j].at - R[i].at >= Ttl * Sub \/ (d = "memory" /\ j - i > NonceMax)

\* While the failure mode is closed every registration is in the store until
\* it expires or is pushed out. The requests in hand are ones of the workload.
NonceInv ==
  ~FailOpen =>
    /\ now \in Nat
    /\ load \in Workloads
    /\ store \in {"memory", "redis"}
    /\ pc \in [Workers -> {"idle", "rate", "timestamp", "nonce", "handler"}]
    /\ req = [w \in Workers |-> req[w]]
    /\ \A w \in Workers : pc[w] # "idle" => req[w] \in load.requests
    /\ Timely(registered, now)
    /\ Holds(nonces, registered, now, store)
    /\ Once(registered, store)

\* Fewer than NonceMax entries came after one of the last NonceMax
\* registrations.
LEMMA FewAfter ==
  ASSUME NEW R, Len(R) \in Nat, NEW S,
         \A e \in S : e.order \in 1 .. Len(R) /\ e = EntryOf(R, e.order),
         NEW i \in 1 .. Len(R), Len(R) - i < NonceMax, NEW x, x.order = i
  PROVE  Cardinality(After(S, x)) < NonceMax
<1> DEFINE I == i + 1 .. Len(R)
           A == After(S, x)
           f == [e \in A |-> e.order]
<1>1. IsFiniteSet(I) /\ Cardinality(I) = Len(R) - i
  <2>1. i + 1 \in Int /\ Len(R) \in Int
    OBVIOUS
  <2>2. IsFiniteSet(I) /\ Cardinality(I) = IF i + 1 > Len(R) THEN 0 ELSE Len(R) - (i + 1) + 1
    BY <2>1, FS_Interval
  <2>3. QED
    BY <2>2
<1>2. f \in Injection(A, I)
  <2>1. ASSUME NEW e \in A
        PROVE  e.order \in I /\ e = EntryOf(R, e.order)
    <3>1. e \in S /\ e.order > i /\ e.order \in 1 .. Len(R) /\ e = EntryOf(R, e.order)
      BY <2>1 DEF After
    <3>2. QED
      BY <3>1
  <2>2. f \in [A -> I]
    BY <2>1
  <2>3. \A a, b \in A : f[a] = f[b] => a = b
    BY <2>1
  <2>4. QED
    BY <2>2, <2>3 DEF Injection, IsInjective
<1>3. IsFiniteSet(A) /\ Cardinality(A) <= Cardinality(I)
  BY <1>1, <1>2, FS_Injection
<1>4. Cardinality(A) \in Nat /\ NonceMax \in Nat /\ Len(R) - i \in Nat
  BY <1>3, FS_CardinalityType, ApiAssumption
<1>5. QED
  BY <1>1, <1>3, <1>4

\* The lifetime of a nonce, in parts of a second.
LEMMA LifetimeType == Ttl * Sub \in Nat
BY ApiAssumption

\* Registrations have a length, nonces and times.
LEMMA TimelyFacts ==
  ASSUME NEW t \in Nat, NEW R, Timely(R, t)
  PROVE  /\ Len(R) \in Nat
         /\ \A i \in 1 .. Len(R) : R[i].at \in Nat /\ R[i].at <= t
<1> DEFINE T == [nonce : SentNonces, at : Nat]
<1>1. R \in Seq(T)
  BY DEF Timely
<1>2. Len(R) \in Nat /\ \A i \in 1 .. Len(R) : R[i] \in T
  <2> HIDE DEF T
  <2>1. QED
    BY <1>1
<1>3. \A i \in 1 .. Len(R) : R[i].at \in Nat
  BY <1>2
<1>4. QED
  BY <1>2, <1>3 DEF Timely

\* A clean-up of the memory store, and the expiry of redis keys, take away
\* only what has expired or was pushed out.
LEMMA KnownHolds ==
  ASSUME NEW t \in Nat, t = now, Timely(registered, t), store \in {"memory", "redis"},
         Holds(nonces, registered, t, store)
  PROVE  /\ Holds(Known, registered, t, store)
         /\ store = "memory" => Known = CleanupNonces
<1> DEFINE R == registered
<1>1. /\ Len(R) \in Nat /\ Ttl * Sub \in Nat /\ NonceMax \in Nat
      /\ \A i \in 1 .. Len(R) : R[i].at \in Nat
  BY TimelyFacts, LifetimeType, ApiAssumption
<1>2. Known \subseteq nonces
  BY DEF Known, CleanupNonces, Newest
<1>3. ASSUME NEW i \in 1 .. Len(R), t < R[i].at + Ttl * Sub,
             store = "redis" \/ Len(R) - i < NonceMax
      PROVE  EntryOf(R, i) \in Known
  <2> DEFINE x == EntryOf(R, i)
             S == {e \in nonces : now <= e.until}
  <2>1. x \in nonces
    BY <1>3 DEF Holds
  <2>2. x.until = R[i].at + Ttl * Sub /\ x.order = i
    BY DEF EntryOf
  <2>3. CASE store = "redis"
    BY <1>3, <2>1, <2>2, <2>3 DEF Known
  <2>4. CASE store = "memory"
    <3>1. x \in S
      BY <1>1, <1>3, <2>1, <2>2
    <3>2. Len(R) - i < NonceMax
      BY <1>3, <2>4
    <3>3. \A e \in S : e.order \in 1 .. Len(R) /\ e = EntryOf(R, e.order)
      BY DEF Holds
    <3>4. Cardinality(After(S, x)) < NonceMax
      <4> HIDE DEF x, S
      <4>1. QED
        BY <1>1, <2>2, <3>2, <3>3, FewAfter
    <3>5. QED
      BY <2>4, <3>1, <3>4 DEF Known, CleanupNonces, Newest
  <2>5. QED
    BY <2>3, <2>4
<1>4. QED
  BY <1>2, <1>3 DEF Holds, Known

\* The registrations and the store once the nonce n is registered.
Registering(R, n, t) == Append(R, [nonce |-> n, at |-> t])

Adding(N, R, n, t) ==
  N \union {[nonce |-> n, until |-> t + Ttl * Sub, order |-> Len(R) + 1]}

\* A nonce that the store does not know is registered.
LEMMA RegisterOnce ==
  ASSUME NEW t \in Nat, NEW n \in SentNonces, NEW R, Timely(R, t), Once(R, store), NEW N,
         store \in {"memory", "redis"}, Holds(N, R, t, store), ~Has(N, n)
  PROVE  /\ Timely(Registering(R, n, t), t)
         /\ Holds(Adding(N, R, n, t), Registering(R, n, t), t, store)
         /\ Once(Registering(R, n, t), store)
<1>0. PICK Q, M :
        /\ Q = Registering(R, n, t) /\ Q = Append(R, [nonce |-> n, at |-> t])
        /\ M = Adding(N, R, n, t)
        /\ M = N \union {[nonce |-> n, until |-> t + Ttl * Sub, order |-> Len(R) + 1]}
  BY DEF Registering, Adding
<1> DEFINE T == [nonce : SentNonces, at : Nat]
           r == [nonce |-> n, at |-> t]
<1>1. R \in Seq(T) /\ r \in T /\ Len(R) \in Nat
  BY DEF Timely
<1>2. /\ Q \in Seq(T) /\ Len(Q) = Len(R) + 1
      /\ \A i \in 1 .. Len(R) : Q[i] = R[i]
      /\ Q[Len(R) + 1] = r
  <2> HIDE DEF r, T
  <2>1. QED
    BY <1>0, <1>1, AppendFacts DEF r
<1>3. \A i \in 1 .. Len(Q) : i \in 1 .. Len(R) \/ i = Len(R) + 1
  BY <1>1, <1>2
<1>4. /\ Ttl * Sub \in Nat /\ NonceMax \in Nat
      /\ \A i \in 1 .. Len(R) : R[i].at \in Nat /\ R[i].at <= t
  BY TimelyFacts, LifetimeType, ApiAssumption
<1>5. Timely(Q, t)
  <2>1. r.at = t /\ t <= t
    OBVIOUS
  <2>2. \A i \in 1 .. Len(Q) : Q[i].at <= t
    <3> HIDE DEF r
    <3>1. QED
      BY <1>2, <1>3, <1>4, <2>1
  <2>3. QED
    BY <1>2, <2>2 DEF Timely
<1>6. \A i \in 1 .. Len(R) : EntryOf(Q, i) = EntryOf(R, i)
  BY <1>2 DEF EntryOf
<1>7. EntryOf(Q, Len(R) + 1) \in M
  BY <1>0, <1>2 DEF EntryOf
<1>8. Holds(M, Q, t, store)
  <2>1. \A e \in M : e.order \in 1 .. Len(Q) /\ e = EntryOf(Q, e.order)
    <3>1. ASSUME NEW e \in N
          PROVE  e.order \in 1 .. Len(Q) /\ e = EntryOf(Q, e.order)
      <4>1. e.order \in 1 .. Len(R) /\ e = EntryOf(R, e.order)
        BY DEF Holds
      <4>2. QED
        BY <1>1, <1>2, <1>6, <4>1
    <3>2. ASSUME NEW e, e = [nonce |-> n, until |-> t + Ttl * Sub, order |-> Len(R) + 1]
          PROVE  e.order \in 1 .. Len(Q) /\ e = EntryOf(Q, e.order)
      BY <1>1, <1>2, <3>2 DEF EntryOf
    <3>3. QED
      BY <1>0, <3>1, <3>2
  <2>2. ASSUME NEW i \in 1 .. Len(Q), t < Q[i].at + Ttl * Sub,
               store = "redis" \/ Len(Q) - i < NonceMax
        PROVE  EntryOf(Q, i) \in M
    <3>1. CASE i \in 1 .. Len(R)
      <4>1. t < R[i].at + Ttl * Sub /\ (store = "redis" \/ Len(R) - i < NonceMax)
        BY <1>1, <1>2, <1>4, <2>2, <3>1
      <4>2. EntryOf(R, i) \in N
        BY <3>1, <4>1 DEF Holds
      <4>3. QED
        BY <1>0, <1>6, <3>1, <4>2
    <3>2. QED
      BY <1>3, <1>7, <3>1
  <2>3. QED
    BY <2>1, <2>2 DEF Holds
<1>9. Once(Q, store)
  <2>1. SUFFICES ASSUME NEW i \in 1 .. Len(Q), NEW j \in 1 .. Len(Q), i < j,
                        Q[i].nonce = Q[j].nonce
                 PROVE  Q[j].at - Q[i].at >= Ttl * Sub \/ (store = "memory" /\ j - i > NonceMax)
    BY DEF Once
  <2>2. i \in 1 .. Len(R)
    BY <1>1, <1>2, <2>1
  <2>3. CASE j \in 1 .. Len(R)
    BY <1>2, <2>1, <2>2, <2>3 DEF Once
  <2>4. CASE j = Len(R) + 1
    <3>1. R[i].nonce = n /\ Q[i] = R[i] /\ Q[j].at = t
      BY <1>2, <2>1, <2>2, <2>4
    <3>2. EntryOf(R, i) \notin N
      BY <3>1 DEF Has, EntryOf
    <3>3. ~(t < R[i].at + Ttl * Sub /\ (store = "redis" \/ Len(R) - i < NonceMax))
      BY <2>2, <3>2 DEF Holds
    <3>4. QED
      BY <1>1, <1>4, <2>2, <2>4, <3>1, <3>3
  <2>5. QED
    BY <1>3, <2>3, <2>4
<1>10. QED
  BY <1>0, <1>5, <1>8, <1>9

\* The times of a store and of the registrations pass.
LEMMA HoldsLater ==
  ASSUME NEW t \in Nat, NEW R, Timely(R, t), NEW N, NEW d, Holds(N, R, t, d)
  PROVE  Timely(R, t + 1) /\ Holds(N, R, t + 1, d)
<1>1. \A i \in 1 .. Len(R) : R[i].at \in Nat /\ R[i].at <= t
  BY TimelyFacts
<1>2. \A i \in 1 .. Len(R) : t + 1 < R[i].at + Ttl * Sub => t < R[i].at + Ttl * Sub
  BY <1>1, LifetimeType
<1>3. Timely(R, t + 1)
  <2>1. \A i \in 1 .. Len(R) : R[i].at <= t + 1
    BY <1>1
  <2>2. R \in Seq([nonce : SentNonces, at : Nat])
    BY DEF Timely
  <2>3. QED
    BY <2>1, <2>2 DEF Timely
<1>4. Holds(N, R, t + 1, d)
  <2>1. \A e \in N : e.order \in 1 .. Len(R) /\ e = EntryOf(R, e.order)
    BY DEF Holds
  <2>2. ASSUME NEW i \in 1 .. Len(R), t + 1 < R[i].at + Ttl * Sub,
               d = "redis" \/ Len(R) - i < NonceMax
        PROVE  EntryOf(R, i) \in N
    <3>1. t < R[i].at + Ttl * Sub
      BY <1>2, <2>2
    <3>2. QED
      BY <2>2, <3>1 DEF Holds
  <2>3. QED
    BY <2>1, <2>2 DEF Holds
<1>5. QED
  BY <1>3, <1>4

\* The requests in hand after a step of a worker are ones of the workload.
LEMMA RequestsKept ==
  ASSUME pc \in [Workers -> {"idle", "rate", "timestamp", "nonce", "handler"}],
         req = [v \in Workers |-> req[v]],
         \A v \in Workers : pc[v] # "idle" => req[v] \in load.requests,
         NEW w \in Workers,
         \/ pc[w] # "idle" /\ Leave(w)
         \/ pc[w] # "idle" /\ \E l \in {"rate", "timestamp", "nonce", "handler"} : Goto(w, l)
         \/ \E r \in load.requests : Admit(w, r)
         \/ UNCHANGED <<pc, req>>
  PROVE  /\ pc' \in [Workers -> {"idle", "rate", "timestamp", "nonce", "handler"}]
         /\ req' = [v \in Workers |-> req'[v]]
         /\ \A v \in Workers : pc'[v] # "idle" => req'[v] \in load.requests
<1>1. pc' \in [Workers -> {"idle", "rate", "timestamp", "nonce", "handler"}]
  BY DEF Leave, Goto, Admit
<1>2. req' = [v \in Workers |-> req'[v]]
  BY DEF Leave, Goto, Admit
<1>3. ASSUME NEW v \in Workers, pc'[v] # "idle"
      PROVE  req'[v] \in load.requests
  <2>1. v # w => req'[v] = req[v] /\ pc'[v] = pc[v]
    BY DEF Leave, Goto, Admit
  <2>2. v = w => \/ req'[v] = req[v] /\ pc[v] # "idle"
                 \/ req'[v] \in load.requests
    BY <1>3 DEF Leave, Goto, Admit
  <2>3. QED
    BY <1>3, <2>1, <2>2
<1>4. QED
  BY <1>1, <1>2, <1>3

\* Every step keeps the store of nonces.
LEMMA NonceStep ==
  ASSUME NonceInv, [Next]_vars
  PROVE  NonceInv'
<1>1. SUFFICES ASSUME ~FailOpen PROVE NonceInv'
  BY DEF NonceInv
<1>2. /\ now \in Nat /\ load \in Workloads /\ store \in {"memory", "redis"}
      /\ pc \in [Workers -> {"idle", "rate", "timestamp", "nonce", "handler"}]
      /\ req = [w \in Workers |-> req[w]]
      /\ \A w \in Workers : pc[w] # "idle" => req[w] \in load.requests
      /\ Timely(registered, now)
      /\ Holds(nonces, registered, now, store)
      /\ Once(registered, store)
  BY <1>1 DEF NonceInv
<1>3. ASSUME UNCHANGED <<now, store, load, pc, req, nonces, registered>>
      PROVE  NonceInv'
  BY <1>2, <1>3 DEF NonceInv
<1>4. CASE Tick
  <2>1. now' = now + 1 /\ UNCHANGED <<store, load, pc, req, nonces, registered>>
    BY <1>4 DEF Tick, guards, work
  <2>2. Timely(registered, now + 1) /\ Holds(nonces, registered, now + 1, store)
    BY <1>2, HoldsLater
  <2>3. QED
    BY <1>2, <2>1, <2>2 DEF NonceInv
<1>5. ASSUME NEW w \in Workers,
             \/ \E r \in load.requests : Arrive(w, r)
             \/ Work(w)
      PROVE  NonceInv'
  <2>1. UNCHANGED <<now, store, load>>
    BY <1>5 DEF Arrive, Work, RateLimit, RateStoreFails, CheckTimestamp, CheckSignature,
                NonceStoreFails, HandlerPublishes, HandlerDelivers, Respond, Sent, Leave, Goto,
                guards, work
  <2>2. \/ pc[w] # "idle" /\ Leave(w)
        \/ pc[w] # "idle" /\ \E l \in {"rate", "timestamp", "nonce", "handler"} : Goto(w, l)
        \/ \E r \in load.requests : Admit(w, r)
        \/ UNCHANGED <<pc, req>>
    BY <1>5 DEF Arrive, Work, RateLimit, RateStoreFails, CheckTimestamp, CheckSignature,
                NonceStoreFails, HandlerPublishes, HandlerDelivers, Respond, Sent, AfterRate, work
  <2>3. /\ pc' \in [Workers -> {"idle", "rate", "timestamp", "nonce", "handler"}]
        /\ req' = [v \in Workers |-> req'[v]]
        /\ \A v \in Workers : pc'[v] # "idle" => req'[v] \in load.requests
    BY <1>2, <2>2, RequestsKept
  <2>4. /\ Timely(registered', now)
        /\ Holds(nonces', registered', now, store)
        /\ Once(registered', store)
    <3>1. CASE CheckSignature(w)
      <4> DEFINE n == req[w].nonce
      <4>1. n \in SentNonces
        <5>1. pc[w] # "idle" /\ req[w] \in load.requests
          BY <1>2, <3>1 DEF CheckSignature
        <5>2. QED
          BY <1>2, <5>1 DEF SentNonces
      <4>2. Holds(Known, registered, now, store)
        BY <1>2, KnownHolds
      <4>3. \/ UNCHANGED <<nonces, registered>>
            \/ nonces' = Known /\ UNCHANGED registered
            \/ /\ ~Has(Known, n)
               /\ nonces' = Known \union {Entry(n)}
               /\ registered' = Append(registered, [nonce |-> n, at |-> now])
        BY <3>1 DEF CheckSignature
      <4>4. CASE /\ ~Has(Known, n)
                 /\ nonces' = Known \union {Entry(n)}
                 /\ registered' = Append(registered, [nonce |-> n, at |-> now])
        <5>1. /\ registered' = Registering(registered, n, now)
              /\ nonces' = Adding(Known, registered, n, now)
          BY <4>4 DEF Entry, Registering, Adding
        <5>2. /\ now \in Nat /\ Timely(registered, now) /\ Once(registered, store)
              /\ store \in {"memory", "redis"} /\ ~Has(Known, n)
          BY <1>2, <4>4
        <5> HIDE DEF n
        <5>3. QED
          BY <4>1, <4>2, <5>1, <5>2, RegisterOnce
      <4>5. QED
        BY <1>2, <4>2, <4>3, <4>4
    <3>2. CASE ~CheckSignature(w)
      <4>1. UNCHANGED <<nonces, registered>>
        BY <1>1, <1>5, <3>2
        DEF Arrive, Work, RateLimit, RateStoreFails, CheckTimestamp, NonceStoreFails,
            HandlerPublishes, HandlerDelivers, Respond, Sent, guards
      <4>2. QED
        BY <1>2, <4>1
    <3>3. QED
      BY <3>1, <3>2
  <2>5. QED
    BY <1>2, <2>1, <2>3, <2>4 DEF NonceInv
<1>6. ASSUME NEW s \in Sweepers, Clean(s)
      PROVE  NonceInv'
  <2>1. UNCHANGED <<now, store, load, pc, req, registered>>
    BY <1>6 DEF Clean, work
  <2>2. nonces' = nonces \/ (store = "memory" /\ nonces' = CleanupNonces)
    BY <1>6 DEF Clean
  <2>3. Holds(nonces', registered, now, store)
    BY <1>2, <2>2, KnownHolds
  <2>4. QED
    BY <1>2, <2>1, <2>3 DEF NonceInv
<1>7. ASSUME \/ Lifespan
             \/ \E s \in Sweepers : Rearm(s)
             \/ \E c \in load.streams : ClientStep(c)
             \/ UNCHANGED vars
      PROVE  UNCHANGED <<now, store, load, pc, req, nonces, registered>>
  BY <1>7 DEF Lifespan, ShutDown, Drained, Stopped, Stop, Cancel, Rearm, ClientStep,
              guards, work, vars
<1>8. QED
  BY <1>3, <1>4, <1>5, <1>6, <1>7 DEF Next, Sweep

\* In the closed failure mode no nonce is registered twice within its
\* lifetime, unless NonceMax others pushed it out of the memory store: for
\* every capacity, lifetime, number of workers and interleaving with the
\* sweeper.
THEOREM NoncesAreRegisteredOnce == Spec => []NonceOnce
<1>1. Init => NonceInv
  <2>1. SUFFICES ASSUME Init PROVE NonceInv
    OBVIOUS
  <2>2. store \in {"memory", "redis"} /\ load \in Workloads
    BY <2>1, ApiAssumption DEF Init
  <2>3. /\ now = 0 /\ registered = <<>> /\ nonces = {}
        /\ pc \in [Workers -> {"idle", "rate", "timestamp", "nonce", "handler"}]
        /\ req = [w \in Workers |-> req[w]]
        /\ \A w \in Workers : pc[w] = "idle"
    BY <2>1 DEF Init
  <2>4. Timely(<<>>, 0) /\ Holds({}, <<>>, 0, store) /\ Once(<<>>, store)
    BY DEF Timely, Holds, Once
  <2>5. QED
    BY <2>2, <2>3, <2>4 DEF NonceInv
<1>2. NonceInv /\ [Next]_vars => NonceInv'
  BY NonceStep
<1>3. NonceInv => NonceOnce
  BY DEF NonceInv, NonceOnce, Once
<1>4. QED
  BY <1>1, <1>2, <1>3, PTL DEF Spec
=============================================================================
