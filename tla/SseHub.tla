------------------------------- MODULE SseHub -------------------------------
(***************************************************************************)
(* SSEEventHub (api/sse_hub.py): publish numbers an event and stores it    *)
(* under the lock, and puts it into the subscribers' queues afterwards, one *)
(* at a time; register takes the history and joins the subscribers under   *)
(* the lock, and fills its queue afterwards. Queues are bounded: what does *)
(* not fit is dropped.                                                     *)
(*                                                                         *)
(* An event is its id. A client is one connection to /v1/events or         *)
(* /v1/ws/trustlog: it registers a queue of its own, reads it and           *)
(* unregisters when the connection ends.                                   *)
(***************************************************************************)
EXTENDS Naturals, Sequences

CONSTANTS
  Publishers,   \* threads that call publish
  Clients,      \* connections
  HistorySize,  \* maxlen of _history
  QueueSize,    \* maxsize of a subscriber's queue
  MaxEvents     \* bound of the model: events published

ASSUME HubAssumption ==
  HistorySize \in Nat \ {0} /\ QueueSize \in Nat \ {0} /\ MaxEvents \in Nat

VARIABLES
  seq,          \* _seq
  history,      \* _history
  subscribers,  \* _subscribers
  queue,        \* each client's queue
  sending,      \* each publisher: the event and the subscribers left to put it to
  filling,      \* each client: the part of the history register has still to put
  state,        \* each client: "new", "filling", "open" or "closed"
  got,          \* history: the events each client has read
  dropped,      \* history: the events a full queue refused
  base          \* history: the last event before each client's history

hub == <<seq, history, subscribers, queue, sending, filling, state, got,
         dropped, base>>

Rest == [event |-> 0, to |-> {}]

HubInit ==
  /\ seq = 0
  /\ history = <<>>
  /\ subscribers = {}
  /\ queue = [c \in Clients |-> <<>>]
  /\ sending = [p \in Publishers |-> Rest]
  /\ filling = [c \in Clients |-> <<>>]
  /\ state = [c \in Clients |-> "new"]
  /\ got = [c \in Clients |-> <<>>]
  /\ dropped = [c \in Clients |-> {}]
  /\ base = [c \in Clients |-> 0]

\* deque(maxlen).append
Keep(s, e) == IF Len(s) < HistorySize THEN Append(s, e) ELSE Append(Tail(s), e)

\* The locked part of publish.
Publish(p) ==
  /\ sending[p].to = {}
  /\ seq < MaxEvents
  /\ seq' = seq + 1
  /\ history' = Keep(history, seq + 1)
  /\ sending' = [sending EXCEPT ![p] = [event |-> seq + 1, to |-> subscribers]]
  /\ UNCHANGED <<subscribers, queue, filling, state, got, dropped, base>>

\* put_nowait of the next event for c; a full queue drops it.
Put(c, e) ==
  IF Len(queue[c]) < QueueSize
  THEN queue' = [queue EXCEPT ![c] = Append(@, e)] /\ UNCHANGED dropped
  ELSE dropped' = [dropped EXCEPT ![c] = @ \union {e}] /\ UNCHANGED queue

\* One round of publish's loop, in any order of the set.
Deliver(p, c) ==
  /\ c \in sending[p].to
  /\ Put(c, sending[p].event)
  /\ sending' = [sending EXCEPT ![p].to = @ \ {c}]
  /\ UNCHANGED <<seq, history, subscribers, filling, state, got, base>>

\* Mutants: register reads the history before it takes the lock to join, and
\* register joins before it reads the history.
RegisterReadsFirst(c) ==
  /\ state[c] = "new"
  /\ \/ /\ filling[c] = <<>> /\ history # <<>>
        /\ filling' = [filling EXCEPT ![c] = history]
        /\ base' = [base EXCEPT ![c] = seq - Len(history)]
        /\ UNCHANGED <<state, subscribers>>
     \/ /\ state' = [state EXCEPT ![c] = "filling"]
        /\ subscribers' = subscribers \union {c}
        /\ UNCHANGED <<filling, base>>
  /\ UNCHANGED <<seq, history, queue, sending, got, dropped>>

RegisterJoinsFirst(c) ==
  /\ state[c] = "new"
  /\ \/ /\ c \notin subscribers
        /\ subscribers' = subscribers \union {c}
        /\ base' = [base EXCEPT ![c] = seq - Len(history)]
        /\ UNCHANGED <<state, filling>>
     \/ /\ c \in subscribers
        /\ state' = [state EXCEPT ![c] = "filling"]
        /\ filling' = [filling EXCEPT ![c] = history]
        /\ UNCHANGED <<subscribers, base>>
  /\ UNCHANGED <<seq, history, queue, sending, got, dropped>>

\* The locked part of register.
Register(c) ==
  /\ state[c] = "new"
  /\ state' = [state EXCEPT ![c] = "filling"]
  /\ filling' = [filling EXCEPT ![c] = history]
  /\ subscribers' = subscribers \union {c}
  /\ base' = [base EXCEPT ![c] = seq - Len(history)]
  /\ UNCHANGED <<seq, history, queue, sending, got, dropped>>

\* One round of register's loop; a full queue ends it and the rest is lost.
Fill(c) ==
  /\ state[c] = "filling"
  /\ filling[c] # <<>>
  /\ IF Len(queue[c]) < QueueSize
     THEN /\ queue' = [queue EXCEPT ![c] = Append(@, Head(filling[c]))]
          /\ filling' = [filling EXCEPT ![c] = Tail(@)]
          /\ UNCHANGED dropped
     ELSE /\ dropped' = [dropped EXCEPT ![c] =
                           @ \union {filling[c][i] : i \in 1 .. Len(filling[c])}]
          /\ filling' = [filling EXCEPT ![c] = <<>>]
          /\ UNCHANGED queue
  /\ UNCHANGED <<seq, history, subscribers, sending, state, got, base>>

\* register returns and the stream begins.
Opened(c) ==
  /\ state[c] = "filling"
  /\ filling[c] = <<>>
  /\ state' = [state EXCEPT ![c] = "open"]
  /\ UNCHANGED <<seq, history, subscribers, queue, sending, filling, got, dropped, base>>

\* subscriber.get in the stream's loop.
Get(c) ==
  /\ state[c] = "open"
  /\ queue[c] # <<>>
  /\ got' = [got EXCEPT ![c] = Append(@, Head(queue[c]))]
  /\ queue' = [queue EXCEPT ![c] = Tail(@)]
  /\ UNCHANGED <<seq, history, subscribers, sending, filling, state, dropped, base>>

\* The stream ends. A publisher that took its list of subscribers before may
\* still put an event into the queue.
Unregister(c) ==
  /\ state[c] = "open"
  /\ state' = [state EXCEPT ![c] = "closed"]
  /\ subscribers' = subscribers \ {c}
  /\ UNCHANGED <<seq, history, queue, sending, filling, got, dropped, base>>

Client(c) == Register(c) \/ Fill(c) \/ Opened(c) \/ Get(c) \/ Unregister(c)

HubNext ==
  \/ \E p \in Publishers : Publish(p) \/ \E c \in Clients : Deliver(p, c)
  \/ \E c \in Clients : Client(c)

HubSpec == HubInit /\ [][HubNext]_hub

-----------------------------------------------------------------------------
(* Properties *)

HubTypeOK ==
  /\ seq \in Nat
  /\ history \in Seq(1 .. seq)
  /\ Len(history) <= HistorySize
  /\ subscribers \subseteq Clients
  /\ queue \in [Clients -> Seq(Nat)]
  /\ \A c \in Clients : Len(queue[c]) <= QueueSize
  /\ sending \in [Publishers -> [event : Nat, to : SUBSET Clients]]
  /\ filling \in [Clients -> Seq(Nat)]
  /\ state \in [Clients -> {"new", "filling", "open", "closed"}]
  /\ got \in [Clients -> Seq(Nat)]
  /\ dropped \in [Clients -> SUBSET Nat]
  /\ base \in [Clients -> Nat]

\* Where an event that c should see can be.
Pending(c) == {sending[p].event : p \in {q \in Publishers : c \in sending[q].to}}
Stream(c) == got[c] \o queue[c] \o filling[c]
Streamed(c) == {Stream(c)[i] : i \in 1 .. Len(Stream(c))}

\* Every event from the oldest one of the history a client was given on is, as
\* long as the client is connected, in its stream or on the way to it, or was
\* dropped by a full queue: none falls between the history and the live events
\* and none is lost by the puts outside the lock.
NothingLost ==
  \A c \in subscribers :
    base[c] + 1 .. seq \subseteq Streamed(c) \union Pending(c) \union dropped[c]

\* No client gets an event twice, however registration, publishers and reader
\* interleave.
NoDuplicates ==
  \A c \in Clients :
    /\ \A i, j \in 1 .. Len(Stream(c)) : i # j => Stream(c)[i] # Stream(c)[j]
    /\ Streamed(c) \intersect (Pending(c) \union dropped[c]) = {}
    /\ \A p, q \in Publishers :
         p # q /\ c \in sending[p].to \intersect sending[q].to =>
           sending[p].event # sending[q].event
=============================================================================
