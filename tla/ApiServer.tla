------------------------------ MODULE ApiServer -----------------------------
(***************************************************************************)
(* One API process: the lifespan with its graceful drain (api/lifespan.py), *)
(* the in-flight counter of the middleware (api/middleware.py), the guards  *)
(* of a request (api/auth.py, api/rate_limiting.py: API key, rate limit,   *)
(* HMAC signature with timestamp and nonce), the timers that sweep the      *)
(* guards' stores, and the event hub that a handler publishes to (SseHub). *)
(*                                                                         *)
(* Requests reach the routes of the decide router: /v1/decide, which        *)
(* publishes an event, and /v1/replay/{id}, which asks for a signature. The *)
(* clock counts parts of a second, Sub of them to a second. The guard of a *)
(* wrong key counts failures per address; it only chooses between the      *)
(* answers 401 and 429 and is left out. A guard reads its clock just        *)
(* before it takes its lock: the two are one step here.                     *)
(***************************************************************************)
EXTENDS SseHub, Integers, FiniteSets

CONSTANTS
  Workloads,   \* [store, requests, streams, count, until]: the store that backs
               \* the guards; what clients send, as [key, route, ts, nonce, signed],
               \* and the streams they open; bounds of the model, the requests
               \* that arrive and the end of the clock
  Keys,        \* the configured API keys
  FailOpen,    \* _auth_store_failure_mode() = "open"
  Sub,         \* parts of a second
  Ttl,         \* _NONCE_TTL_SEC
  NonceMax,    \* _NONCE_MAX
  Limit,       \* _RATE_LIMIT
  Window,      \* _RATE_WINDOW, in parts of a second
  BucketMax,   \* _RATE_BUCKET_MAX
  DrainTime    \* VERITAS_SHUTDOWN_DRAIN_SEC, in parts of a second

ASSUME ApiAssumption ==
  /\ Sub \in Nat \ {0} /\ NonceMax \in Nat \ {0} /\ Limit \in Nat \ {0}
  /\ BucketMax \in Nat
  /\ Ttl \in Nat /\ Window \in Nat \ {0} /\ DrainTime \in Nat
  /\ FailOpen \in BOOLEAN
  /\ IsFiniteSet(Publishers)
  /\ \A l \in Workloads :
       /\ l.store \in {"memory", "redis"}
       /\ l.streams \subseteq Clients
       /\ l.count \in Nat /\ l.until \in Nat

None == "none"
Workers == Publishers
Sweepers == {"nonce", "rate"}

VARIABLES
  now,         \* time.time(), and time.monotonic()
  phase,       \* lifespan: "up", "draining", "stopping", "stopped"
  deadline,    \* end of the drain
  clean,       \* the drain ended with no request in flight
  inflight,    \* _inflight_count
  store,       \* _AUTH_SECURITY_STORE, fixed when the process starts
  nonces,      \* _nonce_store or the redis keys: [nonce, until, order], where the
               \* order is that of the dictionary, by insertion
  rate,        \* _rate_bucket or the redis keys: [count, start] of a key
  buckets,     \* the keys of _rate_bucket in the dictionary's order, by insertion
  timer,       \* each sweeper: its module variable holds a timer
  armed,       \* each sweeper: the timer is waiting
  sweep,       \* each sweeper: its callback runs and will look for its timer
  pc, req,     \* each worker: its step and its request
  body,        \* workers whose answer has started and whose body is being sent
  load,        \* the workload of this behaviour
  arrivals,    \* history: requests that arrived
  registered,  \* history: nonces as they were registered, with the time
  passed,      \* history: for each key the times of the requests its bucket let through
  evicted      \* history: keys whose bucket was dropped for lack of room

rates  == <<rate, buckets, passed, evicted>>
guards == <<store, nonces, registered, rates>>
timers == <<timer, armed, sweep>>
life   == <<phase, deadline, clean, inflight>>
work   == <<pc, req, body, load, arrivals>>
vars   == <<hub, now, guards, timers, life, work>>

\* A key without a bucket.
NoBucket == [count |-> 0, start |-> 0]

Init ==
  /\ HubInit
  /\ now = 0
  /\ phase = "up" /\ deadline = 0 /\ clean = FALSE /\ inflight = 0
  /\ nonces = {}
  /\ rate = [k \in Keys |-> NoBucket]
  /\ buckets = <<>>
  /\ timer = [s \in Sweepers |-> TRUE]
  /\ armed = [s \in Sweepers |-> TRUE]
  /\ sweep = [s \in Sweepers |-> FALSE]
  /\ pc = [w \in Workers |-> "idle"]
  /\ req = [w \in Workers |-> None]
  /\ body = {}
  /\ load \in Workloads
  /\ store = load.store
  /\ arrivals = 0
  /\ registered = <<>>
  /\ passed = [k \in Keys |-> <<>>]
  /\ evicted = {}

Tick ==
  /\ now < load.until
  /\ now' = now + 1
  /\ UNCHANGED <<hub, guards, timers, life, work>>

-----------------------------------------------------------------------------
(* The stores *)

\* The entries of S that came after e.
After(S, e) == {d \in S : d.order > e.order}

\* Mutant: an off-by-one in the capacity check.
NewestStrict(S) == {e \in S : Cardinality(After(S, e)) + 1 < NonceMax}

\* The oldest entries over the capacity are dropped.
Newest(S) == {e \in S : Cardinality(After(S, e)) < NonceMax}

\* _cleanup_nonces_unsafe
CleanupNonces == Newest({e \in nonces : now <= e.until})

\* The nonces that register_nonce looks at: redis expires a key when its time
\* is over and drops none before.
Known == IF store = "memory" THEN CleanupNonces ELSE {e \in nonces : now < e.until}

Has(S, n) == \E e \in S : e.nonce = n

\* The entry that register_nonce adds, after all others.
Entry(n) == [nonce |-> n, until |-> now + Ttl * Sub, order |-> Len(registered) + 1]

\* Redis ends the window when the key expires.
WindowOver(k) ==
  IF store = "redis" THEN now - rate[k].start >= Window
  ELSE now - rate[k].start > Window

\* _cleanup_rate_bucket_unsafe: the buckets whose window is long over, and of
\* the others the oldest in the dictionary over its capacity.
Old == {k \in Keys : now - rate[k].start > 4 * Window}

Pushed ==
  LET live == SelectSeq(buckets, LAMBDA k : k \notin Old)
  IN  {live[i] : i \in 1 .. Len(live) - BucketMax}

Dropped == IF store = "memory" THEN Old \union Pushed ELSE {}

CleanupRate == [k \in Keys |-> IF k \in Dropped THEN NoBucket ELSE rate[k]]

CleanupOrder == SelectSeq(buckets, LAMBDA k : k \notin Dropped)

\* The dictionary's keys once k is assigned: a new key comes last.
Assigned(s, k) == IF \E i \in 1 .. Len(s) : s[i] = k THEN s ELSE Append(s, k)

\* The bucket that increment_rate_limit charges.
Bucket(k) ==
  IF CleanupRate[k].count = 0 \/ WindowOver(k) THEN [count |-> 0, start |-> now]
  ELSE CleanupRate[k]

-----------------------------------------------------------------------------
(* A request *)

\* Mutant: the middleware does not count a request.
AdmitUncounted(w, r) ==
  /\ phase = "up"
  /\ r.key \in Keys
  /\ pc' = [pc EXCEPT ![w] = "rate"]
  /\ req' = [req EXCEPT ![w] = r]
  /\ UNCHANGED inflight

\* track_inflight_requests: the flag is read and the request counted without
\* an await in between, and the lifespan runs on the same loop. Then
\* require_api_key, which reads nothing that changes.
Admit(w, r) ==
  /\ phase = "up"
  /\ r.key \in Keys
  /\ pc' = [pc EXCEPT ![w] = "rate"]
  /\ req' = [req EXCEPT ![w] = r]
  /\ inflight' = inflight + 1

\* A wrong key is answered 401, and any request 503 while the server shuts
\* down.
Arrive(w, r) ==
  /\ pc[w] = "idle" /\ w \notin body
  /\ arrivals < load.count
  /\ arrivals' = arrivals + 1
  /\ \/ Admit(w, r)
     \/ (phase # "up" \/ r.key \notin Keys) /\ UNCHANGED <<pc, req, inflight>>
  /\ UNCHANGED <<hub, now, guards, timers, phase, deadline, clean, body, load>>

\* The answer starts, whatever it is: call_next returns and the counter goes
\* back; the body is sent afterwards.
Leave(w) ==
  /\ pc' = [pc EXCEPT ![w] = "idle"]
  /\ req' = [req EXCEPT ![w] = None]
  /\ inflight' = inflight - 1
  /\ body' = body \union {w}
  /\ UNCHANGED <<load, arrivals, phase, deadline, clean>>

\* The server has sent the body.
Sent(w) ==
  /\ w \in body
  /\ body' = body \ {w}
  /\ UNCHANGED <<hub, now, guards, timers, life, pc, req, load, arrivals>>

Goto(w, l) == pc' = [pc EXCEPT ![w] = l] /\ UNCHANGED <<req, body, load, arrivals, life>>

AfterRate(w) == IF req[w].route = "replay" THEN "timestamp" ELSE "handler"

\* enforce_rate_limit: in memory a refused request is not charged, redis
\* charges it.
RateLimit(w) ==
  LET k == req[w].key
      b == Bucket(k)
      charged == [CleanupRate EXCEPT ![k] = [b EXCEPT !.count = @ + 1]]
  IN
  /\ pc[w] = "rate"
  /\ IF b.count + 1 > Limit
     THEN /\ Leave(w)
          /\ rate' = IF store = "redis" THEN charged ELSE CleanupRate
          /\ buckets' = CleanupOrder
          /\ UNCHANGED passed
     ELSE /\ Goto(w, AfterRate(w))
          /\ rate' = charged
          /\ buckets' = IF store = "redis" THEN <<>> ELSE Assigned(CleanupOrder, k)
          /\ passed' = [passed EXCEPT ![k] = Append(@, now)]
  /\ evicted' = evicted \union (Dropped \ Old)
  /\ UNCHANGED <<hub, now, store, nonces, registered, timers>>

\* The store cannot be reached: _auth_store_increment_rate_limit answers by
\* the failure mode.
RateStoreFails(w) ==
  /\ pc[w] = "rate"
  /\ store = "redis"
  /\ IF FailOpen THEN Goto(w, AfterRate(w)) ELSE Leave(w)
  /\ UNCHANGED <<hub, now, guards, timers>>

Abs(x) == IF x < 0 THEN -x ELSE x

\* verify_signature up to the await of the body: int(time.time()) and the
\* timestamp of the request are at most the nonce's lifetime apart.
CheckTimestamp(w) ==
  /\ pc[w] = "timestamp"
  /\ IF Abs(now \div Sub - req[w].ts) > Ttl THEN Leave(w) ELSE Goto(w, "nonce")
  /\ UNCHANGED <<hub, now, guards, timers>>

\* The rest of verify_signature: the signature, then register_nonce.
CheckSignature(w) ==
  /\ pc[w] = "nonce"
  /\ LET n == req[w].nonce  s == Known IN
     IF ~req[w].signed
     THEN Leave(w) /\ UNCHANGED <<nonces, registered>>
     ELSE IF Has(s, n)
     THEN Leave(w) /\ nonces' = s /\ UNCHANGED registered
     ELSE /\ Goto(w, "handler")
          /\ nonces' = s \union {Entry(n)}
          /\ registered' = Append(registered, [nonce |-> n, at |-> now])
  /\ UNCHANGED <<hub, now, store, rates, timers>>

\* _auth_store_register_nonce: no answer from the store counts as a replay,
\* unless the failure mode is open.
NonceStoreFails(w) ==
  /\ pc[w] = "nonce"
  /\ store = "redis"
  /\ req[w].signed
  /\ IF FailOpen
     THEN /\ Goto(w, "handler")
          /\ registered' = Append(registered, [nonce |-> req[w].nonce, at |-> now])
     ELSE Leave(w) /\ UNCHANGED registered
  /\ UNCHANGED <<hub, now, store, nonces, rates, timers>>

\* The handler of /v1/decide publishes events (stages, decide.completed,
\* fuji.rejected), one after the other.
HandlerPublishes(w) ==
  /\ pc[w] = "handler"
  /\ req[w].route = "decide"
  /\ Publish(w)
  /\ UNCHANGED <<now, guards, timers, life, work>>

HandlerDelivers(w) ==
  /\ \E c \in Clients : Deliver(w, c)
  /\ UNCHANGED <<now, guards, timers, life, work>>

Respond(w) ==
  /\ pc[w] = "handler"
  /\ sending[w].to = {}
  /\ Leave(w)
  /\ UNCHANGED <<hub, now, guards, timers>>

-----------------------------------------------------------------------------
(* The sweepers' timers *)

\* Mutant: a sweep removes the buckets of the current window too.
CleanAll(s) ==
  /\ armed[s]
  /\ armed' = [armed EXCEPT ![s] = FALSE]
  /\ sweep' = [sweep EXCEPT ![s] = TRUE]
  /\ nonces' = IF s = "nonce" /\ store = "memory" THEN CleanupNonces ELSE nonces
  /\ rate' = IF s = "rate" THEN [k \in Keys |-> NoBucket] ELSE rate
  /\ buckets' = IF s = "rate" THEN <<>> ELSE buckets
  /\ UNCHANGED <<hub, now, store, registered, passed, evicted, timer, life, work>>

\* _schedule_nonce_cleanup, _schedule_rate_bucket_cleanup: the timer fires
\* and its callback cleans the store.
Clean(s) ==
  /\ armed[s]
  /\ armed' = [armed EXCEPT ![s] = FALSE]
  /\ sweep' = [sweep EXCEPT ![s] = TRUE]
  /\ nonces' = IF s = "nonce" /\ store = "memory" THEN CleanupNonces ELSE nonces
  /\ IF s = "rate"
     THEN /\ rate' = CleanupRate
          /\ buckets' = CleanupOrder
          /\ evicted' = evicted \union (Dropped \ Old)
     ELSE UNCHANGED <<rate, buckets, evicted>>
  /\ UNCHANGED <<hub, now, store, registered, passed, timer, life, work>>

\* Mutant: the callback does not look whether the scheduler was stopped.
RearmAlways(s) ==
  /\ sweep[s]
  /\ sweep' = [sweep EXCEPT ![s] = FALSE]
  /\ armed' = [armed EXCEPT ![s] = TRUE]
  /\ UNCHANGED <<hub, now, guards, timer, life, work>>

\* The rest of the callback: the next timer, unless the scheduler was stopped.
Rearm(s) ==
  /\ sweep[s]
  /\ sweep' = [sweep EXCEPT ![s] = FALSE]
  /\ armed' = [armed EXCEPT ![s] = timer[s]]
  /\ UNCHANGED <<hub, now, guards, timer, life, work>>

-----------------------------------------------------------------------------
(* The end of the lifespan *)

\* The flag is set, and from now on middleware answers 503.
ShutDown ==
  /\ phase = "up"
  /\ phase' = "draining"
  /\ deadline' = now + DrainTime
  /\ UNCHANGED <<hub, now, guards, timers, clean, inflight, work>>

\* The drain loop sees no request in flight, or reaches its deadline.
Drained ==
  /\ phase = "draining"
  /\ inflight <= 0 \/ now >= deadline
  /\ phase' = "stopping"
  /\ clean' = (inflight <= 0)
  /\ UNCHANGED <<hub, now, guards, timers, deadline, inflight, work>>

\* The locked part of _stop_..._scheduler: the module variable is cleared.
Stop(s) ==
  /\ phase = "stopping"
  /\ timer[s]
  /\ s = "rate" => ~timer["nonce"] /\ ~armed["nonce"]
  /\ timer' = [timer EXCEPT ![s] = FALSE]
  /\ UNCHANGED <<hub, now, guards, armed, sweep, life, work>>

\* cancel() of the timer that was taken out: it does nothing to a callback
\* that runs.
Cancel(s) ==
  /\ phase = "stopping"
  /\ ~timer[s]
  /\ armed[s]
  /\ armed' = [armed EXCEPT ![s] = FALSE]
  /\ UNCHANGED <<hub, now, guards, timer, sweep, life, work>>

Stopped ==
  /\ phase = "stopping"
  /\ \A s \in Sweepers : ~timer[s] /\ ~armed[s]
  /\ phase' = "stopped"
  /\ UNCHANGED <<hub, now, guards, timers, deadline, clean, inflight, work>>

ClientStep(c) == Client(c) /\ UNCHANGED <<now, guards, timers, life, work>>

Work(w) ==
  \/ RateLimit(w) \/ RateStoreFails(w) \/ CheckTimestamp(w)
  \/ CheckSignature(w) \/ NonceStoreFails(w)
  \/ HandlerPublishes(w) \/ HandlerDelivers(w) \/ Respond(w) \/ Sent(w)

Sweep(s) == Clean(s) \/ Rearm(s)

Lifespan ==
  \/ ShutDown \/ Drained \/ Stopped
  \/ \E s \in Sweepers : Stop(s) \/ Cancel(s)

Next ==
  \/ Tick
  \/ \E w \in Workers : Work(w) \/ \E r \in load.requests : Arrive(w, r)
  \/ \E s \in Sweepers : Sweep(s)
  \/ \E c \in load.streams : ClientStep(c)
  \/ Lifespan

Spec == Init /\ [][Next]_vars

-----------------------------------------------------------------------------
(* Properties *)

\* Closed failure mode: a nonce is registered again only after its lifetime,
\* or when at least NonceMax other nonces were registered in the meantime and
\* pushed it out of the memory store; an unreachable store never lets one in.
NonceOnce ==
  ~FailOpen =>
    \A i, j \in 1 .. Len(registered) :
      i < j /\ registered[i].nonce = registered[j].nonce =>
        \/ registered[j].at - registered[i].at >= Ttl * Sub
        \/ store = "memory" /\ j - i > NonceMax

\* No key whose bucket was never dropped for lack of room gets more than two
\* limits of requests through in the length of one window, wherever the window
\* starts and whatever the sweeper and the clean-ups of other requests remove.
RateBound ==
  \A k \in Keys \ evicted : \A i \in 1 .. Len(passed[k]) :
    i + 2 * Limit <= Len(passed[k]) =>
      passed[k][i + 2 * Limit] - passed[k][i] > Window

\* The memory store refuses a request only if a full limit of requests with
\* its key was let through within the window before it.
Deserved(w) ==
  LET k == req[w].key IN
  Limit <= Cardinality({i \in 1 .. Len(passed[k]) : now - passed[k][i] <= Window})

RefusedOverLimit ==
  [][\A w \in Workers :
       store = "memory" /\ pc[w] = "rate" /\ pc'[w] = "idle" => Deserved(w)]_vars

\* A drain that is reported clean left no admitted request without its answer;
\* the bodies of answers may still be on their way.
DrainHonest == clean => \A w \in Workers : pc[w] = "idle"

\* Once the lifespan has ended no timer is waiting and none ever will be, also
\* when a callback was running while its scheduler was stopped.
SweepersSilent == phase = "stopped" => \A s \in Sweepers : ~armed[s]
=============================================================================
