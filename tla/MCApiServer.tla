----------------------------- MODULE MCApiServer -----------------------------
(* Two workers, one stream, two keys, and workloads that each bring one      *)
(* guard or the hub to its limits.                                           *)
EXTENDS ApiServer, TLC

Replay(k, n, t) ==
  [key |-> k, route |-> "replay", ts |-> t, nonce |-> n, signed |-> TRUE]

Decide(k) ==
  [key |-> k, route |-> "decide", ts |-> 0, nonce |-> None, signed |-> FALSE]

Load(s, rs, cs, n, t) ==
  [store |-> s, requests |-> rs, streams |-> cs, count |-> n, until |-> t]

Decides == {Decide("k1"), Decide("wrong")}

\* One without a valid signature, refused once it is counted.
Forged(k, t) == [Replay(k, "n2", t) EXCEPT !.signed = FALSE]

\* Events and a stream; nonces in both stores, where n1 comes again while it
\* lives, after n2 and after its end; the rate of one key over several windows in
\* both stores, long enough for its bucket to be swept; more keys than buckets.
MCWorkloads ==
  { Load("memory", Decides, Clients, 2, 2),
    Load("memory", {Replay("k1", "n1", 0), Replay("k1", "n2", 0)}, {}, 3, 3),
    Load("redis", {Replay("k1", "n1", 0), Forged("k2", 2)}, {}, 3, 2),
    Load("memory", {Forged("k1", 6)}, {}, 5, 5), Load("redis", {Forged("k1", 6)}, {}, 5, 3),
    Load("memory", {Forged("k1", 3), Forged("k2", 3)}, {}, 4, 2) }

Symmetry == Permutations(Publishers)
=============================================================================
