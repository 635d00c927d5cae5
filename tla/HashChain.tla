----------------------------- MODULE HashChain ------------------------------
(***************************************************************************)
(* What the TrustLog promises: one chain of entries, each naming its       *)
(* predecessor, that only grows; and a set of acknowledged entries, all of *)
(* them on the chain.                                                      *)
(***************************************************************************)
EXTENDS Naturals, Sequences

CONSTANTS
  Digests,  \* digests an entry may have
  Restarts  \* an entry may be written by one who could not read the head

VARIABLES
  chain,  \* sequence of [sha, prev]
  acked   \* digests of acknowledged entries

Head0 == IF chain = <<>> THEN 0 ELSE chain[Len(chain)].sha

Init == chain = <<>> /\ acked = {}

\* A new entry, with a digest not used before, is linked to the head, or to
\* nothing where Restarts allows it.
AppendEntry ==
  \E h \in Digests, p \in {Head0} \union IF Restarts THEN {0} ELSE {} :
    /\ \A i \in 1 .. Len(chain) : chain[i].sha # h
    /\ chain' = Append(chain, [sha |-> h, prev |-> p])
    /\ UNCHANGED acked

\* An entry on the chain is acknowledged.
Acknowledge ==
  \E i \in 1 .. Len(chain) :
    /\ acked' = acked \union {chain[i].sha}
    /\ UNCHANGED chain

Next == AppendEntry \/ Acknowledge

Spec == Init /\ [][Next]_<<chain, acked>>
=============================================================================
