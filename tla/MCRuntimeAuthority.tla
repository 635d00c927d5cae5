------------------------- MODULE MCRuntimeAuthority -------------------------
(* Artefacts that fit a request and artefacts that nearly do. *)
EXTENDS RuntimeAuthority

E1 == [id |-> "e1", from |-> 0, until |-> 4, grants |-> {"s1"}, limits |-> {},
       snapshot |-> "p1", version |-> 1, actor |-> "ann", key |-> "k1",
       declared |-> TRUE, readable |-> TRUE]

\* Starts later, ends sooner, and grants a scope that it limits as well.
E2 == [E1 EXCEPT !.id = "e2", !.from = 1, !.until = 3, !.grants = {"s1", "s2"},
                 !.limits = {"s2"}]

MCEvidence == {E1, E2, [E1 EXCEPT !.readable = FALSE]}

R1 == [approved |-> TRUE, expires |-> 3, scope |-> {"s1"}, snapshot |-> "p1",
       class |-> "a", intent |-> "i1", authority |-> "e1", key |-> "k1"]

MCReceipts == {R1, [R1 EXCEPT !.authority = "e2", !.expires = 2]}

C1 == [version |-> 1, class |-> "a", allowed |-> {"s1", "s2"}, prohibited |-> {},
       evidence |-> {"m"}, boundary |-> TRUE, needsApproval |-> TRUE, escalates |-> TRUE]

Item(present, fresh, freshness) ==
  [m |-> [present |-> present, fresh |-> fresh, freshness |-> freshness]]

Q1 == [intent |-> "i1", actor |-> "ann", snapshot |-> "p1", class |-> "a", contract |-> C1,
       scope |-> {"s1"}, meta |-> Item(TRUE, "yes", None), context |-> TRUE, exact |-> TRUE]

\* No approval is needed.
Q2 == [Q1 EXCEPT !.contract.needsApproval = FALSE]

MCRequests ==
  {Q1, [Q1 EXCEPT !.intent = "i2"], Q2, [Q2 EXCEPT !.snapshot = "p2"],
   [Q2 EXCEPT !.scope = {"s2"}, !.class = "b"],
   [Q2 EXCEPT !.meta = Item(TRUE, "yes", "unknown"), !.actor = None],
   [Q2 EXCEPT !.meta = Item(FALSE, None, "no"), !.context = FALSE],
   [Q2 EXCEPT !.contract = None, !.snapshot = None]}
=============================================================================
