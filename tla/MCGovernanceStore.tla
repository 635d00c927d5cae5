------------------------- MODULE MCGovernanceStore --------------------------
(* Requests that touch every field, and approval lists that pass and fail. *)
EXTENDS GovernanceStore

Says(text) == [text |-> text, spaces |-> text = ""]

MCDefault == [rules |-> "r0", retention |-> Says("v1"), enforced |-> TRUE]

NoChange == [rules |-> None, retention |-> None, enforced |-> None]

MCPatches ==
  {[NoChange EXCEPT !.rules = "r1"], [NoChange EXCEPT !.retention = Says("v2")],
   [NoChange EXCEPT !.retention = Says("")],
   [NoChange EXCEPT !.enforced = FALSE], [NoChange EXCEPT !.enforced = TRUE]}

MCTargets == {[MCDefault EXCEPT !.enforced = FALSE]}

Approval(who) == [reviewer |-> who, signature |-> who]

MCApprovals ==
  {<<>>, <<Approval("ann"), Approval("ann")>>, <<Approval("ann"), Approval("")>>,
   <<Approval("ann"), Approval("bob")>>}
=============================================================================
