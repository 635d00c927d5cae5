------------------------ MODULE MCBindAdmissibility -------------------------
(* BindAdmissibility has no constants: every input is checked. *)
EXTENDS BindAdmissibility
=============================================================================
