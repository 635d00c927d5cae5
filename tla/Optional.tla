------------------------------ MODULE Optional ------------------------------
(***************************************************************************)
(* Python's None, for the modules of the decision pipeline.                *)
(***************************************************************************)
CONSTANT None

\* x or default
OrElse(x, default) == IF x = None THEN default ELSE x
=============================================================================
