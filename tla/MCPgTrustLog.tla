---------------------------- MODULE MCPgTrustLog ----------------------------
(* The files to migrate. *)
EXTENDS PgTrustLog

\* Three entries of their own requests; the two entries of one decide request
\* before and around another one; entries without a request id.
Files == {<<"a", "b", "c">>, <<"a", "a", "b">>, <<"a", "b", "a">>, <<None, "a", None>>}
=============================================================================
