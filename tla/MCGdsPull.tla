----------------------------- MODULE MCGdsPull -----------------------------
(* Model-checking instance of GdsPull: two commands for one ApplicationUri. *)
EXTENDS GdsPull

MCFlagSets == {{"csr", "unregister"}, {"revoke"}}
=============================================================================
