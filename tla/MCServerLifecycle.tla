-------------------------- MODULE MCServerLifecycle --------------------------
(* Model-checking instances of ServerLifecycle.                             *)
EXTENDS ServerLifecycle
=============================================================================
