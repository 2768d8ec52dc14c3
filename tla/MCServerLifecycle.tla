-------------------------- MODULE MCServerLifecycle --------------------------
(* A small instance of ServerLifecycle on its own. *)
EXTENDS ServerLifecycle
=============================================================================
