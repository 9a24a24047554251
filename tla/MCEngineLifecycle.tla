------------------------- MODULE MCEngineLifecycle -------------------------
(* EngineLifecycle with a few sessions. *)
EXTENDS EngineLifecycle
=============================================================================
