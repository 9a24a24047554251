--------------------------- MODULE MCNaluPipeline ---------------------------
(* NaluPipeline on short streams with small pools. *)
EXTENDS NaluPipeline
=============================================================================
