-------------------------------- MODULE MCApp --------------------------------
(* App on two activities that may overlap. *)
EXTENDS App
==============================================================================
