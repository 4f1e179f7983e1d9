-------------------------- MODULE MCControllerLoop --------------------------
(***************************************************************************)
(* The loop between its inputs and a key that is not an input: one writer  *)
(* and the controller itself, two inputs, a channel that holds one event,  *)
(* so that a second write before a drain overflows it.                     *)
(***************************************************************************)
EXTENDS ControllerLoop
=============================================================================
