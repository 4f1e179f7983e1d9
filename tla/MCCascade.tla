------------------------------ MODULE MCCascade ------------------------------
(***************************************************************************)
(* One key: the calls on different keys are independent.                   *)
(*                                                                         *)
(* MCCascade.cfg: failing applies and reverts, and what is desired changes *)
(* at any moment, with and without patience.  MCCascadeAgain.cfg: no       *)
(* faults and no patience.                                                 *)
(***************************************************************************)
EXTENDS Cascade
=============================================================================
