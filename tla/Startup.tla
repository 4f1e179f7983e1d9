------------------------------ MODULE Startup -------------------------------
(***************************************************************************)
(* How services are started: the order of the first starts (O) and the     *)
(* pace of the restarts (B).  The order is computed before a service runs, *)
(* and the pace only looks at how long attempts lasted, so the two share   *)
(* no state with each other or with Supervisor.                            *)
(***************************************************************************)
CONSTANTS Configs, Runs, Window  \* those of StartOrder and Backoff

VARIABLES
  o_services, o_indegree, o_queue, o_order, o_result,
  b_backoff, b_starts, b_ran

O == INSTANCE StartOrder WITH
  services <- o_services, indegree <- o_indegree, queue <- o_queue,
  order <- o_order, result <- o_result

B == INSTANCE Backoff WITH
  backoff <- b_backoff, starts <- b_starts, ran <- b_ran

ASSUME StartupAssumption == O!OrderAssumption /\ B!PaceAssumption

-----------------------------------------------------------------------------
(* StartOrder: start_order returns an order exactly when there is one and  *)
(* it is whole, dependencies come before their dependents, and how the     *)
(* services are listed does not matter.                                    *)
OrderRight == O!TypeOK /\ O!DepsFirst /\ O!Decides /\ O!Deterministic

(* Backoff: no seven starts of a service fall within a minute, and the     *)
(* start that follows a healthy run comes a second after its exit.         *)
RestartsPaced == B!NoHotLoop /\ B!RecoversFast
=============================================================================
