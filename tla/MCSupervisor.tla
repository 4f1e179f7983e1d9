----------------------------- MODULE MCSupervisor ----------------------------
(***************************************************************************)
(* A service "app" that depends on a service "base", with two choices of   *)
(* their restart policies.                                                 *)
(***************************************************************************)
EXTENDS Supervisor

CONSTANTS base, app

BothOrder == <<base, app>>
BothDeps == [s \in Services |-> IF s = app THEN {base} ELSE {}]
BothPolicy == [s \in Services |-> IF s = app THEN "OnFailure" ELSE "Always"]

OncePolicy == [s \in Services |-> IF s = app THEN "Always" ELSE "Never"]

OneOrder == <<app>>
OneDeps == [s \in Services |-> {}]
=============================================================================
