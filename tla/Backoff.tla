------------------------------ MODULE Backoff -------------------------------
(***************************************************************************)
(* The pace of restarts: run_supervised's clock, with backoff_step         *)
(* deciding how long to wait before the next attempt                       *)
(* (crates/supervisor/src/restart.rs, service.rs).  In seconds.  What else *)
(* run_supervised does is in Supervisor.                                   *)
(***************************************************************************)
EXTENDS Naturals, Sequences, FiniteSetsExt

CONSTANTS
  Runs,   \* how long an attempt may last
  Window  \* how many starts are looked back on

PaceAssumption == Runs \subseteq Nat /\ Window \in Nat

VARIABLES
  backoff,  \* run_supervised's variable
  starts,   \* how long ago each of the last starts was, newest first
  ran       \* how long each of the attempts between them lasted

vars == <<backoff, starts, ran>>

BASE == 1
CAP == 30
HEALTHY_RESET == 60

Keep(s) == SubSeq(s, 1, Min({Window, Len(s)}))

Init == backoff = BASE /\ starts = <<0>> /\ ran = <<>>

(* Mutant: the next delay is the base again once the cap is reached.       *)
backoff_step_wrapping(current, ran_for) ==
  LET delay == IF ran_for >= HEALTHY_RESET THEN BASE ELSE current
  IN [delay |-> delay, next |-> IF delay * 2 > CAP THEN BASE ELSE delay * 2]

backoff_step(current, ran_for) ==
  LET delay == IF ran_for >= HEALTHY_RESET THEN BASE ELSE current
  IN [delay |-> delay, next |-> Min({delay * 2, CAP})]

(* An attempt lasts, its exit is restarted, and the delay is slept out.    *)
Restart(r) ==
  LET step == backoff_step(backoff, r)
  IN /\ backoff' = step.next
     /\ starts' = <<0>> \o Keep([n \in DOMAIN starts |-> starts[n] + r + step.delay])
     /\ ran' = Keep(<<r>> \o ran)

Next == \E r \in Runs : Restart(r)

Spec == Init /\ [][Next]_vars

-----------------------------------------------------------------------------
(* No hot loop: of a service that exits as soon as it starts, no seven     *)
(* starts fall within a minute: "a binary that exits instantly keeps       *)
(* escalating toward the cap instead of hot-looping" (restart.rs:26-28).   *)
NoHotLoop == Len(starts) >= 7 => starts[7] >= 60

(* Recovery: the delay after a healthy run is the base, so the start that  *)
(* follows it comes a second after the exit, however long the service had  *)
(* been flapping before: "long-lived services recover fast"                *)
(* (restart.rs:27).                                                        *)
RecoversFast ==
  Len(ran) > 0 /\ ran[1] >= HEALTHY_RESET => starts[2] = ran[1] + BASE
=============================================================================
