----------------------------- MODULE BootSlots -----------------------------
(***************************************************************************)
(* What an A/B upgrade promises of the machine it runs on: a power cut at  *)
(* any moment is followed by a boot into the image that was selected       *)
(* before, or into the new one as a whole, never into anything else; and   *)
(* the node starts running another image only by rebooting into it.        *)
(***************************************************************************)
CONSTANT Images

VARIABLES
  next,    \* the image the next boot will run
  running  \* the image that runs, or "none"

Init == next \in Images /\ running = "none"

Boot == running = "none" /\ running' = next /\ UNCHANGED next

Stop == running' = "none" /\ UNCHANGED next

(* The commit point.                                                       *)
Select(v) == running # "none" /\ next' = v /\ UNCHANGED running

Next == Boot \/ Stop \/ \E v \in Images : Select(v)

Spec == Init /\ [][Next]_<<next, running>>
=============================================================================
