---------------------------- MODULE LevelTrigger ----------------------------
(***************************************************************************)
(* What the controller runtime promises a controller: it need not follow   *)
(* events, because whatever state its inputs settle in, it gets to see     *)
(* that state, until it is told to stop.                                   *)
(***************************************************************************)
CONSTANTS
  Inputs,   \* the resources the controller declared as inputs
  Values,   \* what an input can be
  Unseen    \* an input not yet looked at

VARIABLES
  current,  \* the inputs as they are
  observed, \* the inputs as the controller last saw them
  stopped   \* the controller's loop has returned

vars == <<current, observed, stopped>>

Init ==
  /\ current \in [Inputs -> Values]
  /\ observed = [k \in Inputs |-> Unseen]
  /\ stopped = FALSE

Change ==
  /\ current' \in [Inputs -> Values]
  /\ UNCHANGED <<observed, stopped>>

Observe(k) ==
  /\ ~stopped
  /\ observed' = [observed EXCEPT ![k] = current[k]]
  /\ UNCHANGED <<current, stopped>>

Stop ==
  /\ stopped' = TRUE
  /\ UNCHANGED <<current, observed>>

Next == Change \/ Stop \/ \E k \in Inputs : Observe(k)

(* An input that stays different from what was seen of it is looked at.    *)
Fairness ==
  \A k \in Inputs : WF_vars(observed[k] # current[k] /\ Observe(k))

Spec == Init /\ [][Next]_vars /\ Fairness
=============================================================================
