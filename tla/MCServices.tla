----------------------------- MODULE MCServices -----------------------------
(***************************************************************************)
(* The services of a node: Supervisor, and the two parts of Startup.  The  *)
(* three share no state, so they are checked side by side: which says what *)
(* a behaviour is about.                                                   *)
(***************************************************************************)
EXTENDS MCSupervisor, Startup, Naturals

VARIABLE which  \* the part the behaviour is about

(* Every list of up to three services that depend on each other, on        *)
(* themselves, on the same service twice or on one that is not there.      *)
DepLists == {<<>>, <<1>>, <<2>>, <<3>>, <<2, 1>>, <<1, 3>>, <<3, 2>>, <<1, 1>>, <<4>>}
MCConfigs == UNION {[1..n -> [id : 1..3, depends_on : DepLists]] : n \in 0..3}

MCRuns == {0, 59, 60, 61}

-----------------------------------------------------------------------------
supervisorState == <<pc, status, outcome, stop, slot, spawns, leader, tree,
  succeeded, late, mpc, handles, cur, seen, reaping>>
orderState == <<o_services, o_indegree, o_queue, o_order, o_result>>
backoffState == <<b_backoff, b_starts, b_ran>>

(* A part that a behaviour is not about rests in an initial state.         *)
SupervisorRests == Init
OrderRests == o_services = <<>> /\ O!Init
BackoffRests == B!Init

MCInit ==
  \/ which = "supervisor" /\ Init /\ OrderRests /\ BackoffRests
  \/ which = "order" /\ O!Init /\ SupervisorRests /\ BackoffRests
  \/ which = "backoff" /\ B!Init /\ SupervisorRests /\ OrderRests

MCNext ==
  \/ /\ which = "supervisor" /\ Next
     /\ UNCHANGED <<which, orderState, backoffState>>
  \/ /\ which = "order" /\ O!Next
     /\ UNCHANGED <<which, supervisorState, backoffState>>
  \/ /\ which = "backoff" /\ B!Next
     /\ UNCHANGED <<which, supervisorState, orderState>>

state == <<which, supervisorState, orderState, backoffState>>

(* The fairness of Supervisor; what is said of the other parts is safety.  *)
MCSpec ==
  /\ MCInit /\ [][MCNext]_state
  /\ WF_supervisorState(which = "supervisor" /\ ManagerStep)
  /\ \A s \in Services : WF_supervisorState(which = "supervisor" /\ TaskStep(s))
=============================================================================
