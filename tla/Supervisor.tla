----------------------------- MODULE Supervisor -----------------------------
(***************************************************************************)
(* The service supervisor (crates/supervisor) and the PID-1 reaper         *)
(* (crates/machined/src/pid1.rs).  One task per service gates on its       *)
(* dependencies, spawns the process, waits for it and applies the restart  *)
(* policy (run_supervised); at shutdown the manager stops the services one *)
(* by one, last started first (stop_all): stop intent, SIGTERM to the      *)
(* process group, a grace period, SIGKILL and abort.  Until it sees the    *)
(* shutdown the reaper collects any exited child it finds.                 *)
(*                                                                         *)
(* A service's n-th spawn is process n: a group leader, the child the      *)
(* supervisor waits for, and a tree of processes the leader may fork into  *)
(* its group.  The tasks run on several threads, so a task's reads and     *)
(* writes of shared state interleave with the manager's even where it does *)
(* not await.                                                              *)
(***************************************************************************)
EXTENDS Naturals, Sequences

CONSTANTS
  Services,
  Order,     \* the order start_all starts them in
  Deps,      \* depends_on
  policy,    \* restart policy of each service
  Forks,     \* the services whose leader may fork into its group
  MaxSpawns  \* bound: processes a service spawns

ASSUME SupervisorAssumption ==
  /\ Services # {}
  /\ Order \in Seq(Services)
  /\ \A s \in Services : \E i \in 1..Len(Order) : Order[i] = s
  /\ \A i, j \in 1..Len(Order) : Order[i] = Order[j] => i = j
  /\ Deps \in [Services -> SUBSET Services]
  /\ \A i, j \in 1..Len(Order) : Order[i] \in Deps[Order[j]] => i < j
  /\ policy \in [Services -> {"Never", "OnFailure", "Always"}]
  /\ Forks \subseteq Services
  /\ MaxSpawns \in Nat

VARIABLES
  pc,         \* where each service's task is
  status,     \* the ServiceStatus published for it
  outcome,    \* the RunOutcome of its last attempt
  stop,       \* its stop intent
  slot,       \* its pid slot: the process shown as live, 0 for None
  spawns,     \* how many processes it has spawned
  leader,     \* state of each of its processes' leader
  tree,       \* state of what that leader forked
  succeeded,  \* its processes whose leader exited 0
  late,       \* how many it spawned after the stop intent
  mpc,        \* where the manager is
  handles,    \* the services the manager still has to stop
  cur,        \* the service it is stopping
  seen,       \* the pid it read from the slot
  reaping     \* is the reaper running?

task == <<pc, status, outcome>>
process == <<leader, tree, succeeded>>
manager == <<mpc, handles, cur, seen>>
vars == <<pc, status, outcome, stop, slot, spawns, late, process, manager, reaping>>

Pids == 1..MaxSpawns

TaskPc == {"New", "Top", "Gate", "Waiting", "Check", "Preparing", "Spawn",
           "Spawned", "Wait", "Reaped", "After", "Backoff", "Ended", "Aborted"}
ServiceState == {"Absent", "Waiting", "Preparing", "Running", "Finished",
                 "Failed", "Stopped"}
RunOutcome == {"Success", "Failure"}
LeaderState == {"none", "alive", "zombie", "gone"}
TreeState == {"none", "alive", "gone"}
ManagerPc == {"Up", "Pop", "Read", "Term", "Drain", "Expired", "Abort", "Stopped"}

TypeOK ==
  /\ pc \in [Services -> TaskPc]
  /\ status \in [Services -> ServiceState]
  /\ outcome \in [Services -> RunOutcome]
  /\ stop \in [Services -> BOOLEAN]
  /\ slot \in [Services -> {0} \cup Pids]
  /\ spawns \in [Services -> {0} \cup Pids]
  /\ leader \in [Services -> [Pids -> LeaderState]]
  /\ tree \in [Services -> [Pids -> TreeState]]
  /\ succeeded \in [Services -> SUBSET Pids]
  /\ late \in [Services -> Nat]
  /\ mpc \in ManagerPc
  /\ handles \in Seq(Services)
  /\ cur \in Services
  /\ seen \in {0} \cup Pids
  /\ reaping \in BOOLEAN
  /\ \A s \in Services : pc[s] \in {"Spawned", "Wait"} => spawns[s] # 0

(* start_all has spawned the tasks; none has been polled yet.              *)
Init ==
  /\ pc = [s \in Services |-> "New"]
  /\ status = [s \in Services |-> "Absent"]
  /\ outcome = [s \in Services |-> "Failure"]
  /\ stop = [s \in Services |-> FALSE]
  /\ slot = [s \in Services |-> 0]
  /\ spawns = [s \in Services |-> 0]
  /\ leader = [s \in Services |-> [n \in Pids |-> "none"]]
  /\ tree = [s \in Services |-> [n \in Pids |-> "none"]]
  /\ succeeded = [s \in Services |-> {}]
  /\ late = [s \in Services |-> 0]
  /\ mpc = "Up" /\ handles = Order /\ seen = 0
  /\ cur = CHOOSE s \in Services : TRUE
  /\ reaping = TRUE

-----------------------------------------------------------------------------
(* A service's task: run_supervised, run_service and ProcessRunner::run.   *)

Goes(s, to) == pc' = [pc EXCEPT ![s] = to]
Publish(s, st) == status' = [status EXCEPT ![s] = st]
Ends(s, st) == Goes(s, "Ended") /\ Publish(s, st)

NoProcess == UNCHANGED <<stop, slot, spawns, late, process, manager, reaping>>

(* Mutant: a service with policy Always comes back after failures only.    *)
RestartFailedOnly(p, o) == p # "Never" /\ o = "Failure"

should_restart(p, o) ==
  \/ p = "OnFailure" /\ o = "Failure"
  \/ p = "Always"

is_ready(d) == status[d] \in {"Running", "Finished"}

DepsReady(s) == \A d \in Deps[s] : is_ready(d)

(* Mutant: the task holds a copy of the stop intent, not the flag itself.  *)
StopCopied(s) == FALSE

StopSeen(s) == stop[s]

(* The check of the stop intent before a loop's attempt, and again after   *)
(* the gate.                                                               *)
TopCheck(s) ==
  /\ pc[s] \in {"New", "Top"}
  /\ IF StopSeen(s) THEN Ends(s, "Stopped")
                    ELSE Goes(s, "Gate") /\ UNCHANGED status
  /\ UNCHANGED outcome /\ NoProcess

GateOpens(s) ==
  /\ pc[s] \in {"Gate", "Waiting"}
  /\ DepsReady(s) \/ StopSeen(s)
  /\ Goes(s, "Check")
  /\ UNCHANGED <<status, outcome>> /\ NoProcess

GateParks(s) ==
  /\ pc[s] = "Gate" /\ ~DepsReady(s)
  /\ Goes(s, "Waiting") /\ Publish(s, "Waiting")
  /\ UNCHANGED outcome /\ NoProcess

GateCheck(s) ==
  /\ pc[s] = "Check"
  /\ IF StopSeen(s) THEN Ends(s, "Stopped")
                    ELSE Goes(s, "Preparing") /\ Publish(s, "Preparing")
  /\ UNCHANGED outcome /\ NoProcess

(* Running is published before there is a process.                         *)
PublishRunning(s) ==
  /\ pc[s] = "Preparing"
  /\ Goes(s, "Spawn") /\ Publish(s, "Running")
  /\ UNCHANGED outcome /\ NoProcess

Spawn(s) ==
  /\ pc[s] = "Spawn" /\ spawns[s] < MaxSpawns
  /\ spawns' = [spawns EXCEPT ![s] = @ + 1]
  /\ leader' = [leader EXCEPT ![s][spawns[s] + 1] = "alive"]
  /\ late' = [late EXCEPT ![s] = IF stop[s] THEN @ + 1 ELSE @]
  /\ Goes(s, "Spawned")
  /\ UNCHANGED <<status, outcome, stop, slot, tree, succeeded, manager, reaping>>

(* Mutant: the error is dropped, and the task waits for a child.           *)
SpawnFailsUnseen(s) ==
  /\ pc[s] = "Spawn"
  /\ Goes(s, "Spawned")
  /\ UNCHANGED <<status, outcome>> /\ NoProcess

(* The command is empty, or exec fails.                                    *)
SpawnFails(s) ==
  /\ pc[s] = "Spawn"
  /\ Goes(s, "After") /\ Publish(s, "Failed")
  /\ outcome' = [outcome EXCEPT ![s] = "Failure"]
  /\ NoProcess

SetSlot(s) ==
  /\ pc[s] = "Spawned"
  /\ slot' = [slot EXCEPT ![s] = spawns[s]]
  /\ Goes(s, "Wait")
  /\ UNCHANGED <<status, outcome, stop, spawns, late, process, manager, reaping>>

(* wait() collects the exited leader ...                                   *)
WaitReturns(s) ==
  /\ pc[s] = "Wait" /\ leader[s][spawns[s]] = "zombie"
  /\ leader' = [leader EXCEPT ![s][spawns[s]] = "gone"]
  /\ outcome' = [outcome EXCEPT ![s] =
                   IF spawns[s] \in succeeded[s] THEN "Success" ELSE "Failure"]
  /\ Goes(s, "Reaped")
  /\ UNCHANGED <<status, stop, slot, spawns, late, tree, succeeded, manager, reaping>>

(* ... or finds that somebody else has: the error skips the clearing of    *)
(* the slot.                                                               *)
WaitFails(s) ==
  /\ pc[s] = "Wait" /\ leader[s][spawns[s]] = "gone"
  /\ outcome' = [outcome EXCEPT ![s] = "Failure"]
  /\ Goes(s, "After") /\ Publish(s, "Failed")
  /\ NoProcess

ClearSlot(s) ==
  /\ pc[s] = "Reaped"
  /\ slot' = [slot EXCEPT ![s] = 0]
  /\ Goes(s, "After")
  /\ Publish(s, IF outcome[s] = "Success" THEN "Finished" ELSE "Failed")
  /\ UNCHANGED <<outcome, stop, spawns, late, process, manager, reaping>>

Decide(s) ==
  /\ pc[s] = "After"
  /\ \/ StopSeen(s) /\ Ends(s, "Stopped")
     \/ /\ ~StopSeen(s)
        /\ Goes(s, IF should_restart(policy[s], outcome[s]) THEN "Backoff" ELSE "Ended")
        /\ UNCHANGED status
  /\ UNCHANGED outcome /\ NoProcess

(* The backoff is over, or cut short by the stop intent.                   *)
BackoffOver(s) ==
  /\ pc[s] = "Backoff"
  /\ Goes(s, "Top")
  /\ UNCHANGED <<status, outcome>> /\ NoProcess

TaskStep(s) ==
  \/ TopCheck(s) \/ GateOpens(s) \/ GateParks(s) \/ GateCheck(s)
  \/ PublishRunning(s) \/ Spawn(s) \/ SpawnFails(s) \/ SetSlot(s)
  \/ WaitReturns(s) \/ WaitFails(s) \/ ClearSlot(s) \/ Decide(s) \/ BackoffOver(s)

-----------------------------------------------------------------------------
(* The processes and the reaper.                                           *)

NoTask == UNCHANGED <<task, stop, slot, spawns, late, manager>>

Exit(s, n, code) ==
  /\ leader[s][n] = "alive"
  /\ leader' = [leader EXCEPT ![s][n] = "zombie"]
  /\ succeeded' = [succeeded EXCEPT ![s] = IF code = 0 THEN @ \cup {n} ELSE @]
  /\ UNCHANGED <<tree, reaping>> /\ NoTask

Fork(s, n) ==
  /\ s \in Forks /\ leader[s][n] = "alive" /\ tree[s][n] = "none"
  /\ tree' = [tree EXCEPT ![s][n] = "alive"]
  /\ UNCHANGED <<leader, succeeded, reaping>> /\ NoTask

TreeExits(s, n) ==
  /\ tree[s][n] = "alive"
  /\ tree' = [tree EXCEPT ![s][n] = "gone"]
  /\ UNCHANGED <<leader, succeeded, reaping>> /\ NoTask

(* waitpid(-1) takes any exited child, a supervised one included.          *)
Reap(s, n) ==
  /\ reaping /\ leader[s][n] = "zombie"
  /\ leader' = [leader EXCEPT ![s][n] = "gone"]
  /\ UNCHANGED <<tree, succeeded, reaping>> /\ NoTask

-----------------------------------------------------------------------------
(* The manager: stop_all, after the shutdown token is cancelled.           *)

NoManager == UNCHANGED <<outcome, spawns, late>>

Shutdown ==
  /\ mpc = "Up"
  /\ mpc' = "Pop"
  /\ UNCHANGED <<task, stop, slot, process, handles, cur, seen, reaping>> /\ NoManager

(* The reaper sees the token at some moment after that.                    *)
ReaperStops ==
  /\ mpc # "Up" /\ reaping
  /\ reaping' = FALSE
  /\ UNCHANGED process /\ NoTask

(* Mutant: the services are stopped in the order they were started.        *)
PopFirst ==
  /\ mpc = "Pop" /\ handles # <<>>
  /\ cur' = Head(handles) /\ handles' = Tail(handles)
  /\ stop' = [stop EXCEPT ![cur'] = TRUE]
  /\ mpc' = "Read"
  /\ UNCHANGED <<task, slot, process, seen, reaping>> /\ NoManager

PopHandle ==
  /\ mpc = "Pop" /\ handles # <<>>
  /\ cur' = handles[Len(handles)] /\ handles' = SubSeq(handles, 1, Len(handles) - 1)
  /\ stop' = [stop EXCEPT ![cur'] = TRUE]
  /\ mpc' = "Read"
  /\ UNCHANGED <<task, slot, process, seen, reaping>> /\ NoManager

ReadSlot ==
  /\ mpc = "Read"
  /\ seen' = slot[cur] /\ mpc' = "Term"
  /\ UNCHANGED <<task, stop, slot, process, handles, cur, reaping>> /\ NoManager

(* A process that is alive dies.                                           *)
Dies(f, s, n, dead) == [f EXCEPT ![s][n] = IF @ = "alive" THEN dead ELSE @]

(* SIGTERM reaches every process of the group that is left, and each one   *)
(* may die of it or not; without a pid it is skipped.                      *)
Terminate ==
  /\ mpc = "Term"
  /\ mpc' = "Drain"
  /\ IF seen = 0
     THEN UNCHANGED <<leader, tree>>
     ELSE /\ leader' \in {leader, Dies(leader, cur, seen, "zombie")}
          /\ tree' \in {tree, Dies(tree, cur, seen, "gone")}
  /\ UNCHANGED <<task, stop, slot, succeeded, handles, cur, seen, reaping>> /\ NoManager

Drained ==
  /\ mpc = "Drain" /\ pc[cur] = "Ended"
  /\ mpc' = "Pop"
  /\ UNCHANGED <<task, stop, slot, process, handles, cur, seen, reaping>> /\ NoManager

(* Mutant: the wait for the task has no timeout.                           *)
NeverExpires == FALSE /\ UNCHANGED vars

GraceExpires ==
  /\ mpc = "Drain" /\ pc[cur] # "Ended"
  /\ mpc' = "Expired"
  /\ UNCHANGED <<task, stop, slot, process, handles, cur, seen, reaping>> /\ NoManager

(* The slot is locked while its group is sent SIGKILL.                     *)
KillGroup ==
  /\ mpc = "Expired"
  /\ mpc' = "Abort"
  /\ IF slot[cur] = 0
     THEN UNCHANGED <<leader, tree>>
     ELSE /\ leader' = Dies(leader, cur, slot[cur], "zombie")
          /\ tree' = Dies(tree, cur, slot[cur], "gone")
  /\ UNCHANGED <<task, stop, slot, succeeded, handles, cur, seen, reaping>> /\ NoManager

(* Where an aborted task is dropped; anywhere else it runs on.             *)
AwaitPoints == {"New", "Waiting", "Wait", "Backoff"}

(* Mutant: the runner is built without kill_on_drop.                       *)
AbortLeavesChild ==
  /\ mpc = "Abort" /\ pc[cur] \in AwaitPoints \cup {"Ended"}
  /\ pc' = [pc EXCEPT ![cur] = IF @ = "Ended" THEN @ ELSE "Aborted"]
  /\ Publish(cur, "Failed")
  /\ mpc' = "Pop"
  /\ UNCHANGED <<stop, slot, process, handles, cur, seen, reaping>> /\ NoManager

(* Mutant: nobody records the kill of the aborted task.                    *)
AbortSilently ==
  /\ mpc = "Abort" /\ pc[cur] \in AwaitPoints \cup {"Ended"}
  /\ pc' = [pc EXCEPT ![cur] = IF @ = "Ended" THEN @ ELSE "Aborted"]
  /\ leader' = IF pc[cur] = "Wait" THEN Dies(leader, cur, spawns[cur], "zombie")
                                   ELSE leader
  /\ mpc' = "Pop"
  /\ UNCHANGED <<status, stop, slot, tree, succeeded, handles, cur, seen, reaping>>
  /\ NoManager

(* Dropping the task drops the child it waits for, which kills the leader  *)
(* alone (kill_on_drop).  A task that has ended in the meantime has its    *)
(* last status overwritten.                                                *)
AbortTask ==
  /\ mpc = "Abort" /\ pc[cur] \in AwaitPoints \cup {"Ended"}
  /\ pc' = [pc EXCEPT ![cur] = IF @ = "Ended" THEN @ ELSE "Aborted"]
  /\ leader' = IF pc[cur] = "Wait" THEN Dies(leader, cur, spawns[cur], "zombie")
                                   ELSE leader
  /\ Publish(cur, "Failed")
  /\ mpc' = "Pop"
  /\ UNCHANGED <<stop, slot, tree, succeeded, handles, cur, seen, reaping>> /\ NoManager

AllStopped ==
  /\ mpc = "Pop" /\ handles = <<>>
  /\ mpc' = "Stopped"
  /\ UNCHANGED <<task, stop, slot, process, handles, cur, seen, reaping>> /\ NoManager

ManagerStep ==
  \/ PopHandle \/ ReadSlot \/ Terminate \/ Drained \/ GraceExpires
  \/ KillGroup \/ AbortTask \/ AllStopped

-----------------------------------------------------------------------------

Next ==
  \/ \E s \in Services : TaskStep(s)
  \/ \E s \in Services, n \in Pids :
        \/ \E code \in {0, 1} : Exit(s, n, code)
        \/ Fork(s, n) \/ TreeExits(s, n) \/ Reap(s, n)
  \/ Shutdown \/ ReaperStops \/ ManagerStep

(* The executor polls every task, and timers fire.  Nothing makes a        *)
(* process exit, and nothing makes the daemon shut down.                   *)
Fairness == WF_vars(ManagerStep) /\ \A s \in Services : WF_vars(TaskStep(s))

Spec == Init /\ [][Next]_vars /\ Fairness

-----------------------------------------------------------------------------

(* Has stop_all finished with s?                                           *)
Handled(s) ==
  /\ s \notin {handles[i] : i \in DOMAIN handles}
  /\ s = cur => mpc \in {"Pop", "Stopped"}

(* The stop intent allows at most one more process, the one the task was   *)
(* about to spawn when the intent landed: no restart follows.              *)
NoRestartAfterStop == \A s \in Services : late[s] <= 1

(* When stop_all is done with a service, whatever the moment the intent,   *)
(* the signals and the expiry hit its task at, no child of it is left      *)
(* running: it exited, was killed with its group or by kill_on_drop.       *)
LeadersDie ==
  \A s \in Services : Handled(s) => \A n \in Pids : leader[s][n] # "alive"

(* ... and its published status says that it is over.                      *)
FinalStatus ==
  \A s \in Services : Handled(s) => status[s] \in {"Finished", "Failed", "Stopped"}

(* A service is not told to stop while one that depends on it runs.        *)
DependentsFirst ==
  \A s \in Services : \A d \in Deps[s] :
    stop[d] => \A n \in Pids : leader[s][n] # "alive"

(* stop_all comes to an end, though no process has to exit by itself.      *)
StopCompletes == mpc = "Pop" ~> mpc = "Stopped"

(* A service with policy Always and no dependency is started again after   *)
(* its process is gone, whoever collected it, unless it is told to stop.   *)
AlwaysComesBack ==
  \A s \in Services :
    policy[s] = "Always" /\ Deps[s] = {} =>
      (spawns[s] > 0 /\ leader[s][spawns[s]] = "gone") ~> (pc[s] = "Spawn" \/ stop[s])

(* process.rs calls the slot the live child's pid, None when not running:  *)
(* once the task is no longer waiting for a child, the slot does not show  *)
(* one that has been collected (and whose pid may be another's by now).    *)
SlotShowsLive ==
  \A s \in Services :
    slot[s] # 0 /\ pc[s] \notin {"Wait", "Reaped"} => leader[s][slot[s]] # "gone"

(* pid1.rs leaves supervised children to their own wait(): so a service    *)
(* with policy OnFailure is not run again after it exited 0.               *)
FinishedStaysFinished ==
  \A s \in Services :
    policy[s] = "OnFailure" => \A n \in succeeded[s] : n = spawns[s]

(* process.rs gives each service its own group so that stop reaches the    *)
(* whole tree, grandchildren included: when stop_all is done with it, no   *)
(* process of its groups is left.                                          *)
TreesDie ==
  \A s \in Services : Handled(s) => \A n \in Pids : tree[s][n] # "alive"
=============================================================================
