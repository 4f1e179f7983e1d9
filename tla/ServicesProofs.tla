--------------------------- MODULE ServicesProofs ---------------------------
(***************************************************************************)
(* Proofs about Supervisor, for any set of services, any dependencies a    *)
(* start order respects and any number of spawns, about StartOrder, for    *)
(* any finite lists of services and any dependencies among them, and about *)
(* Backoff, for any lengths of the attempts.                               *)
(*                                                                         *)
(* Supervisor: IInv ties a service's processes to where its task is (a     *)
(* child that is alive is the last one and the task is right behind its    *)
(* spawn), and the manager's progress to the start order (what is left of  *)
(* the handles is a prefix of it, and only what lies behind has been told  *)
(* to stop).                                                               *)
(***************************************************************************)
EXTENDS Supervisor, Startup, FiniteSetTheorems, WellFoundedInduction, TLAPS

(* The provers get more time than by default, not every machine is fast.   *)
USE SMTT(30), ZenonT(20)

-----------------------------------------------------------------------------
(* The supervisor's tasks and its shutdown.                                *)

Over(s) == pc[s] \in {"Ended", "Aborted"}

LateInv ==
  \A s \in Services :
    \/ late[s] = 0
    \/ /\ late[s] = 1 /\ stop[s]
       /\ pc[s] \in {"Spawned", "Wait", "Reaped", "After", "Ended", "Aborted"}

AliveInv ==
  \A s \in Services, n \in Pids :
    leader[s][n] = "alive" => n = spawns[s] /\ pc[s] \in {"Spawned", "Wait"}

StatusInv ==
  \A s \in Services :
    /\ pc[s] = "After" => status[s] \in {"Finished", "Failed"}
    /\ Over(s) => status[s] \in {"Finished", "Failed", "Stopped"}

Stopping == mpc \in {"Read", "Term", "Drain", "Expired", "Abort"}

(* What the manager has told to stop lies behind the handles it has left;  *)
(* all of it but the service it is stopping is over.                       *)
OrderInv ==
  /\ Len(handles) <= Len(Order)
  /\ \A i \in 1..Len(handles) : handles[i] = Order[i]
  /\ \A i \in 1..Len(Order) : stop[Order[i]] => i > Len(handles)
  /\ Stopping => Len(handles) < Len(Order) /\ cur = Order[Len(handles) + 1]
  /\ \A i \in 1..Len(Order) :
       i > Len(handles) => Over(Order[i]) \/ (Stopping /\ i = Len(handles) + 1)

IInv == TypeOK /\ LateInv /\ AliveInv /\ StatusInv /\ OrderInv

(* Every step keeps the types. *)
LEMMA TypeStep ==
  ASSUME TypeOK, [Next]_vars
  PROVE  TypeOK'
<1> USE DEF TypeOK
<1>0. MaxSpawns \in Nat
  BY Zenon, SupervisorAssumption
<1>1. ASSUME NEW s \in Services, TaskStep(s) PROVE TypeOK'
  <2> USE DEF Goes, Publish, Ends, NoProcess, process, manager, task
  <2>1. CASE TopCheck(s)
    <3>1. CASE StopSeen(s)
      BY Zenon, <2>1, <3>1 DEF TopCheck, TaskPc, ServiceState
    <3>2. CASE ~StopSeen(s)
      BY Zenon, <2>1, <3>2 DEF TopCheck, TaskPc, ServiceState
    <3> QED BY Zenon, <3>1, <3>2
  <2>2. CASE GateOpens(s)
    BY Zenon, <2>2 DEF GateOpens, TaskPc, ServiceState
  <2>3. CASE GateParks(s)
    BY Zenon, <2>3 DEF GateParks, TaskPc, ServiceState
  <2>4. CASE GateCheck(s)
    <3>1. CASE StopSeen(s)
      BY Zenon, <2>4, <3>1 DEF GateCheck, TaskPc, ServiceState
    <3>2. CASE ~StopSeen(s)
      BY Zenon, <2>4, <3>2 DEF GateCheck, TaskPc, ServiceState
    <3> QED BY Zenon, <3>1, <3>2
  <2>5. CASE PublishRunning(s)
    BY Zenon, <2>5 DEF PublishRunning, TaskPc, ServiceState
  <2>6. CASE Spawn(s)
    <3>1. spawns[s] + 1 \in Pids
      <4>1. spawns[s] \in Nat /\ spawns[s] < MaxSpawns
        BY <2>6, <1>0 DEF Spawn, Pids
      <4> QED BY <4>1, <1>0 DEF Pids
    <3>2. spawns' \in [Services -> {0} \cup Pids] /\ spawns'[s] # 0
      BY <2>6, <3>1 DEF Spawn, Pids
    <3>3. leader' \in [Services -> [Pids -> LeaderState]]
      BY Zenon, <2>6, <3>1 DEF Spawn, LeaderState
    <3>4. late' \in [Services -> Nat]
      BY <2>6 DEF Spawn
    <3>5. pc' \in [Services -> TaskPc]
      BY Zenon, <2>6 DEF Spawn, TaskPc
    <3>6. \A x \in Services : pc'[x] \in {"Spawned", "Wait"} => spawns'[x] # 0
      BY Zenon, <2>6, <3>2 DEF Spawn
    <3> QED BY Zenon, <2>6, <3>2, <3>3, <3>4, <3>5, <3>6 DEF Spawn
  <2>7. CASE SpawnFails(s)
    BY Zenon, <2>7 DEF SpawnFails, TaskPc, ServiceState, RunOutcome
  <2>8. CASE SetSlot(s)
    BY Zenon, <2>8 DEF SetSlot, TaskPc
  <2>9. CASE WaitReturns(s)
    BY Zenon, <2>9 DEF WaitReturns, TaskPc, RunOutcome, LeaderState
  <2>10. CASE WaitFails(s)
    BY Zenon, <2>10 DEF WaitFails, TaskPc, ServiceState, RunOutcome
  <2>11. CASE ClearSlot(s)
    BY Zenon, <2>11 DEF ClearSlot, TaskPc, ServiceState
  <2>12. CASE Decide(s)
    <3>1. CASE StopSeen(s)
      BY Zenon, <2>12, <3>1 DEF Decide, TaskPc, ServiceState
    <3>2. CASE ~StopSeen(s)
      BY Zenon, <2>12, <3>2 DEF Decide, TaskPc, ServiceState
    <3> QED BY Zenon, <3>1, <3>2
  <2>13. CASE BackoffOver(s)
    BY Zenon, <2>13 DEF BackoffOver, TaskPc, ServiceState
  <2> QED BY Zenon, <1>1, <2>1, <2>2, <2>3, <2>4, <2>5, <2>6, <2>7, <2>8, <2>9, <2>10, <2>11, <2>12, <2>13 DEF TaskStep
<1>2. ASSUME NEW s \in Services, NEW n \in Pids
      PROVE  /\ \A code \in {0, 1} : Exit(s, n, code) => TypeOK'
             /\ Fork(s, n) => TypeOK'
             /\ TreeExits(s, n) => TypeOK'
             /\ Reap(s, n) => TypeOK'
  <2> USE DEF NoTask, task, manager
  <2>1. ASSUME NEW code \in {0, 1}, Exit(s, n, code) PROVE TypeOK'
    BY Zenon, <2>1 DEF Exit, LeaderState
  <2>2. CASE Fork(s, n)
    BY Zenon, <2>2 DEF Fork, TreeState
  <2>3. CASE TreeExits(s, n)
    BY Zenon, <2>3 DEF TreeExits, TreeState
  <2>4. CASE Reap(s, n)
    BY Zenon, <2>4 DEF Reap, LeaderState
  <2> QED BY Zenon, <2>1, <2>2, <2>3, <2>4
<1>3. CASE Shutdown
  BY Zenon, <1>3 DEF Shutdown, NoManager, task, process, ManagerPc
<1>7. CASE ReaperStops
  BY Zenon, <1>7 DEF ReaperStops, NoTask, task, process, manager
<1>4. CASE ManagerStep
  <2> USE DEF NoManager, task, process, ManagerPc
  <2>0. ASSUME NEW n \in Pids
        PROVE  /\ Dies(leader, cur, n, "zombie") \in [Services -> [Pids -> LeaderState]]
               /\ Dies(tree, cur, n, "gone") \in [Services -> [Pids -> TreeState]]
    BY DEF Dies, LeaderState, TreeState
  <2>1. CASE PopHandle
    <3>1. handles # <<>> => /\ handles[Len(handles)] \in Services
                            /\ SubSeq(handles, 1, Len(handles) - 1) \in Seq(Services)
      OBVIOUS
    <3> QED BY Zenon, <2>1, <3>1 DEF PopHandle
  <2>2. CASE ReadSlot
    BY Zenon, <2>2 DEF ReadSlot
  <2>3. CASE Terminate
    <3>1. leader' \in [Services -> [Pids -> LeaderState]] /\ tree' \in [Services -> [Pids -> TreeState]]
      BY Zenon, <2>3, <2>0 DEF Terminate
    <3> QED BY Zenon, <2>3, <3>1 DEF Terminate
  <2>4. CASE Drained
    BY Zenon, <2>4 DEF Drained
  <2>5. CASE GraceExpires
    BY Zenon, <2>5 DEF GraceExpires
  <2>6. CASE KillGroup
    <3>1. leader' \in [Services -> [Pids -> LeaderState]] /\ tree' \in [Services -> [Pids -> TreeState]]
      BY <2>6, <2>0 DEF KillGroup
    <3> QED BY Zenon, <2>6, <3>1 DEF KillGroup
  <2>7. CASE AbortTask
    <3>1. leader' \in [Services -> [Pids -> LeaderState]]
      <4>1. CASE pc[cur] = "Wait"
        <5>1. spawns[cur] \in Pids
          BY Zenon, <4>1
        <5> QED BY Zenon, <2>7, <4>1, <5>1, <2>0 DEF AbortTask
      <4>2. CASE pc[cur] # "Wait"
        BY Zenon, <2>7, <4>2 DEF AbortTask
      <4> QED BY Zenon, <4>1, <4>2
    <3>2. pc' \in [Services -> TaskPc] /\ status' \in [Services -> ServiceState]
      BY Zenon, <2>7 DEF AbortTask, Publish, TaskPc, ServiceState
    <3>3. \A x \in Services : pc'[x] \in {"Spawned", "Wait"} => spawns'[x] # 0
      BY Zenon, <2>7 DEF AbortTask
    <3> QED BY Zenon, <2>7, <3>1, <3>2, <3>3 DEF AbortTask
  <2>8. CASE AllStopped
    BY Zenon, <2>8 DEF AllStopped
  <2> QED BY Zenon, <1>4, <2>1, <2>2, <2>3, <2>4, <2>5, <2>6, <2>7, <2>8 DEF ManagerStep
<1>5. CASE UNCHANGED vars
  BY Zenon, <1>5 DEF vars, process, manager
<1> QED BY Zenon, <1>1, <1>2, <1>3, <1>4, <1>5, <1>7 DEF Next

(* A spawn after the stop intent leaves the task no way back to a spawn.   *)
LEMMA LateStep ==
  ASSUME TypeOK, LateInv, [Next]_vars
  PROVE  LateInv'
<1>0. pc \in [Services -> TaskPc] /\ stop \in [Services -> BOOLEAN]
      /\ late \in [Services -> Nat] /\ cur \in Services
  BY Zenon, SupervisorAssumption DEF TypeOK
<1>1. ASSUME NEW s \in Services, TaskStep(s) PROVE LateInv'
  <2> USE <1>0 DEF LateInv, Goes, Publish, Ends, NoProcess, process, manager
  <2>1. CASE TopCheck(s)
    <3>1. CASE StopSeen(s)
      BY Zenon, <2>1, <3>1 DEF TopCheck, StopSeen
    <3>2. CASE ~StopSeen(s)
      BY Zenon, <2>1, <3>2 DEF TopCheck, StopSeen
    <3> QED BY Zenon, <3>1, <3>2
  <2>2. CASE GateOpens(s)
    BY Zenon, <2>2 DEF GateOpens
  <2>3. CASE GateParks(s)
    BY Zenon, <2>3 DEF GateParks
  <2>4. CASE GateCheck(s)
    <3>1. CASE StopSeen(s)
      BY Zenon, <2>4, <3>1 DEF GateCheck, StopSeen
    <3>2. CASE ~StopSeen(s)
      BY Zenon, <2>4, <3>2 DEF GateCheck, StopSeen
    <3> QED BY Zenon, <3>1, <3>2
  <2>5. CASE PublishRunning(s)
    BY Zenon, <2>5 DEF PublishRunning
  <2>6. CASE Spawn(s)
    BY <2>6 DEF Spawn
  <2>7. CASE SpawnFails(s)
    BY Zenon, <2>7 DEF SpawnFails
  <2>8. CASE SetSlot(s)
    BY Zenon, <2>8 DEF SetSlot
  <2>9. CASE WaitReturns(s)
    BY Zenon, <2>9 DEF WaitReturns
  <2>10. CASE WaitFails(s)
    BY Zenon, <2>10 DEF WaitFails
  <2>11. CASE ClearSlot(s)
    BY Zenon, <2>11 DEF ClearSlot
  <2>12. CASE Decide(s)
    <3>1. CASE StopSeen(s)
      BY Zenon, <2>12, <3>1 DEF Decide, StopSeen
    <3>2. CASE ~StopSeen(s)
      BY Zenon, <2>12, <3>2 DEF Decide, StopSeen
    <3> QED BY Zenon, <3>1, <3>2
  <2>13. CASE BackoffOver(s)
    BY Zenon, <2>13 DEF BackoffOver
  <2> QED BY Zenon, <1>1, <2>1, <2>2, <2>3, <2>4, <2>5, <2>6, <2>7, <2>8, <2>9, <2>10, <2>11, <2>12, <2>13 DEF TaskStep
<1>2. ASSUME NEW s \in Services, NEW n \in Pids
      PROVE  /\ \A code \in {0, 1} : Exit(s, n, code) => LateInv'
             /\ Fork(s, n) => LateInv'
             /\ TreeExits(s, n) => LateInv'
             /\ Reap(s, n) => LateInv'
  BY Zenon, <1>0 DEF LateInv, Exit, Fork, TreeExits, Reap, NoTask, task, manager
<1>3. CASE Shutdown
  BY Zenon, <1>0, <1>3 DEF LateInv, Shutdown, NoManager, task, process
<1>7. CASE ReaperStops
  BY Zenon, <1>0, <1>7 DEF ReaperStops, LateInv, NoTask, task, process, manager
<1>4. CASE ManagerStep
  <2> USE <1>0 DEF LateInv, NoManager, task, process
  <2>1. CASE PopHandle
    BY Zenon, <2>1 DEF PopHandle
  <2>2. CASE ReadSlot
    BY Zenon, <2>2 DEF ReadSlot
  <2>3. CASE Terminate
    BY Zenon, <2>3 DEF Terminate
  <2>4. CASE Drained
    BY Zenon, <2>4 DEF Drained
  <2>5. CASE GraceExpires
    BY Zenon, <2>5 DEF GraceExpires
  <2>6. CASE KillGroup
    BY Zenon, <2>6 DEF KillGroup
  <2>7. CASE AbortTask
    BY Zenon, <2>7 DEF AbortTask, AwaitPoints, Publish
  <2>8. CASE AllStopped
    BY Zenon, <2>8 DEF AllStopped
  <2> QED BY Zenon, <1>4, <2>1, <2>2, <2>3, <2>4, <2>5, <2>6, <2>7, <2>8 DEF ManagerStep
<1>5. CASE UNCHANGED vars
  BY Zenon, <1>5 DEF LateInv, vars, process, manager
<1> QED BY Zenon, <1>1, <1>2, <1>3, <1>4, <1>5, <1>7 DEF Next

(* A task that is over has published that it is.                           *)
LEMMA StatusStep ==
  ASSUME TypeOK, StatusInv, [Next]_vars
  PROVE  StatusInv'
<1>0. pc \in [Services -> TaskPc] /\ status \in [Services -> ServiceState]
      /\ cur \in Services
  BY Zenon, SupervisorAssumption DEF TypeOK
<1>1. ASSUME NEW s \in Services, TaskStep(s) PROVE StatusInv'
  <2> USE <1>0 DEF StatusInv, Over, Goes, Publish, Ends, NoProcess, process, manager
  <2>1. CASE TopCheck(s)
    <3>1. CASE StopSeen(s)
      BY <2>1, <3>1 DEF TopCheck, StopSeen
    <3>2. CASE ~StopSeen(s)
      BY Zenon, <2>1, <3>2 DEF TopCheck, StopSeen
    <3> QED BY Zenon, <3>1, <3>2
  <2>2. CASE GateOpens(s)
    BY Zenon, <2>2 DEF GateOpens
  <2>3. CASE GateParks(s)
    BY Zenon, <2>3 DEF GateParks
  <2>4. CASE GateCheck(s)
    <3>1. CASE StopSeen(s)
      BY Zenon, <2>4, <3>1 DEF GateCheck, StopSeen
    <3>2. CASE ~StopSeen(s)
      BY <2>4, <3>2 DEF GateCheck, StopSeen
    <3> QED BY Zenon, <3>1, <3>2
  <2>5. CASE PublishRunning(s)
    BY Zenon, <2>5 DEF PublishRunning
  <2>6. CASE Spawn(s)
    BY Zenon, <2>6 DEF Spawn
  <2>7. CASE SpawnFails(s)
    BY Zenon, <2>7 DEF SpawnFails
  <2>8. CASE SetSlot(s)
    BY Zenon, <2>8 DEF SetSlot
  <2>9. CASE WaitReturns(s)
    BY Zenon, <2>9 DEF WaitReturns
  <2>10. CASE WaitFails(s)
    BY Zenon, <2>10 DEF WaitFails
  <2>11. CASE ClearSlot(s)
    BY Zenon, <2>11 DEF ClearSlot
  <2>12. CASE Decide(s)
    <3>1. CASE StopSeen(s)
      BY Zenon, <2>12, <3>1 DEF Decide, StopSeen
    <3>2. CASE ~StopSeen(s)
      BY Zenon, <2>12, <3>2 DEF Decide, StopSeen
    <3> QED BY Zenon, <3>1, <3>2
  <2>13. CASE BackoffOver(s)
    BY Zenon, <2>13 DEF BackoffOver
  <2> QED BY Zenon, <1>1, <2>1, <2>2, <2>3, <2>4, <2>5, <2>6, <2>7, <2>8, <2>9, <2>10, <2>11, <2>12, <2>13 DEF TaskStep
<1>2. ASSUME NEW s \in Services, NEW n \in Pids
      PROVE  /\ \A code \in {0, 1} : Exit(s, n, code) => StatusInv'
             /\ Fork(s, n) => StatusInv'
             /\ TreeExits(s, n) => StatusInv'
             /\ Reap(s, n) => StatusInv'
  BY Zenon, <1>0 DEF StatusInv, Over, Exit, Fork, TreeExits, Reap, NoTask, task, manager
<1>3. CASE Shutdown
  BY Zenon, <1>0, <1>3 DEF StatusInv, Over, Shutdown, NoManager, task, process
<1>7. CASE ReaperStops
  BY Zenon, <1>0, <1>7 DEF ReaperStops, StatusInv, Over, NoTask, task, process, manager
<1>4. CASE ManagerStep
  <2> USE <1>0 DEF StatusInv, Over, NoManager, task, process
  <2>1. CASE PopHandle
    BY Zenon, <2>1 DEF PopHandle
  <2>2. CASE ReadSlot
    BY Zenon, <2>2 DEF ReadSlot
  <2>3. CASE Terminate
    BY Zenon, <2>3 DEF Terminate
  <2>4. CASE Drained
    BY Zenon, <2>4 DEF Drained
  <2>5. CASE GraceExpires
    BY Zenon, <2>5 DEF GraceExpires
  <2>6. CASE KillGroup
    BY Zenon, <2>6 DEF KillGroup
  <2>7. CASE AbortTask
    BY Zenon, <2>7 DEF AbortTask, AwaitPoints, Publish
  <2>8. CASE AllStopped
    BY Zenon, <2>8 DEF AllStopped
  <2> QED BY Zenon, <1>4, <2>1, <2>2, <2>3, <2>4, <2>5, <2>6, <2>7, <2>8 DEF ManagerStep
<1>5. CASE UNCHANGED vars
  BY Zenon, <1>5 DEF StatusInv, Over, vars, process, manager
<1> QED BY Zenon, <1>1, <1>2, <1>3, <1>4, <1>5, <1>7 DEF Next

(* A task moves on from its child only once the child is dead.             *)
LEMMA AliveStep ==
  ASSUME TypeOK, AliveInv, [Next]_vars
  PROVE  AliveInv'
<1>0. pc \in [Services -> TaskPc] /\ spawns \in [Services -> {0} \cup Pids]
      /\ leader \in [Services -> [Pids -> LeaderState]]
      /\ cur \in Services /\ slot \in [Services -> {0} \cup Pids] /\ seen \in {0} \cup Pids
      /\ MaxSpawns \in Nat
  BY Zenon, SupervisorAssumption DEF TypeOK
<1>1. ASSUME NEW s \in Services, TaskStep(s) PROVE AliveInv'
  <2> USE <1>0 DEF AliveInv, Goes, Publish, Ends, NoProcess, process, manager
  <2>1. CASE TopCheck(s)
    <3>1. CASE StopSeen(s)
      BY Zenon, <2>1, <3>1 DEF TopCheck, StopSeen
    <3>2. CASE ~StopSeen(s)
      BY Zenon, <2>1, <3>2 DEF TopCheck, StopSeen
    <3> QED BY Zenon, <3>1, <3>2
  <2>2. CASE GateOpens(s)
    BY Zenon, <2>2 DEF GateOpens
  <2>3. CASE GateParks(s)
    BY Zenon, <2>3 DEF GateParks
  <2>4. CASE GateCheck(s)
    <3>1. CASE StopSeen(s)
      BY Zenon, <2>4, <3>1 DEF GateCheck, StopSeen
    <3>2. CASE ~StopSeen(s)
      BY Zenon, <2>4, <3>2 DEF GateCheck, StopSeen
    <3> QED BY Zenon, <3>1, <3>2
  <2>5. CASE PublishRunning(s)
    BY Zenon, <2>5 DEF PublishRunning
  <2>6. CASE Spawn(s)
    BY <2>6 DEF Spawn
  <2>7. CASE SpawnFails(s)
    BY Zenon, <2>7 DEF SpawnFails
  <2>8. CASE SetSlot(s)
    BY Zenon, <2>8 DEF SetSlot
  <2>9. CASE WaitReturns(s)
    BY <2>9 DEF WaitReturns
  <2>10. CASE WaitFails(s)
    BY <2>10 DEF WaitFails
  <2>11. CASE ClearSlot(s)
    BY Zenon, <2>11 DEF ClearSlot
  <2>12. CASE Decide(s)
    <3>1. CASE StopSeen(s)
      BY Zenon, <2>12, <3>1 DEF Decide, StopSeen
    <3>2. CASE ~StopSeen(s)
      BY Zenon, <2>12, <3>2 DEF Decide, StopSeen
    <3> QED BY Zenon, <3>1, <3>2
  <2>13. CASE BackoffOver(s)
    BY Zenon, <2>13 DEF BackoffOver
  <2> QED BY Zenon, <1>1, <2>1, <2>2, <2>3, <2>4, <2>5, <2>6, <2>7, <2>8, <2>9, <2>10, <2>11, <2>12, <2>13 DEF TaskStep
<1>2. ASSUME NEW s \in Services, NEW n \in Pids
      PROVE  /\ \A code \in {0, 1} : Exit(s, n, code) => AliveInv'
             /\ Fork(s, n) => AliveInv'
             /\ TreeExits(s, n) => AliveInv'
             /\ Reap(s, n) => AliveInv'
  BY <1>0 DEF AliveInv, Exit, Fork, TreeExits, Reap, NoTask, task, manager
<1>3. CASE Shutdown
  BY Zenon, <1>0, <1>3 DEF AliveInv, Shutdown, NoManager, task, process
<1>7. CASE ReaperStops
  BY Zenon, <1>0, <1>7 DEF ReaperStops, AliveInv, NoTask, task, process, manager
<1>4. CASE ManagerStep
  <2> USE <1>0 DEF AliveInv, NoManager, task, process
  <2>1. CASE PopHandle
    BY Zenon, <2>1 DEF PopHandle
  <2>2. CASE ReadSlot
    BY Zenon, <2>2 DEF ReadSlot
  <2>3. CASE Terminate
    BY <2>3 DEF Terminate, Dies
  <2>4. CASE Drained
    BY Zenon, <2>4 DEF Drained
  <2>5. CASE GraceExpires
    BY Zenon, <2>5 DEF GraceExpires
  <2>6. CASE KillGroup
    BY <2>6 DEF KillGroup, Dies
  <2>7. CASE AbortTask
    BY <2>7 DEF AbortTask, AwaitPoints, Publish, Dies
  <2>8. CASE AllStopped
    BY Zenon, <2>8 DEF AllStopped
  <2> QED BY Zenon, <1>4, <2>1, <2>2, <2>3, <2>4, <2>5, <2>6, <2>7, <2>8 DEF ManagerStep
<1>5. CASE UNCHANGED vars
  BY Zenon, <1>5 DEF AliveInv, vars, process, manager
<1> QED BY Zenon, <1>1, <1>2, <1>3, <1>4, <1>5, <1>7 DEF Next

(* What the start order guarantees.                                        *)
LEMMA OrderFacts ==
  /\ Order \in Seq(Services) /\ Len(Order) \in Nat
  /\ \A i \in 1..Len(Order) : Order[i] \in Services
  /\ \A s \in Services : \E i \in 1..Len(Order) : Order[i] = s
  /\ \A i, j \in 1..Len(Order) : Order[i] = Order[j] => i = j
  /\ \A i, j \in 1..Len(Order) : Order[i] \in Deps[Order[j]] => i < j
<1>1. /\ Order \in Seq(Services)
      /\ \A s \in Services : \E i \in 1..Len(Order) : Order[i] = s
      /\ \A i, j \in 1..Len(Order) : Order[i] = Order[j] => i = j
      /\ \A i, j \in 1..Len(Order) : Order[i] \in Deps[Order[j]] => i < j
  BY SupervisorAssumption, Zenon
<1>2. Len(Order) \in Nat /\ \A i \in 1..Len(Order) : Order[i] \in Services
  BY <1>1
<1> QED BY <1>1, <1>2, Zenon

(* What its type says of the manager's stack of handles.                   *)
LEMMA HandleFacts ==
  ASSUME TypeOK
  PROVE  /\ handles \in Seq(Services) /\ Len(handles) \in Nat
         /\ DOMAIN handles = 1..Len(handles)
<1>1. handles \in Seq(Services)
  BY Zenon DEF TypeOK
<1> QED BY <1>1

(* Popping the last handle leaves the others where they are.               *)
LEMMA FrontFacts ==
  ASSUME NEW h \in Seq(Services), h # <<>>
  PROVE  /\ Len(SubSeq(h, 1, Len(h) - 1)) = Len(h) - 1
         /\ \A i \in 1..(Len(h) - 1) : SubSeq(h, 1, Len(h) - 1)[i] = h[i]
<1> DEFINE m == Len(h) - 1
<1>1. m \in Nat /\ m <= Len(h) /\ \A i \in 1..m : h[i] \in Services
  OBVIOUS
<1>2. SubSeq(h, 1, m) = [i \in 1..m |-> h[i]]
  <2> HIDE DEF m
  <2> QED BY <1>1
<1>3. Len([i \in 1..m |-> h[i]]) = m
  <2> HIDE DEF m
  <2> QED BY <1>1
<1> QED BY Zenon, <1>1, <1>2, <1>3

(* A task that is over stays over, and a task's step is its own.           *)
LEMMA OverStays ==
  ASSUME TypeOK, NEW s \in Services, TaskStep(s)
  PROVE  /\ \A x \in Services : Over(x) => Over(x)'
         /\ UNCHANGED <<stop, manager>>
<1>0. pc \in [Services -> TaskPc]
  BY Zenon DEF TypeOK
<1> USE <1>0 DEF Over, Goes, Publish, Ends, NoProcess, manager
<1>1. CASE TopCheck(s)
  BY Zenon, <1>1 DEF TopCheck, StopSeen
<1>2. CASE GateOpens(s)
  BY Zenon, <1>2 DEF GateOpens
<1>3. CASE GateParks(s)
  BY Zenon, <1>3 DEF GateParks
<1>4. CASE GateCheck(s)
  BY Zenon, <1>4 DEF GateCheck, StopSeen
<1>5. CASE PublishRunning(s)
  BY Zenon, <1>5 DEF PublishRunning
<1>6. CASE Spawn(s)
  BY Zenon, <1>6 DEF Spawn
<1>7. CASE SpawnFails(s)
  BY Zenon, <1>7 DEF SpawnFails
<1>8. CASE SetSlot(s)
  BY Zenon, <1>8 DEF SetSlot
<1>9. CASE WaitReturns(s)
  BY Zenon, <1>9 DEF WaitReturns
<1>10. CASE WaitFails(s)
  BY Zenon, <1>10 DEF WaitFails
<1>11. CASE ClearSlot(s)
  BY Zenon, <1>11 DEF ClearSlot
<1>12. CASE Decide(s)
  BY Zenon, <1>12 DEF Decide, StopSeen
<1>13. CASE BackoffOver(s)
  BY Zenon, <1>13 DEF BackoffOver
<1> QED BY Zenon, <1>1, <1>2, <1>3, <1>4, <1>5, <1>6, <1>7, <1>8, <1>9, <1>10, <1>11, <1>12, <1>13 DEF TaskStep

(* The manager works its way down the start order.                         *)
LEMMA OrderStep ==
  ASSUME TypeOK, OrderInv, [Next]_vars
  PROVE  OrderInv'
<1>0. /\ pc \in [Services -> TaskPc] /\ stop \in [Services -> BOOLEAN]
      /\ handles \in Seq(Services) /\ cur \in Services
      /\ Len(Order) \in Nat /\ Len(handles) \in Nat
      /\ \A i \in 1..Len(Order) : Order[i] \in Services
      /\ \A i, j \in 1..Len(Order) : Order[i] = Order[j] => i = j
  <2>1. pc \in [Services -> TaskPc] /\ stop \in [Services -> BOOLEAN] /\ cur \in Services
    BY Zenon DEF TypeOK
  <2> QED BY <2>1, OrderFacts, HandleFacts, Zenon
<1>1. ASSUME NEW s \in Services, TaskStep(s) PROVE OrderInv'
  <2>1. /\ \A x \in Services : Over(x) => Over(x)'
        /\ UNCHANGED <<stop, manager>>
    BY Zenon, <1>1, OverStays
  <2>2. UNCHANGED <<stop, mpc, handles, cur, Stopping>>
    BY Zenon, <2>1 DEF manager, Stopping
  <2>3. \A i \in 1..Len(Order) : Over(Order[i]) => Over(Order[i])'
    BY Zenon, <2>1, <1>0
  <2> QED BY Zenon, <2>2, <2>3 DEF OrderInv
<1>2. ASSUME UNCHANGED <<pc, stop, manager>> PROVE OrderInv'
  BY Zenon, <1>2 DEF OrderInv, Over, Stopping, manager
<1>3. ASSUME NEW s \in Services, NEW n \in Pids
      PROVE  /\ \A code \in {0, 1} : Exit(s, n, code) => OrderInv'
             /\ Fork(s, n) => OrderInv'
             /\ TreeExits(s, n) => OrderInv'
             /\ Reap(s, n) => OrderInv'
  BY Zenon, <1>2 DEF Exit, Fork, TreeExits, Reap, NoTask, task
<1>4. CASE Shutdown
  BY Zenon, <1>4 DEF Shutdown, OrderInv, Over, Stopping, task
<1>7. CASE ReaperStops
  BY Zenon, <1>2, <1>7 DEF ReaperStops, NoTask, task
<1>5. CASE ManagerStep
  <2> USE DEF OrderInv, Over, Stopping, task
  <2>1. CASE PopHandle
    <3> DEFINE m == Len(handles)
    <3>0. m \in Nat \ {0} /\ m <= Len(Order) /\ handles[m] = Order[m]
      BY <2>1, <1>0 DEF PopHandle
    <3>1. /\ m \in 1..Len(Order) /\ ~Stopping
          /\ cur' = Order[m]
          /\ stop' = [stop EXCEPT ![Order[m]] = TRUE]
          /\ Stopping' /\ UNCHANGED pc
      BY <2>1, <1>0, <3>0 DEF PopHandle
    <3>2. /\ Len(handles') = m - 1
          /\ \A i \in 1..(m - 1) : handles'[i] = handles[i]
      BY Zenon, <2>1, <1>0, <3>0, FrontFacts DEF PopHandle
    <3>3. \A i \in 1..Len(Order) : stop'[Order[i]] => i > m - 1
      BY <3>1, <1>0
    <3>4. \A i \in 1..(m - 1) : handles'[i] = Order[i]
      BY <3>1, <3>2, <1>0
    <3>5. \A i \in 1..Len(Order) : i > m - 1 => Over(Order[i])' \/ i = m
      BY <3>1, <1>0
    <3>6. m - 1 < Len(Order) /\ m - 1 + 1 = m /\ m - 1 <= Len(Order)
      BY <3>1, <1>0
    <3> HIDE DEF m
    <3> QED BY <3>1, <3>2, <3>3, <3>4, <3>5, <3>6
  <2>2. CASE ReadSlot
    BY Zenon, <2>2 DEF ReadSlot
  <2>3. CASE Terminate
    BY Zenon, <2>3 DEF Terminate
  <2>4. CASE Drained
    BY Zenon, <2>4, <1>0 DEF Drained
  <2>5. CASE GraceExpires
    BY Zenon, <2>5 DEF GraceExpires
  <2>6. CASE KillGroup
    BY Zenon, <2>6 DEF KillGroup
  <2>7. CASE AbortTask
    <3>1. \A x \in Services : Over(x) => Over(x)'
      BY Zenon, <2>7, <1>0 DEF AbortTask
    <3>2. Over(cur)'
      BY Zenon, <2>7, <1>0 DEF AbortTask
    <3>3. UNCHANGED <<handles, stop, cur>> /\ Stopping /\ ~Stopping'
      BY Zenon, <2>7 DEF AbortTask
    <3> HIDE DEF Over, Stopping
    <3> QED BY Zenon, <3>1, <3>2, <3>3, <1>0
  <2>8. CASE AllStopped
    BY Zenon, <2>8 DEF AllStopped
  <2> QED BY Zenon, <1>5, <2>1, <2>2, <2>3, <2>4, <2>5, <2>6, <2>7, <2>8 DEF ManagerStep
<1>6. CASE UNCHANGED vars
  BY Zenon, <1>2, <1>6 DEF vars
<1> QED BY Zenon, <1>1, <1>3, <1>4, <1>5, <1>6, <1>7 DEF Next

-----------------------------------------------------------------------------

(* The invariant holds when the tasks have just been spawned.              *)
LEMMA InitInv == Init => IInv
<1> SUFFICES ASSUME Init PROVE IInv
  BY Zenon
<1> USE DEF Init
<1>0. /\ Services # {} /\ MaxSpawns \in Nat
      /\ Order \in Seq(Services) /\ Len(Order) \in Nat
      /\ \A i \in 1..Len(Order) : Order[i] \in Services
  BY SupervisorAssumption
<1>1. TypeOK
  BY Zenon, <1>0 DEF TypeOK, TaskPc, ServiceState, RunOutcome, LeaderState, TreeState, ManagerPc, Pids
<1>2. LateInv /\ AliveInv /\ StatusInv
  BY Zenon DEF LateInv, AliveInv, StatusInv, Over
<1>3. OrderInv
  BY <1>0 DEF OrderInv, Stopping
<1> QED BY Zenon, <1>1, <1>2, <1>3 DEF IInv

(* A service that stop_all has finished with is over: it has its place in  *)
(* the start order, behind the handles that are left.                      *)
LEMMA HandledIsOver ==
  ASSUME IInv, NEW s \in Services, Handled(s)
  PROVE  Over(s)
<1>1. PICK i \in 1..Len(Order) : Order[i] = s
  BY Zenon, OrderFacts
<1>2. Len(handles) \in Nat /\ Len(Order) \in Nat /\ i \in Nat
  BY OrderFacts, HandleFacts DEF IInv
<1>3. i > Len(handles)
  <2> SUFFICES ASSUME i <= Len(handles) PROVE FALSE
    BY <1>2
  <2>1. i \in 1..Len(handles) /\ i \in DOMAIN handles
    BY <1>2, HandleFacts DEF IInv
  <2>2. handles[i] = s
    BY Zenon, <1>1, <2>1 DEF IInv, OrderInv
  <2> QED BY Zenon, <2>1, <2>2 DEF Handled
<1>4. Stopping => s # cur
  BY Zenon DEF Handled, Stopping
<1> QED BY Zenon, <1>1, <1>3, <1>4 DEF IInv, OrderInv

(* The safety of the stop protocol, from the inductive invariant.          *)
LEMMA InvImplies ==
  IInv => NoRestartAfterStop /\ LeadersDie /\ FinalStatus /\ DependentsFirst
<1> SUFFICES ASSUME IInv
             PROVE  NoRestartAfterStop /\ LeadersDie /\ FinalStatus /\ DependentsFirst
  BY Zenon
<1>1. NoRestartAfterStop
  <2>1. ASSUME NEW s \in Services PROVE late[s] <= 1
    <3>1. late[s] = 0 \/ late[s] = 1
      BY Zenon DEF IInv, LateInv
    <3> QED BY <3>1
  <2> QED BY Zenon, <2>1 DEF NoRestartAfterStop
<1>2. ASSUME NEW s \in Services, Over(s)
      PROVE  \A n \in Pids : leader[s][n] # "alive"
  BY Zenon, <1>2 DEF IInv, AliveInv, Over
<1>3. LeadersDie
  BY Zenon, <1>2, HandledIsOver DEF LeadersDie
<1>4. FinalStatus
  BY Zenon, HandledIsOver DEF FinalStatus, IInv, StatusInv
<1>5. DependentsFirst
  <2> SUFFICES ASSUME NEW s \in Services, NEW d \in Deps[s], stop[d]
               PROVE  \A n \in Pids : leader[s][n] # "alive"
    BY Zenon DEF DependentsFirst
  <2>0. /\ d \in Services /\ Len(handles) \in Nat /\ Len(Order) \in Nat
        /\ \A x \in Services : \E i \in 1..Len(Order) : Order[i] = x
        /\ \A i, j \in 1..Len(Order) : Order[i] \in Deps[Order[j]] => i < j
    <3>1. Deps[s] \subseteq Services
      BY SupervisorAssumption, Zenon
    <3> QED BY <3>1, OrderFacts, HandleFacts, Zenon DEF IInv
  <2>1. PICK i \in 1..Len(Order) : Order[i] = d
    BY Zenon, <2>0
  <2>2. PICK j \in 1..Len(Order) : Order[j] = s
    BY Zenon, <2>0
  <2>3. i < j /\ i > Len(handles)
    BY Zenon, <2>0, <2>1, <2>2 DEF IInv, OrderInv
  <2>4. j > Len(handles) /\ j # Len(handles) + 1
    BY <2>3, <2>0
  <2>5. Over(s)
    BY Zenon, <2>2, <2>4 DEF IInv, OrderInv
  <2> QED BY Zenon, <2>5, <1>2
<1> QED BY Zenon, <1>1, <1>3, <1>4, <1>5

(* The inductive invariant holds always.                                   *)
LEMMA Invariance == Spec => []IInv
<1>1. IInv /\ [Next]_vars => IInv'
  BY Zenon, TypeStep, LateStep, AliveStep, StatusStep, OrderStep DEF IInv
<1> QED BY InitInv, <1>1, PTL DEF Spec

(* The supervisor's state is well typed, however many services there are.  *)
THEOREM TypeCorrect == Spec => []TypeOK
<1>1. IInv => TypeOK
  BY Zenon DEF IInv
<1> QED BY <1>1, Invariance, PTL

(* "No restart follows" (stop_all): at most one child after the intent.    *)
THEOREM StopPreventsRestart == Spec => []NoRestartAfterStop
BY Invariance, InvImplies, PTL

(* stop_all leaves no supervised child running, wherever it catches the    *)
(* service's task.                                                         *)
THEOREM StopKillsLeaders == Spec => []LeadersDie
BY Invariance, InvImplies, PTL

(* stop_all leaves every service with a final status.                      *)
THEOREM StopIsReported == Spec => []FinalStatus
BY Invariance, InvImplies, PTL

(* stop_all never tells a service to stop under a running dependent.       *)
THEOREM StopRespectsDependencies == Spec => []DependentsFirst
BY Invariance, InvImplies, PTL

-----------------------------------------------------------------------------
(***************************************************************************)
(* The order of starts.  The counters hold the mentions that are not       *)
(* struck, and the queue holds exactly the services whose dependencies     *)
(* have all started: what is left when it runs empty depends on itself.    *)
(***************************************************************************)

Pending(c) == {e \in O!Edges : O!Of(e) = c /\ O!On(e) \notin O!started}
Ready == {c \in O!ids \ O!started : O!deps(c) \subseteq O!started}
Known == \A e \in O!Edges : O!On(e) \in O!ids
Once == \A i, j \in 1..Len(o_order) : o_order[i] = o_order[j] => i = j

StartInv ==
  /\ o_services \in Seq(O!Service) /\ o_order \in Seq(O!ids) /\ Once
  /\ o_result \in {"running", "Ok", "unknown dependency", "dependency cycle"}
  /\ o_result = "unknown dependency" <=> ~Known
  /\ o_indegree = [c \in O!ids |-> Cardinality(Pending(c))]
  /\ o_queue = Ready
  /\ O!DepsFirst /\ O!Deterministic /\ O!Decides

(* A nonempty finite set of numbers has a greatest element: a smallest     *)
(* subset without one could not lose an element.                           *)
LEMMA HasGreatest ==
  ASSUME NEW S \in SUBSET Nat, IsFiniteSet(S), S # {}
  PROVE  O!Greatest(S) \in S /\ \A n \in S : n <= O!Greatest(S)
<1> DEFINE Top(X) == \E m \in X : \A n \in X : n <= m
           Bad == {X \in SUBSET S : X # {} /\ ~Top(X)}
<1>1. Bad = {}
  <2> SUFFICES ASSUME Bad # {} PROVE FALSE
    BY Zenon
  <2>1. IsWellFoundedOn(StrictSubsetOrdering(S), SUBSET S)
    BY Zenon, FS_StrictSubsetOrderingWellFounded, FS_FiniteSubsetsOfFinite
  <2>2. PICK X \in Bad : \A Y \in Bad : <<Y, X>> \notin StrictSubsetOrdering(S)
    <3> HIDE DEF Bad
    <3>1. Bad \subseteq SUBSET S
      BY Zenon DEF Bad
    <3> QED BY Zenon, <2>1, <3>1, WFMin
  <2>3. PICK x \in X : TRUE
    BY Zenon
  <2>4. X \ {x} \notin Bad
    BY Zenon, <2>2, <2>3 DEF StrictSubsetOrdering
  <2>5. CASE X = {x}
    BY <2>3, <2>5
  <2>6. CASE X # {x}
    <3>1. PICK m \in X \ {x} : \A n \in X \ {x} : n <= m
      BY Zenon, <2>3, <2>4, <2>6
    <3>2. CASE x <= m
      BY Zenon, <2>3, <3>1, <3>2
    <3>3. CASE ~(x <= m)
      BY <2>3, <3>1, <3>3
    <3> QED BY Zenon, <3>2, <3>3
  <2> QED BY Zenon, <2>5, <2>6
<1>2. Top(S)
  BY Zenon, <1>1
<1> QED BY Zenon, <1>2 DEF O!Greatest

(* Any nonempty set of numbers has a least element.                        *)
LEMMA HasLeast ==
  ASSUME NEW S \in SUBSET Nat, S # {}
  PROVE  \E m \in S : \A n \in S : m <= n
<1>1. PICK m \in S : \A n \in S : ~(<<n, m>> \in OpToRel(<, Nat))
  BY Zenon, NatLessThanWellFounded, WFMin
<1>2. \A n \in S : ~(n < m)
  BY Zenon, <1>1 DEF OpToRel
<1> QED BY <1>2

(* Of a list of services, the ids and the mentions are finitely many.      *)
LEMMA ListFinite ==
  ASSUME o_services \in Seq(O!Service)
  PROVE  /\ IsFiniteSet(O!ids) /\ O!ids \subseteq Nat
         /\ Cardinality(O!ids) <= Len(o_services)
         /\ IsFiniteSet(O!Edges)
<1> DEFINE n == Len(o_services)
           name == [i \in 1..n |-> o_services[i].id]
           Of(i) == {i} \X DOMAIN o_services[i].depends_on
           mentions == [i \in 1..n |-> Of(i)]
           Lists == {Of(i) : i \in DOMAIN o_services}
<1>1. n \in Nat /\ DOMAIN o_services = 1..n /\ \A i \in 1..n : o_services[i] \in O!Service
  OBVIOUS
<1>2. IsFiniteSet(1..n) /\ Cardinality(1..n) = n
  <2>1. 1 \in Int /\ n \in Int
    BY <1>1
  <2>2. /\ IsFiniteSet(1..n)
        /\ Cardinality(1..n) = IF 1 > n THEN 0 ELSE n - 1 + 1
    BY Zenon, <2>1, FS_Interval
  <2> QED BY <1>1, <2>2
<1> HIDE DEF n
<1>3. name \in Surjection(1..n, O!ids)
  BY Zenon, <1>1 DEF Surjection, O!ids
<1>4. O!ids \subseteq Nat
  BY Zenon, <1>1 DEF O!ids, O!Service
<1>5. IsFiniteSet(O!ids) /\ Cardinality(O!ids) <= n
  <2> HIDE DEF name
  <2> QED BY <1>2, <1>3, FS_Surjection
<1>6. \A i \in 1..n : IsFiniteSet(Of(i))
  <2> SUFFICES ASSUME NEW i \in 1..n PROVE IsFiniteSet(Of(i))
    BY Zenon
  <2>1. o_services[i].depends_on \in Seq(Nat)
    BY Zenon, <1>1 DEF O!Service
  <2>2. PICK k \in Nat : DOMAIN o_services[i].depends_on = 1..k
    BY <2>1
  <2>3. IsFiniteSet(1..k) /\ IsFiniteSet({i})
    <3>1. 1 \in Int /\ k \in Int
      OBVIOUS
    <3> QED BY Zenon, <3>1, FS_Interval, FS_Singleton
  <2> QED BY Zenon, <2>2, <2>3, FS_Product
<1> HIDE DEF Of
<1>7. mentions \in Surjection(1..n, Lists)
  BY Zenon, <1>1 DEF Surjection
<1>8. IsFiniteSet(Lists)
  <2> HIDE DEF mentions, Lists
  <2> QED BY Zenon, <1>2, <1>7, FS_Surjection
<1>9. \A L \in Lists : IsFiniteSet(L)
  BY Zenon, <1>1, <1>6
<1>10. O!Edges = UNION Lists
  BY Zenon DEF O!Edges, Of
<1> HIDE DEF Lists
<1> QED BY <1>4, <1>5, <1>8, <1>9, <1>10, FS_UNION DEF n

(* StartOrder counts as everyone does.                                     *)
LEMMA SameCount == \A S : O!Cardinality(S) = Cardinality(S)
  BY Zenon DEF O!Cardinality, O!IsFiniteSet, Cardinality, IsFiniteSet

(* What the services say of each other stays while they are started.       *)
LEMMA SameList ==
  ASSUME o_services' = o_services
  PROVE  /\ O!ids' = O!ids /\ O!Edges' = O!Edges /\ Known' = Known
         /\ \A e : O!Of(e)' = O!Of(e) /\ O!On(e)' = O!On(e)
         /\ \A c : O!deps(c)' = O!deps(c)
  BY DEF O!ids, O!Edges, O!Of, O!On, O!deps, Known

LEMMA SameOrder ==
  ASSUME UNCHANGED <<o_services, o_order>>
  PROVE  /\ O!ids' = O!ids /\ O!started' = O!started /\ (Known' <=> Known) /\ (Once' <=> Once)
         /\ O!Edges' = O!Edges /\ (\A e : O!On(e)' = O!On(e)) /\ (\A c : O!deps(c)' = O!deps(c))
         /\ \A c : Pending(c)' = Pending(c)
         /\ Ready' = Ready
         /\ (O!DepsFirst' <=> O!DepsFirst) /\ (O!Deterministic => O!Deterministic')
<1>1. /\ O!ids' = O!ids /\ O!Edges' = O!Edges /\ (Known' <=> Known)
      /\ \A e : O!Of(e)' = O!Of(e) /\ O!On(e)' = O!On(e)
      /\ \A c : O!deps(c)' = O!deps(c)
  BY SameList
<1>2. O!started' = O!started /\ (Once' <=> Once)
  BY Zenon DEF O!started, Once
<1>3. \A c : Pending(c)' = Pending(c)
  BY Zenon, <1>1, <1>2 DEF Pending
<1>4. Ready' = Ready
  BY Zenon, <1>1, <1>2 DEF Ready
<1>5. O!DepsFirst' <=> O!DepsFirst
  BY <1>1 DEF O!DepsFirst
<1>6. ASSUME O!Deterministic PROVE O!Deterministic'
  <2> DEFINE Choice(D) == O!Greatest({c \in O!ids \ D : O!deps(c) \subseteq D})
  <2>1. \A D : Choice(D) = O!Greatest({c \in O!ids' \ D : O!deps(c)' \subseteq D})
    BY Zenon, <1>1
  <2>2. \A k \in DOMAIN o_order : o_order[k] = Choice({o_order[j] : j \in 1..(k - 1)})
    BY Zenon, <1>6 DEF O!Deterministic
  <2>3. \A k \in DOMAIN o_order' : o_order'[k] = Choice({o_order'[j] : j \in 1..(k - 1)})
    <3> HIDE DEF Choice
    <3> QED BY Zenon, <2>2
  <2> QED BY Zenon, <2>1, <2>3 DEF O!Deterministic
<1> QED BY Zenon, <1>1, <1>2, <1>3, <1>4, <1>5, <1>6

(* What a service depends on is what its mentions say.                     *)
LEMMA DepsAreMentions ==
  ASSUME NEW c, NEW D
  PROVE  /\ O!deps(c) \subseteq D
              <=> {e \in O!Edges : O!Of(e) = c /\ O!On(e) \notin D} = {}
         /\ \A d : d \in O!deps(c)
              <=> {e \in O!Edges : O!Of(e) = c /\ O!On(e) = d} # {}
  BY Zenon DEF O!deps

LEMMA OrderInit == O!Init => StartInv
<1> SUFFICES ASSUME O!Init PROVE StartInv
  BY Zenon
<1>1. o_services \in Seq(O!Service) /\ o_order = <<>>
  BY Zenon, StartupAssumption DEF O!OrderAssumption, O!Init
<1>2. O!started = {} /\ o_order \in Seq(O!ids) /\ Once
  BY <1>1 DEF O!started, Once
<1> DEFINE Mentions(c) == {e \in O!Edges : O!Of(e) = c}
<1>3. \A c : Pending(c) = Mentions(c)
  BY Zenon, <1>2 DEF Pending
<1>4. /\ o_indegree = [c \in O!ids |-> Cardinality(Mentions(c))]
      /\ o_queue = {c \in O!ids : Cardinality(Mentions(c)) = 0}
  BY Zenon, SameCount DEF O!Init
<1> HIDE DEF Mentions
<1>4a. o_indegree = [c \in O!ids |-> Cardinality(Pending(c))]
  BY Zenon, <1>3, <1>4
<1>5. o_queue = Ready
  <2>1. \A c : IsFiniteSet(Pending(c))
    BY Zenon, <1>1, ListFinite, FS_Subset DEF Pending
  <2>2. \A c : Pending(c) = {} <=> O!deps(c) \subseteq O!started
    BY Zenon, DepsAreMentions DEF Pending
  <2>3. \A c : Cardinality(Pending(c)) = 0 <=> Pending(c) = {}
    BY Zenon, <2>1, FS_EmptySet
  <2>4. o_queue = {c \in O!ids : Cardinality(Pending(c)) = 0}
    BY Zenon, <1>3, <1>4
  <2> QED BY Zenon, <1>2, <2>2, <2>3, <2>4 DEF Ready
<1>6. /\ o_result \in {"running", "unknown dependency"}
      /\ o_result = "unknown dependency" <=> ~Known
  BY Zenon DEF O!Init, Known
<1>7. O!DepsFirst /\ O!Deterministic
  BY <1>1 DEF O!DepsFirst, O!Deterministic
<1>8. O!Decides
  BY Zenon, <1>6 DEF O!Decides, Known
<1> QED BY Zenon, <1>1, <1>2, <1>4a, <1>5, <1>6, <1>7, <1>8 DEF StartInv

(* Popping the greatest of the services that are ready.                    *)
LEMMA PopStep == ASSUME StartInv, O!Pop PROVE StartInv'
<1> DEFINE id == O!Greatest(o_queue)
           Hit(c) == {e \in O!Edges : O!Of(e) = c /\ O!On(e) = id}
<1>1. /\ o_services \in Seq(O!Service) /\ o_order \in Seq(O!ids) /\ o_queue = Ready
      /\ o_indegree = [c \in O!ids |-> Cardinality(Pending(c))]
  BY Zenon DEF StartInv
<1>2. id \in o_queue
  <2>1. Ready \in SUBSET O!ids /\ IsFiniteSet(O!ids) /\ O!ids \subseteq Nat
    BY Zenon, <1>1, ListFinite DEF Ready
  <2>2. IsFiniteSet(Ready) /\ Ready \in SUBSET Nat
    BY Zenon, <2>1, FS_Subset
  <2>3. o_queue # {}
    BY Zenon DEF O!Pop
  <2> QED BY Zenon, <1>1, <2>2, <2>3, HasGreatest
<1>3. /\ o_result = "running" /\ o_order' = Append(o_order, id)
      /\ UNCHANGED <<o_services, o_result>>
  BY Zenon DEF O!Pop
<1>4. /\ o_indegree' = [c \in O!ids |-> o_indegree[c] - Cardinality(Hit(c))]
      /\ o_queue' = (o_queue \ {id})
           \cup {c \in O!ids : Cardinality(Hit(c)) > 0 /\ o_indegree'[c] = 0}
  BY Zenon, SameCount DEF O!Pop
<1> HIDE DEF id
<1>5. id \in O!ids /\ id \notin O!started /\ O!deps(id) \subseteq O!started
  BY Zenon, <1>1, <1>2 DEF Ready
<1>6. /\ o_order' \in Seq(O!ids) /\ Len(o_order') = Len(o_order) + 1
      /\ o_order'[Len(o_order) + 1] = id
      /\ \A k \in 1..Len(o_order) : o_order'[k] = o_order[k]
      /\ Len(o_order) \in Nat
  BY <1>1, <1>3, <1>5
<1>7. O!started = {o_order[k] : k \in 1..Len(o_order)}
  BY <1>1 DEF O!started
<1>8. O!started' = O!started \cup {id}
  <2>1. O!started' = {o_order'[k] : k \in 1..Len(o_order')}
    BY <1>6 DEF O!started
  <2> QED BY <1>6, <1>7, <2>1
<1>9. /\ O!ids' = O!ids /\ O!Edges' = O!Edges /\ Known' = Known
      /\ \A e : O!Of(e)' = O!Of(e) /\ O!On(e)' = O!On(e)
      /\ \A c : O!deps(c)' = O!deps(c)
  BY Zenon, <1>3, SameList
<1>10. Once'
  <2>1. \A k \in 1..Len(o_order) : o_order[k] # id
    BY Zenon, <1>5, <1>7
  <2>2. \A i, j \in 1..Len(o_order) : o_order[i] = o_order[j] => i = j
    BY Zenon DEF StartInv, Once
  <2>3. \A i \in 1..Len(o_order') : i \in 1..Len(o_order) \/ i = Len(o_order) + 1
    BY <1>6
  <2>4. \A i, j \in 1..Len(o_order') : o_order'[i] = o_order'[j] => i = j
    BY <1>6, <2>1, <2>2, <2>3
  <2> QED BY Zenon, <2>4 DEF Once
<1>11. ASSUME NEW c
       PROVE  /\ IsFiniteSet(Pending(c)') /\ IsFiniteSet(Hit(c))
              /\ Cardinality(Pending(c)) = Cardinality(Pending(c)') + Cardinality(Hit(c))
              /\ Cardinality(Pending(c)') \in Nat /\ Cardinality(Hit(c)) \in Nat
  <2>1. Pending(c)' = {e \in O!Edges : O!Of(e) = c /\ O!On(e) \notin O!started \cup {id}}
    BY Zenon, <1>8, <1>9 DEF Pending
  <2>2. Pending(c) = Pending(c)' \cup Hit(c) /\ Pending(c)' \cap Hit(c) = {}
    BY Zenon, <1>5, <2>1 DEF Pending
  <2>3. IsFiniteSet(O!Edges) /\ Pending(c)' \in SUBSET O!Edges /\ Hit(c) \in SUBSET O!Edges
    BY Zenon, <1>1, <2>1, ListFinite
  <2> HIDE DEF Hit
  <2>4. IsFiniteSet(Pending(c)') /\ IsFiniteSet(Hit(c))
    BY Zenon, <2>3, FS_Subset
  <2>5. Cardinality(Pending(c)') \in Nat /\ Cardinality(Hit(c)) \in Nat
    BY Zenon, <2>4, FS_CardinalityType
  <2>6. Cardinality(Pending(c)' \cup Hit(c))
          = Cardinality(Pending(c)') + Cardinality(Hit(c)) - Cardinality(Pending(c)' \cap Hit(c))
    BY Zenon, <2>4, FS_Union
  <2>7. Cardinality(Pending(c)' \cap Hit(c)) = 0
    BY Zenon, <2>2, FS_EmptySet
  <2>8. Cardinality(Pending(c)) = Cardinality(Pending(c)' \cup Hit(c))
    BY Zenon, <2>2
  <2> QED BY <2>4, <2>5, <2>6, <2>7, <2>8
<1>12. o_indegree' = [c \in O!ids |-> Cardinality(Pending(c)')]
  <2> HIDE DEF Hit
  <2> QED BY <1>1, <1>4, <1>11
<1>13. o_queue' = Ready'
  <2>1. \A c : Cardinality(Hit(c)) > 0 <=> id \in O!deps(c)
    <3>1. \A c : Hit(c) # {} <=> id \in O!deps(c)
      BY DepsAreMentions
    <3> HIDE DEF Hit
    <3> QED BY <1>11, <3>1, FS_EmptySet
  <2>2. \A c : Cardinality(Pending(c)') = 0 <=> O!deps(c) \subseteq O!started \cup {id}
    <3>1. \A c : Pending(c)' = {} <=> O!deps(c) \subseteq O!started \cup {id}
      BY <1>8, <1>9, DepsAreMentions DEF Pending
    <3> QED BY Zenon, <1>11, <3>1, FS_EmptySet
  <2>3. o_queue' = (Ready \ {id})
          \cup {c \in O!ids : id \in O!deps(c) /\ O!deps(c) \subseteq O!started \cup {id}}
    <3> HIDE DEF Hit
    <3> QED BY Zenon, <1>1, <1>4, <1>12, <2>1, <2>2
  <2>4. Ready' = {c \in O!ids \ (O!started \cup {id}) : O!deps(c) \subseteq O!started \cup {id}}
    BY Zenon, <1>8, <1>9 DEF Ready
  <2>5. \A c \in O!started : O!deps(c) \subseteq O!started
    <3> SUFFICES ASSUME NEW k \in 1..Len(o_order)
                 PROVE  O!deps(o_order[k]) \subseteq O!started
      BY Zenon, <1>7
    <3>1. O!deps(o_order[k]) \subseteq {o_order[j] : j \in 1..(k - 1)}
      <4>1. k \in DOMAIN o_order
        BY <1>1
      <4> QED BY Zenon, <4>1 DEF StartInv, O!DepsFirst
    <3>2. 1..(k - 1) \subseteq 1..Len(o_order)
      BY <1>6
    <3> QED BY Zenon, <1>7, <3>1, <3>2
  <2> QED BY <1>5, <2>3, <2>4, <2>5 DEF Ready
<1>14. ASSUME NEW k \in 1..Len(o_order')
       PROVE  \/ /\ k \in 1..Len(o_order)
                 /\ o_order'[k] = o_order[k]
                 /\ {o_order'[j] : j \in 1..(k - 1)} = {o_order[j] : j \in 1..(k - 1)}
              \/ /\ o_order'[k] = id
                 /\ {o_order'[j] : j \in 1..(k - 1)} = O!started
  <2>1. CASE k \in 1..Len(o_order)
    <3>1. 1..(k - 1) \subseteq 1..Len(o_order)
      BY <1>6, <2>1
    <3>2. \A j \in 1..(k - 1) : o_order'[j] = o_order[j]
      BY Zenon, <1>6, <3>1
    <3> QED BY Zenon, <1>6, <2>1, <3>2
  <2>2. CASE k = Len(o_order) + 1
    <3>1. 1..(k - 1) = 1..Len(o_order)
      BY <1>6, <2>2
    <3>2. {o_order'[j] : j \in 1..Len(o_order)} = {o_order[j] : j \in 1..Len(o_order)}
      BY Zenon, <1>6
    <3> QED BY <1>6, <1>7, <2>2, <3>1, <3>2
  <2>3. k \in 1..Len(o_order) \/ k = Len(o_order) + 1
    BY <1>6
  <2> QED BY Zenon, <2>1, <2>2, <2>3
<1>15. DOMAIN o_order' = 1..Len(o_order') /\ DOMAIN o_order = 1..Len(o_order)
  BY <1>1, <1>6
<1>16. O!DepsFirst'
  <2> SUFFICES ASSUME NEW k \in 1..Len(o_order')
               PROVE  O!deps(o_order'[k]) \subseteq {o_order'[j] : j \in 1..(k - 1)}
    BY Zenon, <1>9, <1>15 DEF O!DepsFirst
  <2>1. \A i \in 1..Len(o_order) : O!deps(o_order[i]) \subseteq {o_order[j] : j \in 1..(i - 1)}
    BY Zenon, <1>15 DEF StartInv, O!DepsFirst
  <2> QED BY Zenon, <1>5, <1>14, <2>1
<1>17. O!Deterministic'
  <2> DEFINE Choice(D) == O!Greatest({c \in O!ids \ D : O!deps(c) \subseteq D})
  <2>1. \A D : Choice(D) = O!Greatest({c \in O!ids' \ D : O!deps(c)' \subseteq D})
    BY Zenon, <1>9
  <2>2. \A k \in 1..Len(o_order) : o_order[k] = Choice({o_order[j] : j \in 1..(k - 1)})
    BY Zenon, <1>15 DEF StartInv, O!Deterministic
  <2>3. id = Choice(O!started)
    BY Zenon, <1>1 DEF Ready, id
  <2>4. \A k \in 1..Len(o_order') : o_order'[k] = Choice({o_order'[j] : j \in 1..(k - 1)})
    <3> HIDE DEF Choice
    <3> QED BY Zenon, <1>14, <2>2, <2>3
  <2> QED BY Zenon, <1>15, <2>1, <2>4 DEF O!Deterministic
<1>18. O!Decides'
  BY Zenon, <1>3 DEF O!Decides
<1> QED BY <1>1, <1>3, <1>6, <1>9, <1>10, <1>12, <1>13, <1>16, <1>17, <1>18 DEF StartInv

(* Nothing is ready any more.  If all services have started they are as    *)
(* many as there are ids, and the first one of any set to start depends on *)
(* no other one of the set; if some have not, they wait for each other.    *)
LEMMA FinishStep == ASSUME StartInv, O!Finish PROVE StartInv'
<1>1. /\ o_services \in Seq(O!Service) /\ o_order \in Seq(O!ids) /\ Once /\ Known
      /\ Ready = {} /\ O!DepsFirst
  BY Zenon DEF StartInv, O!Finish
<1>2. /\ UNCHANGED <<o_services, o_indegree, o_queue, o_order>>
      /\ o_result' = IF Len(o_order) = Len(o_services) THEN "Ok" ELSE "dependency cycle"
  BY Zenon DEF O!Finish
<1>3. /\ IsFiniteSet(O!ids) /\ Cardinality(O!ids) <= Len(o_services)
      /\ Cardinality(O!ids) \in Nat /\ Len(o_services) \in Nat
  BY <1>1, ListFinite, FS_CardinalityType
<1>4. /\ Len(o_order) \in Nat /\ DOMAIN o_order = 1..Len(o_order)
      /\ O!started = {o_order[k] : k \in 1..Len(o_order)} /\ O!started \subseteq O!ids
  BY <1>1 DEF O!started
<1>5. Len(o_order) = Cardinality(O!started)
  <2>1. o_order \in Bijection(1..Len(o_order), O!started)
    BY <1>1, <1>4 DEF Once, Bijection, Injection, Surjection, IsInjective
  <2> QED BY Zenon, <1>4, <2>1, FS_CountingElements DEF ExistsBijection
<1>6. ASSUME O!started = O!ids PROVE O!Acyclic
  <2> SUFFICES ASSUME NEW S \in SUBSET O!ids, S # {}
               PROVE  \E s \in S : O!deps(s) \cap S = {}
    BY Zenon DEF O!Acyclic
  <2> DEFINE K == {k \in 1..Len(o_order) : o_order[k] \in S}
  <2>1. K # {} /\ K \in SUBSET Nat
    BY <1>4, <1>6
  <2>2. PICK k \in K : \A j \in K : k <= j
    BY Zenon, <2>1, HasLeast
  <2>3. O!deps(o_order[k]) \subseteq {o_order[j] : j \in 1..(k - 1)}
    BY Zenon, <1>1, <1>4 DEF O!DepsFirst
  <2>4. \A j \in 1..(k - 1) : o_order[j] \notin S
    BY <1>4, <2>2
  <2> QED BY <2>3, <2>4
<1>7. ASSUME O!Acyclic PROVE O!started = O!ids
  <2> DEFINE S == O!ids \ O!started
  <2>1. \A c \in O!ids : O!deps(c) \subseteq O!ids
    BY Zenon, <1>1 DEF Known, O!deps
  <2>2. ASSUME S # {} PROVE FALSE
    <3>1. PICK s \in S : O!deps(s) \cap S = {}
      BY Zenon, <1>7, <2>2 DEF O!Acyclic
    <3>2. s \in Ready
      BY <2>1, <3>1 DEF Ready
    <3> QED BY Zenon, <1>1, <3>2
  <2> QED BY Zenon, <1>4, <2>2
<1>8. Len(o_order) = Len(o_services) <=> O!Acyclic /\ Cardinality(O!ids) = Len(o_services)
  <2>1. Cardinality(O!started) <= Cardinality(O!ids)
        /\ (Cardinality(O!ids) = Cardinality(O!started) => O!ids = O!started)
    BY Zenon, <1>3, <1>4, FS_Subset
  <2>2. ASSUME Len(o_order) = Len(o_services)
        PROVE  O!started = O!ids /\ Cardinality(O!ids) = Len(o_services)
    <3>1. \A a, b, c \in Nat : a <= b /\ b <= c /\ a = c => a = b /\ b = c
      OBVIOUS
    <3>2. Cardinality(O!ids) = Len(o_services) /\ Cardinality(O!ids) = Cardinality(O!started)
      BY <1>3, <1>4, <1>5, <2>1, <2>2, <3>1, Zenon
    <3> QED BY Zenon, <2>1, <3>2
  <2>3. ASSUME O!Acyclic, Cardinality(O!ids) = Len(o_services)
        PROVE  Len(o_order) = Len(o_services)
    BY Zenon, <1>5, <1>7, <2>3
  <2> QED BY Zenon, <1>6, <2>2, <2>3
<1>9. Len(o_order) = Len(o_services) => O!started = O!ids /\ Len(o_order) = Cardinality(O!ids)
  BY Zenon, <1>5, <1>7, <1>8
<1>10. O!Decides'
  <2>1. /\ O!ids' = O!ids /\ O!started' = O!started /\ Known' /\ (O!Acyclic' <=> O!Acyclic)
        /\ Len(o_order') = Len(o_order) /\ Len(o_services') = Len(o_services)
    BY Zenon, <1>1, <1>2, SameList DEF O!started, O!Acyclic
  <2> QED BY Zenon, <1>2, <1>8, <1>9, <2>1, SameCount DEF O!Decides, Known
<1>11. /\ O!DepsFirst' /\ O!Deterministic' /\ Once' /\ Known' /\ o_queue' = Ready'
       /\ o_order' \in Seq(O!ids') /\ o_indegree' = [c \in O!ids' |-> Cardinality(Pending(c)')]
  BY Zenon, <1>1, <1>2, SameOrder DEF StartInv
<1> QED BY Zenon, <1>1, <1>2, <1>10, <1>11 DEF StartInv

LEMMA StartStep == StartInv /\ [O!Next]_O!vars => StartInv'
<1>1. ASSUME StartInv, UNCHANGED O!vars PROVE StartInv'
  <2>1. UNCHANGED <<o_services, o_indegree, o_queue, o_order, o_result>>
    BY Zenon, <1>1 DEF O!vars
  <2>2. O!Decides'
    BY Zenon, <1>1, <2>1, SameOrder DEF StartInv, O!Decides, O!Acyclic, Known
  <2> QED BY Zenon, <1>1, <2>1, <2>2, SameOrder DEF StartInv
<1> QED BY Zenon, <1>1, PopStep, FinishStep DEF O!Next

(* For every list of services: an order is returned exactly when there is  *)
(* one and no id is taken twice, it holds every service once, after all it *)
(* depends on, and it does not depend on how the services are listed       *)
(* (manager.rs, start_order).                                              *)
THEOREM OrderStaysRight == O!Spec => []OrderRight
<1>1. StartInv => OrderRight
  <2> SUFFICES ASSUME StartInv PROVE O!TypeOK
    BY Zenon DEF StartInv, OrderRight
  <2>1. \A c : Cardinality(Pending(c)) \in Nat
    BY Zenon, ListFinite, FS_Subset, FS_CardinalityType DEF StartInv, Pending
  <2>2. O!started \subseteq O!ids /\ o_queue \subseteq O!ids
    <3>1. o_order \in Seq(O!ids) /\ o_queue = Ready
      BY Zenon DEF StartInv
    <3>2. \A k \in DOMAIN o_order : o_order[k] \in O!ids
      BY <3>1
    <3> QED BY Zenon, <3>1, <3>2 DEF O!started, Ready
  <2> QED BY Zenon, <2>1, <2>2 DEF StartInv, O!TypeOK
<1> QED BY OrderInit, StartStep, <1>1, PTL DEF O!Spec

-----------------------------------------------------------------------------
(***************************************************************************)
(* The pace of restarts.  Six attempts back, either a minute has passed or *)
(* the delays have doubled ever since: Behind(n, ...) says how far, n      *)
(* restarts back, the delay must have grown and the time must have passed. *)
(***************************************************************************)

Behind(n, delay, time) ==
  Len(b_starts) > n =>
    b_starts[n + 1] >= 60 \/ (b_backoff >= delay /\ b_starts[n + 1] >= time)

PaceInv ==
  /\ b_backoff \in 1..30
  /\ b_starts \in Seq(Nat) /\ b_ran \in Seq(Nat)
  /\ Len(b_starts) = Len(b_ran) + 1 /\ b_starts[1] = 0
  /\ Behind(1, 2, 1) /\ Behind(2, 4, 3) /\ Behind(3, 8, 7)
  /\ Behind(4, 16, 15) /\ Behind(5, 30, 31) /\ Behind(6, 30, 61)
  /\ B!RecoversFast

(* The lesser of two numbers.                                              *)
LEMMA MinOfTwo ==
  ASSUME NEW m \in Nat, NEW n \in Nat
  PROVE  B!Min({m, n}) = IF m <= n THEN m ELSE n
<1> DEFINE least == IF m <= n THEN m ELSE n
<1>1. /\ least \in {m, n} /\ \A y \in {m, n} : least <= y
      /\ \A x \in {m, n} : (\A y \in {m, n} : x <= y) => x = least
  OBVIOUS
<1>2. B!Min({m, n}) = CHOOSE x \in {m, n} : \A y \in {m, n} : x <= y
  BY Zenon DEF B!Min
<1> QED BY Zenon, <1>1, <1>2

(* Keep cuts a list off after the first Window entries.                    *)
LEMMA Kept ==
  ASSUME NEW s \in Seq(Nat)
  PROVE  /\ B!Keep(s) \in Seq(Nat)
         /\ Len(B!Keep(s)) = IF Window <= Len(s) THEN Window ELSE Len(s)
         /\ \A n \in 1..Len(B!Keep(s)) : B!Keep(s)[n] = s[n]
<1>1. Window \in Nat /\ Len(s) \in Nat
  BY StartupAssumption DEF B!PaceAssumption
<1>2. B!Keep(s) = SubSeq(s, 1, IF Window <= Len(s) THEN Window ELSE Len(s))
  BY Zenon, <1>1, MinOfTwo DEF B!Keep
<1> QED BY <1>1, <1>2

LEMMA PaceInit == B!Init => PaceInv
  BY DEF B!Init, PaceInv, Behind, B!RecoversFast, B!BASE

LEMMA PaceStep == PaceInv /\ [B!Next]_B!vars => PaceInv'
<1> SUFFICES ASSUME PaceInv, [B!Next]_B!vars PROVE PaceInv'
  BY Zenon
<1>1. CASE UNCHANGED B!vars
  BY <1>1 DEF PaceInv, B!vars, Behind, B!RecoversFast
<1>2. ASSUME NEW r \in Runs, B!Restart(r) PROVE PaceInv'
  <2>1. r \in Nat /\ Window \in Nat /\ b_backoff \in 1..30 /\ b_starts \in Seq(Nat)
    BY Zenon, StartupAssumption DEF B!PaceAssumption, PaceInv
  <2>2. PICK delay \in 1..30 : delay = IF r >= 60 THEN 1 ELSE b_backoff
    BY <2>1
  <2>3. B!backoff_step(b_backoff, r)
          = [delay |-> delay, next |-> IF delay * 2 <= 30 THEN delay * 2 ELSE 30]
    <3>1. delay * 2 \in Nat /\ 30 \in Nat
      OBVIOUS
    <3>2. B!Min({delay * 2, 30}) = IF delay * 2 <= 30 THEN delay * 2 ELSE 30
      BY Zenon, <3>1, MinOfTwo
    <3> QED BY Zenon, <2>2, <3>2 DEF B!backoff_step, B!BASE, B!CAP, B!HEALTHY_RESET
  <2>4. /\ b_backoff' = IF delay * 2 <= 30 THEN delay * 2 ELSE 30
        /\ b_starts' = <<0>> \o B!Keep([n \in DOMAIN b_starts |-> b_starts[n] + r + delay])
        /\ b_ran' = B!Keep(<<r>> \o b_ran)
    BY <1>2, <2>3 DEF B!Restart
  <2> DEFINE len == IF Window <= Len(b_starts) THEN Window ELSE Len(b_starts)
             shifted == [n \in 1..Len(b_starts) |-> b_starts[n] + r + delay]
  <2>5. /\ b_starts' \in Seq(Nat) /\ Len(b_starts') = len + 1
        /\ \A n \in 1..len : b_starts'[n + 1] = b_starts[n] + r + delay
    <3>1. shifted = [n \in DOMAIN b_starts |-> b_starts[n] + r + delay]
      BY <2>1
    <3>2. shifted \in Seq(Nat) /\ Len(shifted) = Len(b_starts)
      BY <2>1
    <3> HIDE DEF shifted
    <3>3. /\ B!Keep(shifted) \in Seq(Nat) /\ Len(B!Keep(shifted)) = len
          /\ \A n \in 1..len : B!Keep(shifted)[n] = shifted[n]
      BY Zenon, <3>2, Kept
    <3>4. b_starts' = <<0>> \o B!Keep(shifted)
      BY Zenon, <2>4, <3>1
    <3>5. len \in Nat /\ len <= Len(b_starts)
      BY <2>1
    <3>6. \A n \in 1..len : shifted[n] = b_starts[n] + r + delay
      BY <2>1, <3>5 DEF shifted
    <3>7. /\ b_starts' \in Seq(Nat) /\ Len(b_starts') = len + 1
          /\ \A n \in 1..len : b_starts'[n + 1] = B!Keep(shifted)[n]
      <4> HIDE DEF len
      <4> QED BY <3>3, <3>4, <3>5
    <3> QED BY Zenon, <3>3, <3>6, <3>7
  <2>6. /\ b_ran' \in Seq(Nat) /\ Len(b_ran') = len
        /\ len > 0 => b_ran'[1] = r
    <3> DEFINE s == <<r>> \o b_ran
    <3>1. s \in Seq(Nat) /\ Len(s) = Len(b_starts) /\ s[1] = r
      BY <2>1 DEF PaceInv
    <3>2. b_ran' = B!Keep(s) /\ len \in Nat
      BY <2>1, <2>4
    <3> HIDE DEF s
    <3>3. /\ B!Keep(s) \in Seq(Nat) /\ Len(B!Keep(s)) = len
          /\ \A n \in 1..len : B!Keep(s)[n] = s[n]
      BY Zenon, <3>1, Kept
    <3>4. len > 0 => 1 \in 1..len
      BY <3>2
    <3> HIDE DEF len
    <3> QED BY <3>1, <3>2, <3>3, <3>4
  <2>7. Len(b_starts) \in Nat /\ Len(b_starts) >= 1
    <3>1. b_ran \in Seq(Nat) /\ Len(b_starts) = Len(b_ran) + 1
      BY Zenon DEF PaceInv
    <3>2. Len(b_ran) \in Nat
      BY <3>1
    <3> QED BY <3>1, <3>2
  <2>8. len \in Nat /\ len <= Len(b_starts)
    BY <2>1, <2>7
  <2>9. /\ b_backoff' \in 1..30
        /\ b_backoff' = IF delay * 2 <= 30 THEN delay * 2 ELSE 30
    BY <2>4
  <2> HIDE DEF shifted, len
  <2>10. ASSUME NEW n \in Nat, Len(b_starts') > n + 1
         PROVE  /\ b_starts'[(n + 1) + 1] = b_starts[n + 1] + r + delay
                /\ b_starts[n + 1] \in Nat /\ Len(b_starts) > n
    <3>1. n + 1 \in 1..len
      BY <2>5, <2>8, <2>10
    <3>2. b_starts'[(n + 1) + 1] = b_starts[n + 1] + r + delay
      BY <2>5, <3>1, Zenon
    <3>3. n + 1 \in 1..Len(b_starts) /\ Len(b_starts) > n
      BY <2>7, <2>8, <3>1
    <3>4. b_starts[n + 1] \in Nat
      BY <2>1, <3>3
    <3> QED BY Zenon, <3>2, <3>3, <3>4
  <2>11. Behind(1, 2, 1)'
    <3>1. Len(b_starts') > 1 => b_starts'[1 + 1] = b_starts[1] + r + delay /\ b_starts[1] \in Nat
      BY <2>10
    <3> QED BY <2>1, <2>2, <2>9, <3>1 DEF Behind
  <2>12. ASSUME NEW n \in 1..5, NEW d \in 1..30, NEW t \in Nat, Behind(n, d, t)
         PROVE  Behind(n + 1, IF d * 2 <= 30 THEN d * 2 ELSE 30, t + d)'
    <3>1. CASE Len(b_starts') > n + 1
      <4>1. /\ b_starts'[(n + 1) + 1] = b_starts[n + 1] + r + delay
            /\ b_starts[n + 1] \in Nat
            /\ b_starts[n + 1] >= 60 \/ (b_backoff >= d /\ b_starts[n + 1] >= t)
        BY <2>10, <2>12, <3>1 DEF Behind
      <4>2. \/ b_starts'[(n + 1) + 1] >= 60
            \/ /\ b_backoff' >= IF d * 2 <= 30 THEN d * 2 ELSE 30
               /\ b_starts'[(n + 1) + 1] >= t + d
        BY <2>1, <2>2, <2>9, <4>1
      <4> QED BY Zenon, <4>2 DEF Behind
    <3>2. CASE ~(Len(b_starts') > n + 1)
      BY Zenon, <3>2 DEF Behind
    <3> QED BY Zenon, <3>1, <3>2
  <2>13. Behind(2, 4, 3)' /\ Behind(3, 8, 7)'
    BY <2>12 DEF PaceInv
  <2>14. Behind(4, 16, 15)' /\ Behind(5, 30, 31)' /\ Behind(6, 30, 61)'
    BY <2>12 DEF PaceInv
  <2>15. B!RecoversFast'
    <3>1. Len(b_ran') > 0 => b_ran'[1] = r /\ b_starts'[2] = b_starts[1] + r + delay
      BY <2>5, <2>6, <2>8
    <3>2. b_starts[1] = 0
      BY Zenon DEF PaceInv
    <3> QED BY <2>1, <2>2, <3>1, <3>2 DEF B!RecoversFast, B!BASE, B!HEALTHY_RESET
  <2>16. b_starts'[1] = 0
    BY <2>4, <2>5
  <2> QED BY Zenon, <2>5, <2>6, <2>9, <2>11, <2>13, <2>14, <2>15, <2>16 DEF PaceInv
<1> QED BY Zenon, <1>1, <1>2 DEF B!Next

(* However long its attempts last, no seven starts of a service fall       *)
(* within a minute, and the start after a healthy run comes a second after *)
(* its exit (restart.rs, backoff_step).                                    *)
THEOREM RestartsStayPaced == B!Spec => []RestartsPaced
<1>1. PaceInv => RestartsPaced
  BY DEF PaceInv, RestartsPaced, Behind, B!NoHotLoop
<1> QED BY PaceInit, PaceStep, <1>1, PTL DEF B!Spec
=============================================================================
