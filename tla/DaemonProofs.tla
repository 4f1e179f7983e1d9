---------------------------- MODULE DaemonProofs ----------------------------
(***************************************************************************)
(* Proofs about the daemon, for any values of the constants: the way down, *)
(* the early boot and the clients.  Each part has an inductive invariant   *)
(* of its own.                                                             *)
(***************************************************************************)
EXTENDS Daemon, TLAPS

(* The provers get more time than by default, not every machine is fast.   *)
USE SMTT(30), ZenonT(20)

-----------------------------------------------------------------------------
(***************************************************************************)
(* Lifecycle.  On the way down every loop has stopped before the volumes   *)
(* are unmounted, what the unmounting has passed is unmounted or stuck,    *)
(* and what the formatting has passed is wiped.                            *)
(***************************************************************************)

(* The sequences the main task walks through.                              *)
LEMMA Orders ==
  /\ DOMAIN BootTasks = 1..4 /\ Len(BootTasks) = 4 /\ BootTasks # <<>>
  /\ DOMAIN UnmountOrder = 1..3 /\ Len(UnmountOrder) = 3 /\ UnmountOrder # <<>>
  /\ UnmountOrder[1] = "EPHEMERAL" /\ UnmountOrder[2] = "STATE" /\ UnmountOrder[3] = "EFI"
  /\ DOMAIN ResetOrder = 1..2 /\ Len(ResetOrder) = 2 /\ ResetOrder # <<>>
  /\ ResetOrder[1] = "STATE" /\ ResetOrder[2] = "EPHEMERAL"
  BY DEF BootTasks, UnmountOrder, ResetOrder

(* A place is its name and its number.                                     *)
LEMMA Place ==
  ASSUME NEW w, NEW n
  PROVE  At(w, n)[1] = w /\ \A v, m : At(w, n) = At(v, m) <=> w = v /\ n = m
  BY Zenon DEF At

-----------------------------------------------------------------------------
(* Past the join every loop has stopped.                                   *)
Joined == TakingDown => \A c \in Controllers : ctl[c] = "stopped"

(* What the unmounting has passed is unmounted or stuck.                   *)
Unmounted ==
  /\ \A n \in 1..3 : pc = At("Unmount", n) =>
       \A k \in 1..(n - 1) : UnmountOrder[k] \in mounts => UnmountOrder[k] \in stuck
  /\ pc[1] \in {"Final", "Format", "Reboot", "Parked"} => mounts \subseteq stuck

(* What the formatting has passed is wiped.                                *)
Formatted ==
  /\ wiped # {} => pc[1] \in {"Format", "Reboot", "Parked"}
  /\ \A n \in 1..2 : pc = At("Format", n) =>
       \A k \in 1..(n - 1) : ResetOrder[k] \in vols => ResetOrder[k] \in wiped
  /\ pc[1] \in {"Reboot", "Parked"} /\ final = "Reset" =>
       vols \cap {"STATE", "EPHEMERAL"} \subseteq wiped
  /\ power = "rebooted" => pc[1] = "Reboot"

DownInv == TypeOK /\ Joined /\ Unmounted /\ Formatted

-----------------------------------------------------------------------------
LEMMA DownInit == Init => DownInv
<1> SUFFICES ASSUME Init PROVE DownInv
  BY Zenon
<1>1. pc[1] = "Start" /\ \A w, n : w # "Start" => pc # At(w, n)
  BY Place DEF Init
<1>2. TypeOK
  <2>1. pc \in Places
    BY Zenon DEF Init, Places
  <2>2. chan \in Seq(Requests) /\ Len(chan) <= 1
    BY DEF Init
  <2>3. ctl \in [Controllers -> {"none", "idle", "busy", "stopped"}]
        /\ req \in [Requests -> {"new", "sending", "acked"}]
    BY Zenon DEF Init
  <2> QED BY Zenon, <2>1, <2>2, <2>3 DEF Init, TypeOK, FinalAction, Labels
<1>3. Joined /\ Unmounted /\ Formatted
  BY Zenon, <1>1 DEF Init, Joined, TakingDown, Unmounted, Formatted
<1> QED BY Zenon, <1>2, <1>3 DEF DownInv

-----------------------------------------------------------------------------
LEMMA InPlaces ==
  /\ \A w \in {"Start", "WaitState", "Api", "Select", "Preparing", "Cancel", "JoinRuntime",
               "JoinApi", "StopServices", "Sync", "Final", "Reboot", "Parked", "Exited"} :
       At(w, 0) \in Places
  /\ \A n \in 1..4 : At("Boot", n) \in Places
  /\ \A n \in 1..3 : At("Unmount", n) \in Places
  /\ \A n \in 1..2 : At("Format", n) \in Places
  BY Zenon, Orders DEF Places

LEMMA TypeStep == TypeOK /\ [Next]_vars => TypeOK'
<1> SUFFICES ASSUME TypeOK, [Next]_vars PROVE TypeOK'
  BY Zenon
<1> USE DEF TypeOK, main, handlers, signal, disk, FinalAction
<1>1. CASE UNCHANGED vars
  BY <1>1 DEF vars
<1>2. ASSUME NEW c \in Controllers, Wake(c) \/ Return(c) \/ LoopStops(c) PROVE TypeOK'
  <2>1. \E s \in {"idle", "busy", "stopped"} : ctl' = [ctl EXCEPT ![c] = s]
    BY Zenon, <1>2 DEF Wake, Return, LoopStops
  <2>2. ctl' \in [Controllers -> {"none", "idle", "busy", "stopped"}]
    BY Zenon, <2>1
  <2>3. UNCHANGED <<main, api, handlers, signal, disk, services, power>>
    BY Zenon, <1>2 DEF Wake, Return, LoopStops
  <2> QED BY <2>2, <2>3
<1>3. CASE PublishVolumes
  BY <1>3 DEF PublishVolumes, Labels
<1>4. ASSUME NEW l \in Labels, MountVolume(l) PROVE TypeOK'
  BY Zenon, <1>4 DEF MountVolume
<1>5. ASSUME NEW r \in Requests, Call(r) PROVE TypeOK'
  BY Zenon, <1>5 DEF Call
<1>6. ASSUME NEW r \in Requests, Send(r) PROVE TypeOK'
  <2>1. chan' \in Seq(Requests) /\ Len(chan') <= 1
    BY <1>6 DEF Send
  <2>2. req' \in [Requests -> {"new", "sending", "acked"}]
    BY Zenon, <1>6 DEF Send
  <2> QED BY Zenon, <1>6, <2>1, <2>2 DEF Send
<1>7. CASE ServeFails \/ ApiDrained \/ Terminate
  BY Zenon, <1>7 DEF ServeFails, ApiDrained, Terminate
<1>8. CASE StartRuntime \/ StateMounted \/ UpgradeFails \/ UpgradeStaged \/ Cancel
           \/ JoinRuntime \/ JoinApi \/ StopServices
  <2>1. pc' \in Places
    BY Zenon, <1>8, InPlaces DEF StartRuntime, StateMounted, UpgradeFails, UpgradeStaged, Cancel,
                          JoinRuntime, JoinApi, StopServices, Goto
  <2>2. CASE StartRuntime
    <3>1. ctl' \in [Controllers -> {"none", "idle", "busy", "stopped"}]
      BY Zenon, <2>2 DEF StartRuntime
    <3> QED BY <2>1, <2>2, <3>1 DEF StartRuntime
  <2>3. CASE StateMounted
    BY <2>1, <2>3 DEF StateMounted
  <2>4. CASE UpgradeFails
    BY <2>1, <2>4 DEF UpgradeFails
  <2>5. CASE UpgradeStaged
    BY Zenon, <2>1, <2>5 DEF UpgradeStaged
  <2>6. CASE Cancel
    BY <2>1, <2>6 DEF Cancel
  <2>7. CASE JoinRuntime
    BY <2>1, <2>7 DEF JoinRuntime
  <2>8. CASE JoinApi
    BY <2>1, <2>8 DEF JoinApi
  <2>9. CASE StopServices
    BY Zenon, <2>1, <2>9 DEF StopServices
  <2> QED BY Zenon, <1>8, <2>2, <2>3, <2>4, <2>5, <2>6, <2>7, <2>8, <2>9
<1>9. CASE StartApi \/ Sync
  <2>1. pc' \in Places
    BY <1>9, InPlaces, Orders DEF StartApi, Sync, Begin, Goto
  <2>2. CASE StartApi
    BY Zenon, <2>1, <2>2 DEF StartApi
  <2>3. CASE Sync
    BY <2>1, <2>3 DEF Sync
  <2> QED BY Zenon, <1>9, <2>2, <2>3
<1>10. ASSUME NEW n \in DOMAIN BootTasks, BootTask(n) \/ BootFails(n) PROVE TypeOK'
  <2>1. pc' \in Places
    BY <1>10, InPlaces, Orders DEF BootTask, BootFails, Step, Goto
  <2>2. services' \in BOOLEAN
    BY Zenon, <1>10 DEF BootTask, BootFails
  <2>3. power' \in {power, "panicked"}
        /\ UNCHANGED <<final, cancelled, ctl, api, handlers, signal, disk>>
    BY Zenon, <1>10 DEF BootTask, BootFails
  <2> QED BY <2>1, <2>2, <2>3
<1>11. CASE SelectSignal
  BY Zenon, <1>11, InPlaces DEF SelectSignal, Goto
<1>12. CASE SelectAction
  <2>1. Head(chan) \in Requests /\ Tail(chan) \in Seq(Requests) /\ Len(Tail(chan)) <= 1
    BY <1>12 DEF SelectAction
  <2>2. Kind[Head(chan)] # "Upgrade" => FinalOf(Kind[Head(chan)]) \in FinalAction
    BY Zenon, <2>1, LifecycleAssumption DEF FinalOf, NodeAction
  <2>3. pc' \in Places /\ final' \in FinalAction
    BY Zenon, <1>12, <2>2, InPlaces DEF SelectAction, Goto
  <2> QED BY Zenon, <1>12, <2>1, <2>3 DEF SelectAction
<1>13. ASSUME NEW n \in DOMAIN UnmountOrder, Unmount(n) PROVE TypeOK'
  <2>1. UnmountOrder[n] \in Labels
    BY Orders DEF Labels
  <2>2. pc' \in Places
    BY <1>13, InPlaces, Orders DEF Unmount, Step, Goto
  <2> QED BY <1>13, <2>1, <2>2 DEF Unmount
<1>14. CASE FinalStep
  BY <1>14, InPlaces, Orders DEF FinalStep, Begin, Goto
<1>15. ASSUME NEW n \in DOMAIN ResetOrder, Format(n) PROVE TypeOK'
  <2>1. ResetOrder[n] \in {"STATE", "EPHEMERAL"}
    BY Orders
  <2>2. pc' \in Places
    BY <1>15, InPlaces, Orders DEF Format, Step, Goto
  <2>3. failed' \subseteq wiped' /\ wiped' \subseteq {"STATE", "EPHEMERAL"}
    BY Zenon, <1>15, <2>1 DEF Format
  <2> QED BY <1>15, <2>2, <2>3 DEF Format
<1>16. CASE FinalCall
  BY <1>16, InPlaces DEF FinalCall, Goto
<1>17. CASE MainStep \/ Upgrading
  BY Zenon, <1>8, <1>9, <1>10, <1>11, <1>12, <1>13, <1>14, <1>15, <1>16, <1>17
     DEF MainStep, Upgrading
<1> HIDE DEF TypeOK, main, handlers, signal, disk, FinalAction
<1> QED BY Zenon, <1>1, <1>2, <1>3, <1>4, <1>5, <1>6, <1>7, <1>17 DEF Next

-----------------------------------------------------------------------------
Down == {"JoinApi", "StopServices", "Sync", "Unmount", "Final", "Format", "Reboot", "Parked"}
Rest == Joined /\ Unmounted /\ Formatted

LEMMA RestStep == DownInv /\ [Next]_vars => Rest'
<1> SUFFICES ASSUME DownInv, [Next]_vars PROVE Rest'
  BY Zenon
<1> USE DEF DownInv, Rest
(* A step of another task: on the way down it changes none of these.       *)
<1>1. ASSUME UNCHANGED <<pc, final, stuck, wiped, power>>,
             pc[1] \in Down => UNCHANGED <<ctl, vols, mounts>>
      PROVE  Rest'
  <2>1. CASE pc[1] \in Down
    BY Zenon, <1>1, <2>1 DEF Joined, TakingDown, Unmounted, Formatted
  <2>2. CASE pc[1] \notin Down
    <3>1. \A v, m : v \in Down => pc # At(v, m)
      BY Zenon, <2>2, Place
    <3> QED BY <1>1, <2>2, <3>1 DEF Joined, TakingDown, Down, Unmounted, Formatted
  <2> QED BY Zenon, <2>1, <2>2
(* A step of the main task before the way down, or out of it.              *)
<1>2. ASSUME NEW w, NEW n, pc' = At(w, n), w \notin Down, wiped' = {}, power' # "rebooted"
      PROVE  Rest'
  <2>1. pc'[1] = w /\ \A v, m : v \in Down => pc' # At(v, m)
    BY <1>2, Place
  <2> QED BY <1>2, <2>1 DEF Joined, TakingDown, Down, Unmounted, Formatted
(* A step within it, up to the unmounting.                                 *)
<1>3. ASSUME NEW w \in {"JoinApi", "StopServices", "Sync"}, pc' = At(w, 0), wiped' = {},
             power' # "rebooted", \A c \in Controllers : ctl'[c] = "stopped"
      PROVE  Rest'
  <2>1. pc'[1] = w /\ \A v, m : v # w => pc' # At(v, m)
    BY <1>3, Place
  <2> QED BY Zenon, <1>3, <2>1 DEF Joined, TakingDown, Unmounted, Formatted
<1>4. pc[1] \notin {"Format", "Reboot", "Parked"} => wiped = {} /\ power # "rebooted"
  BY Zenon DEF Formatted
<1>5. CASE UNCHANGED vars
  BY Zenon, <1>1, <1>5 DEF vars, main, disk
<1>6. ASSUME NEW c \in Controllers, Wake(c) \/ Return(c) \/ LoopStops(c) PROVE Rest'
  BY Zenon, <1>1, <1>6 DEF Wake, Return, LoopStops, Joined, TakingDown, Down, main, disk
<1>7. CASE PublishVolumes
  BY Zenon, <1>1, <1>7, LifecycleAssumption DEF PublishVolumes, Joined, TakingDown, Down, main, disk
<1>8. ASSUME NEW l \in Labels, MountVolume(l) PROVE Rest'
  BY Zenon, <1>1, <1>8, LifecycleAssumption DEF MountVolume, Joined, TakingDown, Down, main, disk
<1>9. ASSUME NEW r \in Requests, Call(r) \/ Send(r) PROVE Rest'
  BY Zenon, <1>1, <1>9 DEF Call, Send, main, disk
<1>10. CASE ServeFails \/ ApiDrained \/ Terminate
  BY Zenon, <1>1, <1>10 DEF ServeFails, ApiDrained, Terminate, main, disk
<1>11. CASE StartRuntime
  BY <1>2, <1>4, <1>11, Place DEF StartRuntime, Down, Goto, disk
<1>12. CASE StateMounted \/ SelectSignal \/ UpgradeStaged \/ UpgradeFails \/ Cancel
  BY <1>2, <1>4, <1>12, Place DEF StateMounted, SelectSignal, UpgradeStaged, UpgradeFails,
     Cancel, Down, Goto, disk
<1>13. CASE StartApi
  BY <1>2, <1>4, <1>13, Place, Orders DEF StartApi, Begin, Down, Goto, disk
<1>14. ASSUME NEW n \in DOMAIN BootTasks, BootTask(n) PROVE Rest'
  BY <1>2, <1>4, <1>14, Place, Orders DEF BootTask, Step, Down, Goto, disk
<1>15. ASSUME NEW n \in DOMAIN BootTasks, BootFails(n) PROVE Rest'
  BY <1>2, <1>4, <1>15, Place DEF BootFails, Down, Goto, disk
<1>16. CASE SelectAction
  BY <1>2, <1>4, <1>16, Place DEF SelectAction, Down, Goto, disk
<1>17. CASE JoinRuntime
  BY <1>3, <1>4, <1>17, Place DEF JoinRuntime, Goto, disk
<1>18. CASE JoinApi \/ StopServices
  BY <1>3, <1>4, <1>18, Place DEF JoinApi, StopServices, Goto, disk, Joined, TakingDown
<1>19. CASE Sync
  <2>1. pc[1] = "Sync" /\ pc' = At("Unmount", 1) /\ UNCHANGED <<final, ctl, disk, power>>
    BY Zenon, <1>19, Place, Orders DEF Sync, Begin, Goto
  <2>2. pc'[1] = "Unmount" /\ \A v, m : pc' = At(v, m) => v = "Unmount" /\ m = 1
    BY <2>1, Place
  <2> QED BY <1>4, <2>1, <2>2 DEF Joined, TakingDown, Unmounted, Formatted, disk
<1>20. ASSUME NEW n \in DOMAIN UnmountOrder, Unmount(n) PROVE Rest'
  <2>1. n \in 1..3 /\ pc = At("Unmount", n) /\ pc[1] = "Unmount"
    BY Zenon, <1>20, Place, Orders DEF Unmount
  <2>2. UNCHANGED <<final, ctl, wiped, power>>
    BY Zenon, <1>20 DEF Unmount
  <2>3. \A k \in 1..n : UnmountOrder[k] \in mounts' => UnmountOrder[k] \in stuck'
    <3>1. \A k \in 1..(n - 1) : UnmountOrder[k] \in mounts => UnmountOrder[k] \in stuck
      BY Zenon, <2>1 DEF Unmounted
    <3>2. mounts' \subseteq mounts /\ stuck \subseteq stuck'
          /\ (UnmountOrder[n] \in mounts' => UnmountOrder[n] \in stuck')
      BY Zenon, <1>20 DEF Unmount
    <3> QED BY <2>1, <3>1, <3>2
  <2>4. CASE n < 3
    <3>1. pc' = At("Unmount", n + 1)
      BY Zenon, <1>20, <2>4, Orders DEF Unmount, Step, Goto
    <3>2. pc'[1] = "Unmount" /\ \A v, m : pc' = At(v, m) => v = "Unmount" /\ m = n + 1
      BY <3>1, Place
    <3> QED BY <1>4, <2>1, <2>2, <2>3, <3>2 DEF Joined, TakingDown, Unmounted, Formatted
  <2>5. CASE n = 3
    <3>1. pc' = At("Final", 0)
      BY <1>20, <2>5, Orders DEF Unmount, Step, Goto
    <3>2. pc'[1] = "Final" /\ \A v, m : pc' = At(v, m) => v = "Final"
      BY <3>1, Place
    <3>3. mounts' \subseteq stuck'
      <4>1. mounts' \subseteq {"EPHEMERAL", "STATE", "EFI"}
        BY Zenon, TypeStep DEF TypeOK, Labels
      <4> QED BY <2>3, <2>5, <4>1, Orders
    <3> QED BY Zenon, <1>4, <2>1, <2>2, <3>2, <3>3 DEF Joined, TakingDown, Unmounted, Formatted
  <2> QED BY <2>1, <2>4, <2>5
<1>21. CASE FinalStep
  <2>1. pc[1] = "Final" /\ UNCHANGED <<final, ctl, disk>>
    BY Zenon, <1>21, Place DEF FinalStep
  <2>2. CASE pc' = At("Exited", 0) /\ power' = "panicked"
    BY Zenon, <1>2, <1>4, <2>1, <2>2 DEF Down, disk
  <2>3. CASE pc' = At("Reboot", 0) /\ UNCHANGED power /\ final \in {"Reboot", "Poweroff"}
    <3>1. pc'[1] = "Reboot" /\ \A v, m : pc' = At(v, m) => v = "Reboot"
      BY <2>3, Place
    <3> QED BY Zenon, <1>4, <2>1, <2>3, <3>1 DEF Joined, TakingDown, Unmounted, Formatted, disk
  <2>4. CASE pc' = At("Format", 1) /\ UNCHANGED power
    <3>1. pc'[1] = "Format" /\ \A v, m : pc' = At(v, m) => v = "Format" /\ m = 1
      BY <2>4, Place
    <3> QED BY <1>4, <2>1, <2>4, <3>1 DEF Joined, TakingDown, Unmounted, Formatted, disk
  <2> QED BY Zenon, <1>21, <2>2, <2>3, <2>4, Orders DEF FinalStep, Begin, Goto
<1>22. ASSUME NEW n \in DOMAIN ResetOrder, Format(n) PROVE Rest'
  <2>1. n \in 1..2 /\ pc = At("Format", n) /\ pc[1] = "Format"
    BY Zenon, <1>22, Place, Orders DEF Format
  <2>2. UNCHANGED <<final, ctl, vols, mounts, stuck, power>>
    BY Zenon, <1>22 DEF Format
  <2>3. \A k \in 1..n : ResetOrder[k] \in vols' => ResetOrder[k] \in wiped'
    <3>1. \A k \in 1..(n - 1) : ResetOrder[k] \in vols => ResetOrder[k] \in wiped
      BY Zenon, <2>1 DEF Formatted
    <3>2. wiped \subseteq wiped' /\ (ResetOrder[n] \in vols => ResetOrder[n] \in wiped')
      BY Zenon, <1>22 DEF Format
    <3> QED BY <2>1, <2>2, <3>1, <3>2
  <2>4. power # "rebooted"
    BY Zenon, <2>1 DEF Formatted
  <2>5. CASE n = 1
    <3>1. pc' = At("Format", 2)
      BY <1>22, <2>5, Orders DEF Format, Step, Goto
    <3>2. pc'[1] = "Format" /\ \A v, m : pc' = At(v, m) => v = "Format" /\ m = 2
      BY <3>1, Place
    <3> QED BY <2>1, <2>2, <2>3, <2>4, <2>5, <3>2 DEF Joined, TakingDown, Unmounted, Formatted
  <2>6. CASE n = 2
    <3>1. pc' = At("Reboot", 0)
      BY <1>22, <2>6, Orders DEF Format, Step, Goto
    <3>2. pc'[1] = "Reboot" /\ \A v, m : pc' = At(v, m) => v = "Reboot"
      BY <3>1, Place
    <3>3. vols' \cap {"STATE", "EPHEMERAL"} \subseteq wiped'
      BY <2>3, <2>6, Orders
    <3> QED BY Zenon, <2>1, <2>2, <2>4, <3>2, <3>3 DEF Joined, TakingDown, Unmounted, Formatted
  <2> QED BY <2>1, <2>5, <2>6
<1>23. CASE FinalCall
  <2>1. pc[1] = "Reboot" /\ power # "rebooted" /\ UNCHANGED <<final, ctl, vols, mounts, stuck, wiped>>
    BY Zenon, <1>23, Place DEF FinalCall, disk
  <2>2. CASE UNCHANGED pc
    BY Zenon, <2>1, <2>2 DEF Joined, TakingDown, Unmounted, Formatted
  <2>3. CASE pc' = At("Parked", 0) /\ UNCHANGED power
    <3>1. pc'[1] = "Parked" /\ \A v, m : pc' = At(v, m) => v = "Parked"
      BY <2>3, Place
    <3> QED BY Zenon, <2>1, <2>3, <3>1 DEF Joined, TakingDown, Unmounted, Formatted
  <2> QED BY Zenon, <1>23, <2>2, <2>3 DEF FinalCall, Goto
<1>24. CASE MainStep \/ Upgrading
  BY Zenon, <1>11, <1>12, <1>13, <1>14, <1>15, <1>16, <1>17, <1>18, <1>19, <1>20, <1>21, <1>22,
     <1>23, <1>24 DEF MainStep, Upgrading
<1> HIDE DEF DownInv, Rest
<1> QED BY Zenon, <1>5, <1>6, <1>7, <1>8, <1>9, <1>10, <1>24 DEF Next

LEMMA DownStep == DownInv /\ [Next]_vars => DownInv'
  BY Zenon, TypeStep, RestStep DEF DownInv, Rest

(* What a reset leaves behind.                                             *)
LEMMA ResetsErase == Spec => []ResetErases
<1>1. DownInv => ResetErases
  BY Zenon DEF DownInv, ResetErases, ResetUnmounted, ResetComplete, Unmounted, Formatted
<1> QED BY DownInit, DownStep, <1>1, PTL DEF Spec

(* From the join of the controllers to the end nothing is mounted          *)
(* (main.rs:492-495).                                                      *)
LEMMA NothingRemounted == Spec => NoRemount
<1>1. DownInv /\ [Next]_vars => [TakingDown => mounts' \subseteq mounts]_vars
  <2> SUFFICES ASSUME DownInv, Next, TakingDown PROVE mounts' \subseteq mounts
    BY Zenon
  <2>1. ctl[Mounter] = "stopped"
    BY Zenon, LifecycleAssumption DEF DownInv, Joined
  <2>2. \A n \in DOMAIN UnmountOrder : Unmount(n) => mounts' \subseteq mounts
    BY Zenon DEF Unmount
  <2>3. \A l \in Labels : ~MountVolume(l)
    BY Zenon, <2>1 DEF MountVolume
  <2>4. MainStep \/ Upgrading => mounts' \subseteq mounts
    BY Zenon, <2>2 DEF MainStep, Upgrading, StartRuntime, StateMounted, StartApi, BootTask, BootFails, SelectSignal,
       SelectAction, UpgradeStaged, UpgradeFails, Cancel, JoinRuntime, JoinApi, StopServices,
       Sync, FinalStep, Format, FinalCall, disk
  <2> QED BY Zenon, <2>3, <2>4 DEF Next, Wake, Return, LoopStops, PublishVolumes, Call, Send, ServeFails,
          ApiDrained, Terminate, disk
<1> QED BY DownInit, DownStep, <1>1, PTL DEF Spec, NoRemount

(* A reset formats only what is unmounted or could not be, and reboots     *)
(* only after it has formatted every published volume it is to erase,      *)
(* whatever failed on the way; and nothing is mounted again once the loops *)
(* have stopped (main.rs:172-208, 492-495, shutdown.rs:28-48).             *)
THEOREM GoesDownAsItShould == Spec => GoesDownRight
BY Zenon, ResetsErase, NothingRemounted DEF GoesDownRight

-----------------------------------------------------------------------------
(***************************************************************************)
(* Machinectl.  An answer of a handler is its promise: what it answers ok  *)
(* was queued, and a client prints only what was answered ok.              *)
(***************************************************************************)

Promised ==
  \A c \in Clients : c_handler[c] = "ok" /\ Command[c].does \in M!Actions => c \in c_queued

ClientInv == M!TypeOK /\ c_chan \in Seq(Clients) /\ Promised /\ M!ReportedIsQueued

LEMMA ClientInit == ASSUME M!Init PROVE ClientInv
<1>1. c_chan = <<>> /\ c_chan \in Seq(Clients) /\ Len(c_chan) <= 1
  BY DEF M!Init
<1> QED BY Zenon, <1>1 DEF M!Init, ClientInv, M!TypeOK, M!Ended, Promised, M!ReportedIsQueued

LEMMA ClientStep == ASSUME ClientInv, [M!Next]_M!vars PROVE ClientInv'
<1> USE DEF ClientInv, M!Goto
<1>1. c_chan' \in Seq(Clients) /\ Len(c_chan') <= 1
  <2>1. UNCHANGED c_chan \/ c_chan' = <<>> \/ (c_chan # <<>> /\ c_chan' = Tail(c_chan))
        \/ \E c \in Clients : c_chan' = <<c>>
    BY Zenon DEF M!Next, M!vars, M!Client, M!Main, M!Connect, M!Reply, M!Timeout, M!Answer, M!Send,
       M!Dropped, M!Take, M!Hang, M!Die
  <2>2. c_chan \in Seq(Clients) /\ Len(c_chan) <= 1
    BY Zenon DEF M!TypeOK
  <2>3. ASSUME c_chan # <<>>, c_chan' = Tail(c_chan)
        PROVE  c_chan' \in Seq(Clients) /\ Len(c_chan') <= 1
    BY <2>2, <2>3
  <2>4. ASSUME c_chan' = <<>> PROVE c_chan' \in Seq(Clients) /\ Len(c_chan') <= 1
    BY <2>4
  <2>5. ASSUME NEW c \in Clients, c_chan' = <<c>>
        PROVE  c_chan' \in Seq(Clients) /\ Len(c_chan') <= 1
    BY <2>5
  <2> QED BY Zenon, <2>1, <2>2, <2>3, <2>4, <2>5
<1>2. CASE UNCHANGED M!vars \/ M!Hang \/ M!Take
  BY Zenon, <1>1, <1>2 DEF M!vars, M!Hang, M!Take, M!TypeOK, Promised, M!ReportedIsQueued
<1>3. CASE M!Die
  BY Zenon, <1>1, <1>3 DEF M!Die, M!TypeOK, Promised, M!ReportedIsQueued
<1>4. ASSUME NEW c \in Clients, M!Main(c) \/ M!Timeout(c) PROVE ClientInv'
  <2>1. \E there \in {"refused", "connect", "error"} : c_at' = [c_at EXCEPT ![c] = there]
    BY Zenon, <1>4 DEF M!Main, M!Timeout
  <2>2. UNCHANGED <<c_node, c_handler, c_chan, c_queued>>
    BY Zenon, <1>4 DEF M!Main, M!Timeout
  <2> QED BY Zenon, <1>1, <2>1, <2>2 DEF M!TypeOK, M!Ended, Promised, M!ReportedIsQueued
<1>5. ASSUME NEW c \in Clients, M!Connect(c) PROVE ClientInv'
  BY Zenon, <1>1, <1>5 DEF M!Connect, M!TypeOK, M!Ended, Promised, M!ReportedIsQueued
<1>6. ASSUME NEW c \in Clients, M!Reply(c) PROVE ClientInv'
  <2>1. M!ReportedIsQueued'
    BY Zenon, <1>6 DEF M!Reply, M!TypeOK, Promised, M!ReportedIsQueued
  <2> QED BY Zenon, <1>1, <1>6, <2>1 DEF M!Reply, M!TypeOK, M!Ended, Promised
<1>7. ASSUME NEW c \in Clients, M!Answer(c) \/ M!Dropped(c) PROVE ClientInv'
  <2>1. \/ \E h \in {"gone", "invalid"} : c_handler' = [c_handler EXCEPT ![c] = h]
        \/ Command[c].does \notin M!Actions /\ c_handler' = [c_handler EXCEPT ![c] = "ok"]
    BY Zenon, <1>7 DEF M!Answer, M!Dropped
  <2>2. UNCHANGED <<c_node, c_at, c_chan, c_queued>>
    BY Zenon, <1>7 DEF M!Answer, M!Dropped
  <2> QED BY Zenon, <1>1, <2>1, <2>2 DEF M!TypeOK, Promised, M!ReportedIsQueued
<1>8. ASSUME NEW c \in Clients, M!Send(c) PROVE ClientInv'
  BY Zenon, <1>1, <1>8 DEF M!Send, M!TypeOK, Promised, M!ReportedIsQueued
<1> QED BY Zenon, <1>2, <1>3, <1>4, <1>5, <1>6, <1>7, <1>8 DEF M!Next, M!Client

(* An action a client reports was in the daemon's channel, for any number  *)
(* of clients and commands.                                                *)
THEOREM ReportsAreQueued == M!Spec => []ReportedIsQueued
<1>1. ClientInv => ReportedIsQueued
  BY Zenon DEF ClientInv, ReportedIsQueued
<1>2. ClientInv /\ [M!Next]_M!vars => ClientInv'
  BY Zenon, ClientStep
<1> QED BY <1>1, <1>2, ClientInit, PTL DEF M!Spec

-----------------------------------------------------------------------------
(***************************************************************************)
(* EarlyBoot.  A pass of mount_essential has mounted what it has gone      *)
(* through, and a cgroup mount is never hidden: /sys was mounted before    *)
(* it, and is not mounted twice.                                           *)
(***************************************************************************)

Listed == E!Range(e_mounts)

(* Where a boot without a failed call has got to.                          *)
Undisturbed ==
  e_faults = 0 =>
    /\ e_at # "mount" \/ e_again => \A n \in 1..6 : E!essential_mounts[n] \in Listed
    /\ e_at \in {"boot", "leaf", "subtree", "config"} => e_drivers
    /\ e_at \in {"leaf", "subtree", "config"} \/ e_again =>
         ("/boot" \in Listed <=> "partition" \in e_media)
    /\ e_at = "config" \/ e_again => e_cgroup = "delegated"
    /\ e_again =>
         e_config = IF {"partition", "config"} \subseteq e_media
                    THEN IF "valid" \in e_media THEN "boot" ELSE "default"
                    ELSE IF e_disk = "good" THEN "disk" ELSE "default"

Sighted ==
  /\ E!IsInjective(e_mounts)
  /\ \A n \in 1..(e_i - 1) : E!essential_mounts[n] \in Listed
  /\ "/sys/fs/cgroup" \in Listed => E!Visible("/sys/fs/cgroup") /\ "/sys" \in Listed
  /\ e_at \in {"modules", "boot", "leaf", "subtree", "config"} => ~e_again
  /\ ~e_again /\ e_at \in {"mount", "modules", "boot"} => "/boot" \notin Listed
  /\ e_at \in {"up", "failed"} => e_again
  /\ e_at = "up" => \A n \in 1..6 : E!essential_mounts[n] \in Listed
  /\ Undisturbed

EarlyInv == E!TypeOK /\ (~e_blind => Sighted)

-----------------------------------------------------------------------------
LEMMA Essentials ==
  /\ DOMAIN E!essential_mounts = 1..6 /\ Len(E!essential_mounts) = 6
  /\ E!essential_mounts[1] = "/proc" /\ E!essential_mounts[2] = "/sys"
  /\ E!essential_mounts[3] = "/dev" /\ E!essential_mounts[4] = "/run"
  /\ E!essential_mounts[5] = "/tmp" /\ E!essential_mounts[6] = "/sys/fs/cgroup"
  /\ \A n \in 1..6 : E!essential_mounts[n] \in E!Targets /\ E!essential_mounts[n] # "/boot"
  /\ "/boot" \in E!Targets
<1>1. /\ DOMAIN E!essential_mounts = 1..6 /\ Len(E!essential_mounts) = 6
      /\ E!essential_mounts[1] = "/proc" /\ E!essential_mounts[2] = "/sys"
      /\ E!essential_mounts[3] = "/dev" /\ E!essential_mounts[4] = "/run"
      /\ E!essential_mounts[5] = "/tmp" /\ E!essential_mounts[6] = "/sys/fs/cgroup"
  BY DEF E!essential_mounts
<1>2. \A n \in 1..6 : E!essential_mounts[n] \in E!Targets
  BY Zenon, <1>1 DEF E!Targets, E!Range
<1> QED BY <1>1, <1>2 DEF E!Targets

(* Nothing but a cgroup mount can be hidden.                               *)
LEMMA Seen ==
  ASSUME e_mounts \in Seq(E!Targets), NEW t, t # "/sys/fs/cgroup" PROVE E!Visible(t) <=> t \in Listed
BY Zenon DEF E!Visible, E!Above, Listed, E!Range

(* What one more mount does to the table.                                  *)
LEMMA OneMore ==
  ASSUME e_mounts \in Seq(E!Targets), NEW t \in E!Targets, e_mounts' = Append(e_mounts, t)
  PROVE  /\ e_mounts' \in Seq(E!Targets) /\ Listed' = Listed \cup {t}
         /\ E!IsInjective(e_mounts) /\ t \notin Listed => E!IsInjective(e_mounts')
         /\ E!Visible("/sys/fs/cgroup") /\ t # "/sys" => E!Visible("/sys/fs/cgroup")'
         /\ t = "/sys/fs/cgroup" => E!Visible("/sys/fs/cgroup")'
<1>1. /\ e_mounts' \in Seq(E!Targets) /\ Len(e_mounts') = Len(e_mounts) + 1 /\ Len(e_mounts) \in Nat
      /\ DOMAIN e_mounts = 1..Len(e_mounts) /\ DOMAIN e_mounts' = 1..Len(e_mounts) + 1
      /\ \A n \in 1..Len(e_mounts) : e_mounts'[n] = e_mounts[n]
      /\ e_mounts'[Len(e_mounts) + 1] = t
  OBVIOUS
<1>2. Listed' = Listed \cup {t}
  BY <1>1 DEF Listed, E!Range
<1>3. ASSUME E!IsInjective(e_mounts), t \notin Listed PROVE E!IsInjective(e_mounts')
  BY <1>1, <1>3 DEF E!IsInjective, Listed, E!Range
<1>4. ASSUME E!Visible("/sys/fs/cgroup"), t # "/sys" PROVE E!Visible("/sys/fs/cgroup")'
  BY <1>1, <1>4 DEF E!Visible, E!Above
<1>5. ASSUME t = "/sys/fs/cgroup" PROVE E!Visible("/sys/fs/cgroup")'
  BY <1>1, <1>5 DEF E!Visible
<1> QED BY Zenon, <1>1, <1>2, <1>3, <1>4, <1>5

LEMMA EarlyInit == ASSUME E!Init PROVE EarlyInv
<1>1. /\ e_at = "mount" /\ e_i = 1 /\ e_again = FALSE /\ e_mounts = <<>> /\ e_drivers = FALSE
      /\ e_cgroup = "root" /\ e_config = "none" /\ e_faults = 0 /\ EarlyFaults \in Nat
      /\ e_media \subseteq {"partition", "config", "valid"} /\ e_disk \in {"absent", "bad", "good"}
      /\ e_blind \in BOOLEAN
  BY Zenon, DaemonAssumption DEF E!Init, E!EarlyAssumption
<1>2. Listed = {} /\ E!IsInjective(e_mounts) /\ e_mounts \in Seq(E!Targets)
  BY <1>1 DEF Listed, E!Range, E!IsInjective
<1>3. E!TypeOK
  <2>1. (e_config = "none") = ~e_again
    BY Zenon, <1>1
  <2>2. e_faults \in 0..EarlyFaults /\ e_i \in 1..6
    BY <1>1
  <2> QED BY <1>1, <1>2, <2>1, <2>2, Essentials, Zenon DEF E!TypeOK
<1>4. Sighted
  BY <1>1, <1>2 DEF Sighted, Undisturbed
<1> QED BY Zenon, <1>3, <1>4 DEF EarlyInv

(* The steps that leave the mount table alone.                             *)
LEMMA TableKept ==
  ASSUME e_mounts' = e_mounts
  PROVE  Listed' = Listed /\ (E!IsInjective(e_mounts)' <=> E!IsInjective(e_mounts))
         /\ (E!Visible("/sys/fs/cgroup")' <=> E!Visible("/sys/fs/cgroup"))
BY Zenon DEF Listed, E!Visible, E!Above

LEMMA Counted == ASSUME EarlyInv, E!Fault PROVE e_faults' \in 0..EarlyFaults /\ e_faults' # 0
<1>1. e_faults \in 0..EarlyFaults /\ EarlyFaults \in Nat
  BY Zenon, DaemonAssumption DEF EarlyInv, E!TypeOK, E!EarlyAssumption
<1>2. e_faults < EarlyFaults /\ e_faults' = e_faults + 1
  BY Zenon DEF E!Fault
<1> QED BY <1>1, <1>2

(* Reading the mount table: an answer is right once /proc is mounted,      *)
(* unless mountinfo cannot be read.                                        *)
LEMMA Answers ==
  ASSUME EarlyInv, ~e_blind, NEW t, t = E!essential_mounts[e_i]
  PROVE  /\ TRUE \in E!is_mounted(t) => t \in Listed
         /\ FALSE \in E!is_mounted(t) => t \notin Listed
<1>1. e_mounts \in Seq(E!Targets) /\ e_i \in 1..6
  BY Zenon, Essentials DEF EarlyInv, E!TypeOK
<1>2. E!Visible("/proc") <=> "/proc" \in Listed
  BY Zenon, <1>1, Seen
<1>3. e_i = 1 \/ "/proc" \in Listed
  <2>1. e_i # 1 => 1 \in 1..(e_i - 1)
    BY <1>1
  <2> QED BY Zenon, <2>1, Essentials DEF EarlyInv, Sighted
<1>4. t = "/proc" \/ "/proc" \in Listed
  BY Zenon, <1>3, Essentials
<1>5. E!is_mounted(t) = {E!Visible("/proc") /\ t \in Listed}
  BY Zenon DEF E!is_mounted, Listed
<1> QED BY Zenon, <1>2, <1>4, <1>5

LEMMA EssentialStep == ASSUME EarlyInv, E!Essential PROVE EarlyInv'
<1> DEFINE t == E!essential_mounts[e_i]
           Onwards == IF e_i = 6 THEN E!Leave(TRUE) ELSE e_i' = e_i + 1 /\ e_at' = e_at
<1>1. /\ e_at = "mount"
      /\ \/ TRUE \in E!is_mounted(t) /\ Onwards /\ UNCHANGED <<e_mounts, e_faults>>
         \/ FALSE \in E!is_mounted(t) /\ e_mounts' = Append(e_mounts, t) /\ Onwards /\ e_faults' = e_faults
         \/ FALSE \in E!is_mounted(t) /\ E!Fault /\ E!Leave(FALSE) /\ e_mounts' = e_mounts
      /\ UNCHANGED <<e_media, e_disk, e_blind, e_again, e_drivers, e_cgroup, e_config>>
  BY Zenon, Essentials DEF E!Essential, E!Mount
<1>2. e_mounts \in Seq(E!Targets) /\ e_i \in 1..6 /\ t \in E!Targets
  BY Zenon, Essentials DEF EarlyInv, E!TypeOK
<1>3. e_mounts' \in Seq(E!Targets)
  BY Zenon, <1>1, <1>2, OneMore
<1>4. /\ e_at' \in {"mount", "modules", "up", "failed"} /\ e_i' \in 1..6
      /\ e_at' # "mount" => e_i' = 1 /\ (IF e_again THEN e_at' \in {"up", "failed"} ELSE e_at' = "modules")
  <2>1. ASSUME NEW ok \in BOOLEAN, E!Leave(ok)
        PROVE  e_i' = 1 /\ (IF e_again THEN e_at' \in {"up", "failed"} ELSE e_at' = "modules")
    BY Zenon, <2>1 DEF E!Leave
  <2>2. \/ \E ok \in BOOLEAN : E!Leave(ok)
        \/ e_i # 6 /\ e_i' = e_i + 1 /\ e_at' = e_at
    BY <1>1, Zenon
  <2>3. CASE e_i # 6 /\ e_i' = e_i + 1 /\ e_at' = e_at
    BY <1>1, <1>2, <2>3
  <2> QED BY <2>1, <2>2, <2>3
<1>5. e_faults' \in 0..EarlyFaults
  BY Zenon, <1>1, Counted DEF EarlyInv, E!TypeOK
<1>6. E!TypeOK'
  <2>1. (e_config' = "none") = ~e_again'
    BY <1>1, Zenon DEF EarlyInv, E!TypeOK
  <2>2. /\ e_media' \subseteq {"partition", "config", "valid"} /\ e_disk' \in {"absent", "bad", "good"}
        /\ e_blind' \in BOOLEAN /\ e_again' \in BOOLEAN /\ e_drivers' \in BOOLEAN
        /\ e_cgroup' \in {"root", "leaf", "delegated"}
        /\ e_config' \in {"none", "boot", "disk", "default"}
    BY <1>1, Zenon DEF EarlyInv, E!TypeOK
  <2> QED BY <1>3, <1>4, <1>5, <2>1, <2>2, Essentials, Zenon DEF E!TypeOK
<1>7. ASSUME ~e_blind PROVE Sighted'
  <2>1. /\ TRUE \in E!is_mounted(t) => t \in Listed
        /\ FALSE \in E!is_mounted(t) => t \notin Listed
    BY Zenon, <1>7, Answers
  <2>2. /\ E!IsInjective(e_mounts) /\ \A n \in 1..(e_i - 1) : E!essential_mounts[n] \in Listed
        /\ "/sys/fs/cgroup" \in Listed => E!Visible("/sys/fs/cgroup") /\ "/sys" \in Listed
        /\ ~e_again => "/boot" \notin Listed
        /\ Undisturbed
    BY Zenon, <1>1, <1>7 DEF EarlyInv, Sighted
  <2>3. t = "/sys" => e_i = 2
    BY <1>2, Essentials
  <2>4. e_i = 6 => t = "/sys/fs/cgroup" /\ "/sys" \in Listed
    <3>1. e_i = 6 => 2 \in 1..(e_i - 1)
      BY <1>2
    <3> QED BY Zenon, <2>2, <3>1, Essentials
  <2>5. t = "/sys/fs/cgroup" => e_i = 6
    BY <1>2, Essentials
  <2>6. CASE E!Fault /\ E!Leave(FALSE) /\ e_mounts' = e_mounts
    <3>1. e_faults' # 0 /\ e_i' = 1 /\ e_at' = (IF e_again THEN "failed" ELSE "modules")
      BY Zenon, <2>6, Counted DEF E!Leave
    <3> QED BY <1>1, <2>2, <2>6, <3>1, TableKept DEF Sighted, Undisturbed
  <2>7. CASE /\ Onwards /\ e_faults' = e_faults
             /\ \/ e_mounts' = e_mounts /\ t \in Listed
                \/ e_mounts' = Append(e_mounts, t) /\ t \notin Listed
    <3>1. /\ Listed' = Listed \cup {t} /\ E!IsInjective(e_mounts')
          /\ "/sys/fs/cgroup" \in Listed' => E!Visible("/sys/fs/cgroup")' /\ "/sys" \in Listed'
      <4>1. CASE e_mounts' = e_mounts /\ t \in Listed
        BY Zenon, <2>2, <4>1, TableKept
      <4>2. CASE e_mounts' = Append(e_mounts, t) /\ t \notin Listed
        BY Zenon, <1>2, <2>2, <2>4, <2>5, <4>2, OneMore
      <4> QED BY Zenon, <2>7, <4>1, <4>2
    <3>2. \A n \in 1..e_i : E!essential_mounts[n] \in Listed'
      BY <1>2, <2>2, <3>1
    <3>3. t # "/boot"
      BY Zenon, <1>2, Essentials
    <3>4. CASE e_i = 6
      <4>1. e_i' = 1 /\ e_at' = (IF e_again THEN "up" ELSE "modules")
        BY Zenon, <2>7, <3>4 DEF E!Leave
      <4>2. \A n \in 1..6 : E!essential_mounts[n] \in Listed'
        BY Zenon, <3>2, <3>4
      <4>3. Undisturbed'
        BY <1>1, <2>2, <2>7, <3>1, <3>3, <4>1, <4>2 DEF Undisturbed
      <4> QED BY <1>1, <2>2, <3>1, <3>3, <4>1, <4>2, <4>3 DEF Sighted
    <3>5. CASE e_i # 6
      <4>1. e_i' = e_i + 1 /\ e_at' = "mount" /\ e_i' - 1 = e_i
        BY <1>1, <1>2, <2>7, <3>5
      <4>2. Undisturbed'
        BY Zenon, <1>1, <2>2, <2>7, <3>1, <3>3, <4>1 DEF Undisturbed
      <4> QED BY <1>1, <2>2, <3>1, <3>2, <3>3, <4>1, <4>2 DEF Sighted
    <3> QED BY Zenon, <3>4, <3>5
  <2> QED BY Zenon, <1>1, <2>1, <2>6, <2>7
<1> QED BY Zenon, <1>1, <1>6, <1>7 DEF EarlyInv

(* The steps between the two passes.  Each keeps what the ones before it   *)
(* have provided.                                                          *)
LEMMA EarlyTypes ==
  ASSUME EarlyInv, e_at' \in {"modules", "boot", "leaf", "subtree", "config"},
         UNCHANGED <<e_i, e_again, e_media, e_disk, e_blind, e_config>>,
         e_mounts' \in Seq(E!Targets), e_drivers' \in BOOLEAN,
         e_cgroup' \in {"root", "leaf", "delegated"}, e_faults' \in 0..EarlyFaults
  PROVE  E!TypeOK'
<1>1. (e_config' = "none") = ~e_again'
  BY Zenon DEF EarlyInv, E!TypeOK
<1>2. /\ e_media' \subseteq {"partition", "config", "valid"} /\ e_disk' \in {"absent", "bad", "good"}
      /\ e_blind' \in BOOLEAN /\ e_again' \in BOOLEAN /\ e_i' \in DOMAIN E!essential_mounts
      /\ e_config' \in {"none", "boot", "disk", "default"}
  BY Zenon DEF EarlyInv, E!TypeOK
<1> QED BY Zenon, <1>1, <1>2 DEF E!TypeOK

LEMMA GotoKeeps ==
  ASSUME NEW here, NEW there, E!Goto(here, there)
  PROVE  e_at = here /\ e_at' = there /\ UNCHANGED <<e_i, e_again, e_media, e_disk, e_blind>>
BY Zenon DEF E!Goto

LEMMA ModulesStep == ASSUME EarlyInv, E!load_modules PROVE EarlyInv'
<1>1. /\ e_at = "modules" /\ e_at' = "boot" /\ UNCHANGED <<e_i, e_again, e_media, e_disk, e_blind>>
      /\ (e_drivers' = TRUE /\ e_faults' = e_faults) \/ (E!Fault /\ e_drivers' = e_drivers)
      /\ UNCHANGED <<e_mounts, e_cgroup, e_config>>
  BY Zenon, GotoKeeps DEF E!load_modules
<1>2. e_faults' \in 0..EarlyFaults /\ (e_faults' = 0 => e_faults = 0 /\ e_drivers' = TRUE)
  BY Zenon, <1>1, Counted DEF EarlyInv, E!TypeOK
<1>3. e_drivers' \in BOOLEAN
  BY Zenon, <1>1 DEF EarlyInv, E!TypeOK
<1>4. E!TypeOK'
  BY Zenon, <1>1, <1>2, <1>3, EarlyTypes DEF EarlyInv, E!TypeOK
<1>5. ASSUME ~e_blind PROVE Sighted'
  BY Zenon, <1>1, <1>2, <1>5, TableKept DEF EarlyInv, Sighted, Undisturbed
<1> QED BY Zenon, <1>1, <1>4, <1>5 DEF EarlyInv

LEMMA MountsBootStep == ASSUME EarlyInv, E!mount_boot PROVE EarlyInv'
<1>1. /\ e_at = "boot" /\ e_at' = "leaf" /\ UNCHANGED <<e_i, e_again, e_media, e_disk, e_blind>>
      /\ \/ E!Found /\ e_mounts' = Append(e_mounts, "/boot") /\ e_faults' = e_faults
         \/ E!Found /\ E!Fault /\ e_mounts' = e_mounts
         \/ ~E!Found /\ UNCHANGED <<e_mounts, e_faults>>
      /\ UNCHANGED <<e_drivers, e_cgroup, e_config>>
  BY Zenon, GotoKeeps DEF E!mount_boot, E!Mount
<1>2. e_faults' \in 0..EarlyFaults
  BY Zenon, <1>1, Counted DEF EarlyInv, E!TypeOK
<1>3. e_mounts \in Seq(E!Targets) /\ e_mounts' \in Seq(E!Targets)
  BY Zenon, <1>1, OneMore, Essentials DEF EarlyInv, E!TypeOK
<1>4. E!TypeOK'
  BY Zenon, <1>1, <1>2, <1>3, EarlyTypes DEF EarlyInv, E!TypeOK
<1>5. ASSUME ~e_blind PROVE Sighted'
  <2>1. /\ E!IsInjective(e_mounts) /\ \A n \in 1..(e_i - 1) : E!essential_mounts[n] \in Listed
        /\ "/sys/fs/cgroup" \in Listed => E!Visible("/sys/fs/cgroup") /\ "/sys" \in Listed
        /\ ~e_again /\ "/boot" \notin Listed /\ Undisturbed
    BY Zenon, <1>1, <1>5 DEF EarlyInv, Sighted
  <2>2. /\ Listed' = Listed \/ Listed' = Listed \cup {"/boot"}
        /\ E!IsInjective(e_mounts')
        /\ "/sys/fs/cgroup" \in Listed' => E!Visible("/sys/fs/cgroup")' /\ "/sys" \in Listed'
    <3>1. CASE e_mounts' = e_mounts
      BY Zenon, <2>1, <3>1, TableKept
    <3>2. CASE e_mounts' = Append(e_mounts, "/boot")
      BY Zenon, <1>3, <2>1, <3>2, OneMore, Essentials
    <3> QED BY Zenon, <1>1, <3>1, <3>2
  <2>3. ASSUME e_faults' = 0
        PROVE  /\ e_faults = 0 /\ e_drivers /\ \A n \in 1..6 : E!essential_mounts[n] \in Listed
               /\ "/boot" \in Listed' <=> "partition" \in e_media
    <3>1. e_faults = 0 /\ ~E!Fault
      BY Zenon, <1>1, <2>3, Counted
    <3>2. e_drivers /\ \A n \in 1..6 : E!essential_mounts[n] \in Listed
      BY Zenon, <1>1, <2>1, <3>1 DEF Undisturbed
    <3>3. "/sys" \in Listed /\ "/dev" \in Listed
      BY <3>2, Essentials
    <3>4. E!Found <=> "partition" \in e_media
      BY Zenon, <1>3, <3>2, <3>3, Seen DEF E!Found
    <3>5. CASE E!Found /\ e_mounts' = Append(e_mounts, "/boot")
      BY <1>3, <3>1, <3>2, <3>4, <3>5, OneMore, Essentials
    <3>6. CASE ~E!Found /\ e_mounts' = e_mounts
      BY Zenon, <2>1, <3>1, <3>2, <3>4, <3>6, TableKept
    <3> QED BY Zenon, <1>1, <3>1, <3>5, <3>6
  <2>4. Undisturbed'
    BY Zenon, <1>1, <2>1, <2>2, <2>3 DEF Undisturbed
  <2> QED BY Zenon, <1>1, <2>1, <2>2, <2>4 DEF Sighted
<1> QED BY Zenon, <1>1, <1>4, <1>5 DEF EarlyInv

LEMMA LeafStep == ASSUME EarlyInv, E!MoveToLeaf PROVE EarlyInv'
<1>1. /\ e_at = "leaf" /\ UNCHANGED <<e_i, e_again, e_media, e_disk, e_blind, e_mounts, e_drivers, e_config>>
      /\ \/ e_at' = "subtree" /\ e_cgroup' = "leaf" /\ e_faults' = e_faults
         \/ e_at' = "config" /\ E!Fault /\ e_cgroup' = e_cgroup
         \/ e_at' = "config" /\ ~E!Visible("/sys/fs/cgroup") /\ UNCHANGED <<e_cgroup, e_faults>>
  BY Zenon, GotoKeeps DEF E!MoveToLeaf
<1>2. e_faults' \in 0..EarlyFaults /\ (E!Fault => e_faults' # 0)
  BY Zenon, <1>1, Counted DEF EarlyInv, E!TypeOK
<1>3. E!TypeOK'
  BY <1>1, <1>2, EarlyTypes DEF EarlyInv, E!TypeOK
<1>4. ASSUME ~e_blind PROVE Sighted'
  <2>1. e_faults = 0 => "/sys/fs/cgroup" \in Listed
    <3>1. e_faults = 0 => E!essential_mounts[6] \in Listed
      BY <1>1, <1>4 DEF EarlyInv, Sighted, Undisturbed
    <3> QED BY Zenon, <3>1, Essentials
  <2>2. e_faults' = 0 => e_faults = 0 /\ e_at' = "subtree"
    BY Zenon, <1>1, <1>2, <1>4, <2>1 DEF EarlyInv, Sighted
  <2> QED BY Zenon, <1>1, <1>4, <2>2, TableKept DEF EarlyInv, Sighted, Undisturbed
<1> QED BY Zenon, <1>1, <1>3, <1>4 DEF EarlyInv

LEMMA SubtreeStep == ASSUME EarlyInv, E!SubtreeControl PROVE EarlyInv'
<1>1. /\ e_at = "subtree" /\ e_at' = "config"
      /\ UNCHANGED <<e_i, e_again, e_media, e_disk, e_blind, e_mounts, e_drivers, e_config>>
      /\ (e_cgroup' = "delegated" /\ e_faults' = e_faults) \/ (E!Fault /\ e_cgroup' = e_cgroup)
  BY Zenon, GotoKeeps DEF E!SubtreeControl
<1>2. e_faults' \in 0..EarlyFaults /\ (e_faults' = 0 => e_faults = 0 /\ e_cgroup' = "delegated")
  BY Zenon, <1>1, Counted DEF EarlyInv, E!TypeOK
<1>3. E!TypeOK'
  BY Zenon, <1>1, <1>2, EarlyTypes DEF EarlyInv, E!TypeOK
<1>4. ASSUME ~e_blind PROVE Sighted'
  BY Zenon, <1>1, <1>2, <1>4, TableKept DEF EarlyInv, Sighted, Undisturbed
<1> QED BY Zenon, <1>1, <1>3, <1>4 DEF EarlyInv

LEMMA ConfigStep == ASSUME EarlyInv, E!LoadConfig PROVE EarlyInv'
<1> DEFINE fromBoot == "config" \in e_media /\ E!Visible("/boot")
<1>1. /\ e_at = "config" /\ e_at' = "mount" /\ e_again' = TRUE
      /\ UNCHANGED <<e_i, e_media, e_disk, e_blind, e_mounts, e_drivers, e_cgroup, e_faults>>
      /\ e_config' = IF fromBoot THEN (IF "valid" \in e_media THEN "boot" ELSE "default")
                     ELSE (IF e_disk = "good" THEN "disk" ELSE "default")
  BY Zenon DEF E!LoadConfig, E!pick_config_path
<1>2. E!TypeOK'
  <2>1. e_config' \in {"boot", "disk", "default"}
    BY Zenon, <1>1
  <2>2. (e_config' = "none") = ~e_again'
    BY Zenon, <1>1, <2>1
  <2> QED BY <1>1, <2>1, <2>2, Zenon DEF EarlyInv, E!TypeOK
<1>3. ASSUME ~e_blind PROVE Sighted'
  <2>1. e_mounts \in Seq(E!Targets)
    BY Zenon DEF EarlyInv, E!TypeOK
  <2>2. E!Visible("/boot") <=> "/boot" \in Listed
    BY Zenon, <2>1, Seen
  <2>3. e_faults = 0 => (fromBoot <=> {"partition", "config"} \subseteq e_media)
    BY Zenon, <1>1, <1>3, <2>2 DEF EarlyInv, Sighted, Undisturbed
  <2> HIDE DEF fromBoot
  <2>4. Undisturbed'
    BY Zenon, <1>1, <1>3, <2>3, TableKept DEF EarlyInv, Sighted, Undisturbed
  <2> QED BY Zenon, <1>1, <1>3, <2>4, TableKept DEF EarlyInv, Sighted
<1> QED BY Zenon, <1>1, <1>2, <1>3 DEF EarlyInv

LEMMA EarlyStep == ASSUME EarlyInv, E!Next PROVE EarlyInv'
BY Zenon, EssentialStep, ModulesStep, MountsBootStep, LeafStep, SubtreeStep, ConfigStep DEF E!Next

LEMMA EarlySuffices ==
  ASSUME EarlyInv PROVE E!TypeOK /\ E!EssentialsVisible /\ E!MountedOnce /\ E!CleanBoot
<1>1. E!TypeOK /\ E!MountedOnce
  BY Zenon DEF EarlyInv, Sighted, E!MountedOnce
<1>2. E!EssentialsVisible
  <2> SUFFICES ASSUME e_at = "up", ~e_blind, NEW n \in 1..6 PROVE E!Visible(E!essential_mounts[n])
    BY Zenon, Essentials DEF E!EssentialsVisible
  <2>1. E!essential_mounts[n] \in Listed /\ e_mounts \in Seq(E!Targets)
    BY Zenon DEF EarlyInv, Sighted, E!TypeOK
  <2> QED BY Zenon, <2>1, Seen DEF EarlyInv, Sighted
<1>3. E!CleanBoot
  <2> SUFFICES ASSUME e_at = "up", e_faults = 0, ~e_blind
               PROVE  /\ e_cgroup = "delegated"
                      /\ ("/boot" \in E!Range(e_mounts)) = ("partition" \in e_media)
                      /\ e_config = IF {"partition", "config"} \subseteq e_media
                                    THEN IF "valid" \in e_media THEN "boot" ELSE "default"
                                    ELSE IF e_disk = "good" THEN "disk" ELSE "default"
    BY Zenon DEF E!CleanBoot
  <2> QED BY DEF EarlyInv, Sighted, Undisturbed, Listed
<1> QED BY Zenon, <1>1, <1>2, <1>3

LEMMA EarlyGoesOn == ASSUME EarlyInv, [E!Next]_E!vars PROVE EarlyInv'
<1>1. CASE UNCHANGED E!vars
  <2>1. UNCHANGED <<e_media, e_disk, e_blind, e_at, e_i, e_again, e_mounts, e_drivers, e_cgroup,
                    e_config, e_faults>>
    BY Zenon, <1>1 DEF E!vars
  <2>2. E!TypeOK => E!TypeOK'
    BY <2>1, Zenon DEF E!TypeOK
  <2>3. Sighted => Sighted'
    BY Zenon, <2>1, TableKept DEF Sighted, Undisturbed
  <2> QED BY Zenon, <2>1, <2>2, <2>3 DEF EarlyInv
<1> QED BY Zenon, <1>1, EarlyStep

-----------------------------------------------------------------------------
(* A node that reaches the services has every essential filesystem in      *)
(* reach and mounted once, after any number of failed calls, and after     *)
(* none the boot partition, the cgroup controllers and the right           *)
(* configuration (mounts.rs:38-97, main.rs:219-262).                       *)
THEOREM BootsStayRight == E!Spec => []BootsRight
<1>1. EarlyInv => BootsRight
  BY Zenon, EarlySuffices DEF BootsRight
<1>2. EarlyInv /\ [E!Next]_E!vars => EarlyInv'
  BY Zenon, EarlyGoesOn
<1> QED BY <1>1, <1>2, EarlyInit, PTL DEF E!Spec
=============================================================================
