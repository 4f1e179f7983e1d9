----------------------------- MODULE Lifecycle -----------------------------
(***************************************************************************)
(* The daemon's main task (run_daemon of crates/machined/src/main.rs) with *)
(* the boot and shutdown sequences (crates/sequencer) and the API handlers *)
(* that feed it (crates/apiserver/src/service.rs).  The main task starts   *)
(* the controllers and the API, runs the boot sequence, waits for a signal *)
(* or an action, and then takes everything down in order: controllers,     *)
(* API, services, volumes, and the final system call.                      *)
(*                                                                         *)
(* The controllers are tasks of their own: two of them matter here, the    *)
(* one that publishes VolumeStatus and the one that mounts volumes.  The   *)
(* handlers block on a channel that holds one action.                      *)
(***************************************************************************)
EXTENDS Naturals, Sequences

CONSTANTS
  Requests,    \* the API calls clients make, each answered at most once
  Kind,        \* the NodeAction each asks for
  Controllers, \* the controller loops
  Provisioner, \* the one that publishes VolumeStatus
  Mounter      \* the one that mounts the published volumes

NodeAction == {"Reboot", "Shutdown", "Reset", "Upgrade"}

ASSUME LifecycleAssumption ==
  /\ Kind \in [Requests -> NodeAction]
  /\ {Provisioner, Mounter} \subseteq Controllers

VARIABLES
  pc,        \* where the main task is
  final,     \* the FinalAction it left its loop with
  cancelled, \* the shutdown token
  ctl,       \* what each controller loop is doing
  api,       \* the API server task
  chan,      \* the actions in the channel
  req,       \* what has become of each request
  took,      \* the requests whose action the main loop has received
  term,      \* a termination signal the current select can see
  signals,   \* a termination signal was sent once the node was up
  vols,      \* labels with a VolumeStatus in the store
  mounts,    \* mounted volumes, by label
  stuck,     \* volumes the shutdown could not unmount or see
  services,  \* are supervised services running?
  wiped,     \* labels whose format the reset called
  failed,    \* those of them whose format failed
  power      \* what the kernel was asked to do

main == <<pc, final, cancelled>>
handlers == <<chan, req, took>>
signal == <<term, signals>>
disk == <<vols, mounts, stuck, wiped, failed>>
vars == <<main, ctl, api, handlers, signal, disk, services, power>>

Labels == {"EPHEMERAL", "STATE", "EFI"}
BootTasks == <<"mount-filesystems", "apply-sysctls", "set-hostname", "start-services">>
UnmountOrder == <<"EPHEMERAL", "STATE", "EFI">>
ResetOrder == <<"STATE", "EPHEMERAL">>
FinalAction == {"None", "Stop", "Reboot", "Poweroff", "Reset"}

(* The main task's places; a sequence's places carry the number of the     *)
(* task, target or label it is at.                                         *)
At(where, n) == <<where, n>>
Places ==
  {At(w, 0) : w \in {"Start", "WaitState", "Api", "Select", "Preparing", "Cancel",
                     "JoinRuntime", "JoinApi", "StopServices", "Sync", "Final",
                     "Reboot", "Parked", "Exited"}}
    \cup {At("Boot", n) : n \in DOMAIN BootTasks}
    \cup {At("Unmount", n) : n \in DOMAIN UnmountOrder}
    \cup {At("Format", n) : n \in DOMAIN ResetOrder}

TypeOK ==
  /\ pc \in Places
  /\ final \in FinalAction
  /\ cancelled \in BOOLEAN
  /\ ctl \in [Controllers -> {"none", "idle", "busy", "stopped"}]
  /\ api \in {"off", "serving", "down", "aborted"}
  /\ chan \in Seq(Requests) /\ Len(chan) <= 1
  /\ req \in [Requests -> {"new", "sending", "acked"}]
  /\ took \subseteq Requests
  /\ term \in BOOLEAN /\ signals \in BOOLEAN
  /\ vols \subseteq Labels /\ mounts \subseteq Labels /\ stuck \subseteq Labels
  /\ services \in BOOLEAN
  /\ failed \subseteq wiped /\ wiped \subseteq {"STATE", "EPHEMERAL"}
  /\ power \in {"on", "rebooted", "off", "panicked"}

(* Early boot has mounted the boot partition, or found none.               *)
Init ==
  /\ pc = At("Start", 0) /\ final = "None" /\ cancelled = FALSE
  /\ ctl = [c \in Controllers |-> "none"]
  /\ api = "off"
  /\ chan = <<>> /\ req = [r \in Requests |-> "new"] /\ took = {}
  /\ term = FALSE /\ signals = FALSE
  /\ mounts \in {{}, {"EFI"}} /\ vols = {} /\ stuck = {}
  /\ services = FALSE /\ wiped = {} /\ failed = {}
  /\ power = "on"

-----------------------------------------------------------------------------
(* The controller loops: a change or a tick starts a reconcile, also in a  *)
(* select that could have seen the cancelled token.                        *)

Wake(c) ==
  /\ ctl[c] = "idle" /\ power = "on"
  /\ ctl' = [ctl EXCEPT ![c] = "busy"]
  /\ UNCHANGED <<main, api, handlers, signal, disk, services, power>>

Return(c) ==
  /\ ctl[c] = "busy" /\ power = "on"
  /\ ctl' = [ctl EXCEPT ![c] = "idle"]
  /\ UNCHANGED <<main, api, handlers, signal, disk, services, power>>

LoopStops(c) ==
  /\ cancelled /\ ctl[c] = "idle" /\ power = "on"
  /\ ctl' = [ctl EXCEPT ![c] = "stopped"]
  /\ UNCHANGED <<main, api, handlers, signal, disk, services, power>>

(* VolumeProvisionerController publishes the volumes it found or made.     *)
PublishVolumes ==
  /\ ctl[Provisioner] = "busy" /\ power = "on"
  /\ \E ls \in {Labels, {"EFI"}} : vols' = vols \cup ls
  /\ UNCHANGED <<main, ctl, api, handlers, signal, mounts, stuck, wiped, failed, services, power>>

(* VolumeMountController mounts a volume that is not mounted.              *)
MountVolume(l) ==
  /\ ctl[Mounter] = "busy" /\ power = "on"
  /\ l \in vols \ mounts
  /\ mounts' = mounts \cup {l}
  /\ UNCHANGED <<main, ctl, api, handlers, signal, vols, stuck, wiped, failed, services, power>>

-----------------------------------------------------------------------------
(* The API: a handler sends its action and is answered when it is queued.  *)
(* The receiver lives as long as run_daemon, so a send fails only with it; *)
(* a handler survives the server task that accepted it.                    *)

Call(r) ==
  /\ api = "serving" /\ power = "on"
  /\ req[r] = "new"
  /\ req' = [req EXCEPT ![r] = "sending"]
  /\ UNCHANGED <<main, ctl, api, chan, took, signal, disk, services, power>>

Send(r) ==
  /\ req[r] = "sending" /\ Len(chan) < 1 /\ power = "on"
  /\ chan' = Append(chan, r)
  /\ req' = [req EXCEPT ![r] = "acked"]
  /\ UNCHANGED <<main, ctl, api, took, signal, disk, services, power>>

(* A listener that cannot be bound ends the server task.                   *)
ServeFails ==
  /\ api = "serving" /\ power = "on"
  /\ \A r \in Requests : req[r] = "new"
  /\ api' = "down"
  /\ UNCHANGED <<main, ctl, handlers, signal, disk, services, power>>

(* Told to stop, the server ends when its connections have.                *)
ApiDrained ==
  /\ api = "serving" /\ cancelled /\ power = "on"
  /\ \A r \in Requests : req[r] # "sending"
  /\ api' = "down"
  /\ UNCHANGED <<main, ctl, handlers, signal, disk, services, power>>

(* SIGTERM or SIGINT.  Its receiver exists only while a select waits: a    *)
(* signal sent while an upgrade is prepared has nobody to go to.           *)
Terminate ==
  /\ pc \in {At("Select", 0), At("Preparing", 0)}
  /\ ~signals
  /\ signals' = TRUE
  /\ term' = (pc = At("Select", 0))
  /\ UNCHANGED <<main, ctl, api, handlers, disk, services, power>>

-----------------------------------------------------------------------------
(* The main task.                                                          *)

Goto(where, n) == pc' = At(where, n)
Begin(seq, where, next) == IF seq = <<>> THEN Goto(next, 0) ELSE Goto(where, 1)
Step(seq, where, n, next) == IF n < Len(seq) THEN Goto(where, n + 1) ELSE Goto(next, 0)

(* The controllers are registered and started; each reconciles once.  With *)
(* an install disk the main task then waits for STATE.                     *)
StartRuntime ==
  /\ pc = At("Start", 0)
  /\ ctl' = [c \in Controllers |-> "busy"]
  /\ Goto("WaitState", 0) \/ Goto("Api", 0)
  /\ UNCHANGED <<final, cancelled, api, handlers, signal, disk, services, power>>

(* STATE is mounted, or sixty seconds are over.                            *)
StateMounted ==
  /\ pc = At("WaitState", 0)
  /\ Goto("Api", 0)
  /\ UNCHANGED <<final, cancelled, ctl, api, handlers, signal, disk, services, power>>

(* Without keys there is no management API, but the node boots.            *)
StartApi ==
  /\ pc = At("Api", 0)
  /\ api' \in {"serving", "off"}
  /\ Begin(BootTasks, "Boot", "Select")
  /\ UNCHANGED <<final, cancelled, ctl, handlers, signal, disk, services, power>>

(* PhaseList::run: the tasks one after the other, to the first error.      *)
BootTask(n) ==
  /\ pc = At("Boot", n)
  /\ Step(BootTasks, "Boot", n, "Select")
  /\ services' = (services \/ BootTasks[n] = "start-services")
  /\ UNCHANGED <<final, cancelled, ctl, api, handlers, signal, disk, power>>

(* enter_emergency without a reboot, and main leaves with exit code 1.     *)
BootFails(n) ==
  /\ pc = At("Boot", n)
  /\ Goto("Exited", 0)
  /\ power' = "panicked"
  /\ UNCHANGED <<final, cancelled, ctl, api, handlers, signal, disk, services>>

SelectSignal ==
  /\ pc = At("Select", 0) /\ term
  /\ final' = "Stop" /\ Goto("Cancel", 0)
  /\ term' = FALSE
  /\ UNCHANGED <<cancelled, ctl, api, handlers, signals, disk, services, power>>

FinalOf(k) == CASE k = "Reboot" -> "Reboot" [] k = "Shutdown" -> "Poweroff" [] k = "Reset" -> "Reset"

(* The other branch of the select drops the signal's receiver.             *)
SelectAction ==
  /\ pc = At("Select", 0) /\ chan # <<>>
  /\ chan' = Tail(chan) /\ took' = took \cup {Head(chan)}
  /\ IF Kind[Head(chan)] = "Upgrade"
     THEN Goto("Preparing", 0) /\ UNCHANGED final
     ELSE Goto("Cancel", 0) /\ final' = FinalOf(Kind[Head(chan)])
  /\ term' = FALSE
  /\ UNCHANGED <<cancelled, ctl, api, req, signals, disk, services, power>>

UpgradeStaged ==
  /\ pc = At("Preparing", 0)
  /\ final' = "Reboot" /\ Goto("Cancel", 0)
  /\ UNCHANGED <<cancelled, ctl, api, handlers, signal, disk, services, power>>

UpgradeFails ==
  /\ pc = At("Preparing", 0)
  /\ Goto("Select", 0)
  /\ UNCHANGED <<final, cancelled, ctl, api, handlers, signal, disk, services, power>>

Cancel ==
  /\ pc = At("Cancel", 0)
  /\ cancelled' = TRUE
  /\ Goto("JoinRuntime", 0)
  /\ UNCHANGED <<final, ctl, api, handlers, signal, disk, services, power>>

(* Mutant: the runtime is told to stop and not waited for.                 *)
NoJoin ==
  /\ pc = At("JoinRuntime", 0)
  /\ Goto("JoinApi", 0)
  /\ UNCHANGED <<final, cancelled, ctl, api, handlers, signal, disk, services, power>>

(* The runtime's task ends when the last of its loops has.                 *)
JoinRuntime ==
  /\ pc = At("JoinRuntime", 0)
  /\ \A c \in Controllers : ctl[c] = "stopped"
  /\ Goto("JoinApi", 0)
  /\ UNCHANGED <<final, cancelled, ctl, api, handlers, signal, disk, services, power>>

(* Mutant: the wait for the API has no timeout.                            *)
JoinApiUnbounded ==
  /\ pc = At("JoinApi", 0)
  /\ api # "serving"
  /\ Goto("StopServices", 0)
  /\ UNCHANGED <<final, cancelled, ctl, api, handlers, signal, disk, services, power>>

(* Joined, or aborted after five seconds.                                  *)
JoinApi ==
  /\ pc = At("JoinApi", 0)
  /\ \/ api # "serving" /\ UNCHANGED api
     \/ api = "serving" /\ api' = "aborted"
  /\ Goto("StopServices", 0)
  /\ UNCHANGED <<final, cancelled, ctl, handlers, signal, disk, services, power>>

StopServices ==
  /\ pc = At("StopServices", 0)
  /\ services' = FALSE
  /\ Goto("Sync", 0)
  /\ UNCHANGED <<final, cancelled, ctl, api, handlers, signal, disk, power>>

Sync ==
  /\ pc = At("Sync", 0)
  /\ Begin(UnmountOrder, "Unmount", "Final")
  /\ UNCHANGED <<final, cancelled, ctl, api, handlers, signal, disk, services, power>>

(* Best effort: unmount, then detach, then a warning; a mount table that   *)
(* cannot be read skips the target.                                        *)
Unmount(n) ==
  LET l == UnmountOrder[n] IN
  /\ pc = At("Unmount", n)
  /\ \/ l \notin mounts /\ UNCHANGED <<mounts, stuck>>
     \/ l \in mounts /\ mounts' = mounts \ {l} /\ UNCHANGED stuck
     \/ l \in mounts /\ stuck' = stuck \cup {l} /\ UNCHANGED mounts
  /\ Step(UnmountOrder, "Unmount", n, "Final")
  /\ UNCHANGED <<final, cancelled, ctl, api, handlers, signal, vols, wiped, failed, services, power>>

(* Stop returns from main: PID 1 exits.                                    *)
FinalStep ==
  /\ pc = At("Final", 0)
  /\ \/ final = "Stop" /\ Goto("Exited", 0) /\ power' = "panicked"
     \/ final \in {"Reboot", "Poweroff"} /\ Goto("Reboot", 0) /\ UNCHANGED power
     \/ final = "Reset" /\ Begin(ResetOrder, "Format", "Reboot") /\ UNCHANGED power
  /\ UNCHANGED <<final, cancelled, ctl, api, handlers, signal, disk, services>>

(* perform_reset: a volume nobody published is skipped, a failed format    *)
(* only logged; an unknown filesystem is formatted as the layout says.     *)
Format(n) ==
  LET l == ResetOrder[n] IN
  /\ pc = At("Format", n)
  /\ \/ l \notin vols /\ UNCHANGED <<wiped, failed>>
     \/ l \in vols /\ wiped' = wiped \cup {l} /\ failed' \in {failed, failed \cup {l}}
  /\ Step(ResetOrder, "Format", n, "Reboot")
  /\ UNCHANGED <<final, cancelled, ctl, api, handlers, signal, vols, mounts, stuck, services, power>>

(* platform.reboot() or poweroff(); park_after_failed_final if it fails.   *)
FinalCall ==
  /\ pc = At("Reboot", 0) /\ power = "on"
  /\ \/ power' = (IF final = "Poweroff" THEN "off" ELSE "rebooted") /\ UNCHANGED pc
     \/ Goto("Parked", 0) /\ UNCHANGED power
  /\ UNCHANGED <<final, cancelled, ctl, api, handlers, signal, disk, services>>

-----------------------------------------------------------------------------
MainStep ==
  \/ StartRuntime \/ StateMounted \/ StartApi
  \/ \E n \in DOMAIN BootTasks : BootTask(n) \/ BootFails(n)
  \/ SelectSignal \/ SelectAction
  \/ Cancel \/ JoinRuntime \/ JoinApi \/ StopServices \/ Sync
  \/ \E n \in DOMAIN UnmountOrder : Unmount(n)
  \/ FinalStep \/ \E n \in DOMAIN ResetOrder : Format(n)
  \/ FinalCall

Upgrading == UpgradeStaged \/ UpgradeFails

Next ==
  \/ MainStep \/ Upgrading
  \/ \E c \in Controllers : Wake(c) \/ Return(c) \/ LoopStops(c)
  \/ PublishVolumes \/ \E l \in Labels : MountVolume(l)
  \/ \E r \in Requests : Call(r) \/ Send(r)
  \/ ServeFails \/ ApiDrained \/ Terminate

Spec == Init /\ [][Next]_vars

(* The main task is never starved, a loop that keeps selecting picks the   *)
(* cancelled branch at last (the select is random), waiting senders are    *)
(* served in turn, and a told server sees it.  Neither the return of a     *)
(* reconcile nor the end of an upgrade's download is fair: a CRI call and  *)
(* the download have no deadline (cri/src/grpc.rs:80, upgrade.rs:72-79).   *)
Fairness ==
  /\ WF_vars(MainStep)
  /\ \A c \in Controllers : SF_vars(LoopStops(c))
  /\ \A r \in Requests : SF_vars(Send(r))
  /\ WF_vars(ApiDrained)

LiveSpec == Spec /\ Fairness

-----------------------------------------------------------------------------
(* Once the controllers have been joined nothing is mounted any more, so   *)
(* the volumes stay as the shutdown sequence left them through a format    *)
(* and to the end (main.rs:492-495).                                       *)
TakingDown == pc[1] \in {"JoinApi", "StopServices", "Sync", "Unmount", "Final",
                        "Format", "Reboot", "Parked"}
NoRemount == [][TakingDown => mounts' \subseteq mounts]_vars

(* A reset formats a volume that is still mounted only where both ways to  *)
(* unmount it failed (main.rs:172-208, shutdown.rs:28-48).                 *)
ResetUnmounted == wiped \cap mounts \subseteq stuck

(* A reset that reboots has called format for every published volume of    *)
(* the two it is to wipe, whatever failed on the way (main.rs:172-174).    *)
ResetComplete ==
  power = "rebooted" /\ final = "Reset" => vols \cap {"STATE", "EPHEMERAL"} \subseteq wiped

(* What a reset leaves behind.                                             *)
ResetErases == TypeOK /\ ResetUnmounted /\ ResetComplete

(* Once the main loop has been left the machine reboots, powers off or     *)
(* stays parked, or a reconcile never returns: the shutdown waits for the  *)
(* controllers without a timeout (main.rs:495), and that is all that holds *)
(* it up, neither clients blocked in the API nor late events               *)
(* (main.rs:494-537).                                                      *)
Hangs == \E c \in Controllers : <>[](ctl[c] = "busy")
FinalCompletes == (final # "None" ~> (power # "on" \/ pc = At("Parked", 0))) \/ Hangs

(* On a node that comes up, a request is received by the main loop unless  *)
(* the loop has been left, or an upgrade in front of it never ends:        *)
(* upgrades that fail do not keep it from its turn, and no controller does *)
(* (main.rs:459-489, service.rs:80-118).                                   *)
ActionsServed ==
  \/ \A r \in Requests :
       req[r] = "sending" ~> (r \in took \/ final # "None" \/ power = "panicked")
  \/ <>[](pc = At("Preparing", 0))
=============================================================================
