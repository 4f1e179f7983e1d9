------------------------------- MODULE MCNode -------------------------------
(***************************************************************************)
(* A node from power-up to power-off: the early boot, the disk, the        *)
(* identity, the main task with its shutdown, and the clients that ask it  *)
(* for one.  Each part's module says what it takes from the others (the    *)
(* main task from the disk whether a volume is mounted, the clients from   *)
(* the main task that it receives), and the parts are checked side by      *)
(* side: which says what a behaviour is about.                             *)
(***************************************************************************)
EXTENDS Daemon, Disk, NodeKeys, TLC

CONSTANTS r1, r2, c1, c2, c3, c4

VARIABLE which  \* the part the behaviour is about

(* Two calls: an upgrade, which may fail, and a reset.                     *)
MCKind == r1 :> "Upgrade" @@ r2 :> "Reset"

(* Everything may fail, with a second disk that has an EFI partition; the  *)
(* same with install.wipe, as long as the table can be read, and a stick   *)
(* with vfat; and nothing fails, with a second disk or without.            *)
Failures == {"scan", "read", "write", "format", "mount", "power"}
MCScenes == {[wipe |-> FALSE, other |-> "EFI", faults |-> Failures],
             [wipe |-> TRUE, other |-> "none", faults |-> Failures \ {"read"}],
             [wipe |-> FALSE, other |-> "EFI", faults |-> {}],
             [wipe |-> FALSE, other |-> "nothing", faults |-> {}]}

MCClients == {c1, c2, c3, c4}

(* A whole identity on the boot partition, a part of one.                  *)
MCBootSets == {{"ca.pem", "ca.key", "server.pem", "server.key"}, {"ca.pem"}}

(* Four invocations at once: an upgrade, a confirmed reset, one that is    *)
(* not confirmed, and a listing of a type that does not exist.             *)
MCCommand ==
  [c \in MCClients |->
     [does |-> CASE c = c1 -> "Upgrade" [] c = c4 -> "Get" [] OTHER -> "Reset",
      yes |-> c = c2, type |-> "Nonesuch"]]

-----------------------------------------------------------------------------
lifecycleState == <<pc, final, cancelled, ctl, api, chan, req, took, term,
  signals, vols, mounts, stuck, services, wiped, failed, power>>
volumesState == <<v_scene, v_stage, v_boots, v_gpt, v_part, v_nodes, v_found,
  v_scan, v_dpc, v_dv, v_ds, v_ppc, v_todo, v_statuses, v_wakeP, v_vs, v_mpc,
  v_seen, v_mtodo, v_wakeM, v_mnt, v_ms>>
identityState == <<i_boot, i_kept, i_pc, i_mounted, i_dst, i_tmp,
  i_staged, i_dirty, i_unnamed, i_new, i_used, i_ca, i_mishap>>
earlyState == <<e_media, e_disk, e_blind, e_at, e_i, e_again, e_mounts,
  e_drivers, e_cgroup, e_config, e_faults>>
clientsState == <<c_node, c_at, c_handler, c_chan, c_queued>>

(* A part that a behaviour is not about rests in an initial state.         *)
LifecycleRests == mounts = {} /\ Init
VolumesRests ==
  /\ v_scene = (CHOOSE s \in Scenes : TRUE) /\ v_gpt = V!TableOf(CHOOSE k \in Kinds : TRUE)
  /\ V!Init
IdentityRests ==
  /\ i_boot = (CHOOSE b \in BootSets : TRUE) /\ i_kept = (CHOOSE k \in Keeps : TRUE)
  /\ I!Init
EarlyRests == e_media = {} /\ e_disk = "absent" /\ e_blind = FALSE /\ E!Init
ClientsRests == M!Init

MCInit ==
  \/ which = "lifecycle" /\ Init /\ VolumesRests /\ IdentityRests
     /\ EarlyRests /\ ClientsRests
  \/ which = "volumes" /\ V!Init /\ LifecycleRests /\ IdentityRests
     /\ EarlyRests /\ ClientsRests
  \/ which = "identity" /\ I!Init /\ LifecycleRests /\ VolumesRests
     /\ EarlyRests /\ ClientsRests
  \/ which = "early" /\ E!Init /\ LifecycleRests /\ VolumesRests
     /\ IdentityRests /\ ClientsRests
  \/ which = "clients" /\ M!Init /\ LifecycleRests /\ VolumesRests
     /\ IdentityRests /\ EarlyRests

MCNext ==
  \/ /\ which = "lifecycle" /\ Next
     /\ UNCHANGED <<which, volumesState, identityState, earlyState, clientsState>>
  \/ /\ which = "volumes" /\ V!Next
     /\ UNCHANGED <<which, lifecycleState, identityState, earlyState, clientsState>>
  \/ /\ which = "identity" /\ I!Next
     /\ UNCHANGED <<which, lifecycleState, volumesState, earlyState, clientsState>>
  \/ /\ which = "early" /\ E!Next
     /\ UNCHANGED <<which, lifecycleState, volumesState, identityState, clientsState>>
  \/ /\ which = "clients" /\ M!Next
     /\ UNCHANGED <<which, lifecycleState, volumesState, identityState, earlyState>>

state == <<which, lifecycleState, volumesState, identityState, earlyState, clientsState>>

(* The fairness of the components' own specifications: tasks run, a loop   *)
(* that keeps selecting picks the cancelled branch at last, waiting        *)
(* senders are served in turn, and a client's timers go off.               *)
MCSpec ==
  /\ MCInit /\ [][MCNext]_state
  /\ WF_lifecycleState(which = "lifecycle" /\ MainStep)
  /\ \A c \in Controllers : SF_lifecycleState(which = "lifecycle" /\ LoopStops(c))
  /\ \A r \in Requests : SF_lifecycleState(which = "lifecycle" /\ Send(r))
  /\ WF_lifecycleState(which = "lifecycle" /\ ApiDrained)
  /\ WF_volumesState(which = "volumes" /\ (V!PowerUp \/ V!mount_boot))
  /\ WF_volumesState(which = "volumes" /\ V!Discovery)
  /\ WF_volumesState(which = "volumes" /\ V!Provisioning)
  /\ WF_volumesState(which = "volumes" /\ V!Mounting)
  /\ \A c \in Clients : WF_clientsState(which = "clients" /\ M!Client(c))

-----------------------------------------------------------------------------
(* Volumes: a flashed image or a provisioned disk ends up with STATE       *)
(* mounted in every boot without faults.                                   *)
StateComesUp == V!StateComesUp

(* Machinectl: every command ends, whatever the node does.                 *)
CommandsEnd == which = "clients" => M!CommandsEnd
=============================================================================
