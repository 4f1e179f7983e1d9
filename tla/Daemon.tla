------------------------------- MODULE Daemon -------------------------------
(***************************************************************************)
(* The daemon from its first system call to its last, and the clients that *)
(* ask it for one: the early boot, the main task with its shutdown, and    *)
(* machinectl.  Machinectl takes from the main task that it receives.      *)
(***************************************************************************)
EXTENDS Lifecycle

CONSTANTS
  EarlyFaults,              \* of EarlyBoot
  Clients, Command, Known   \* of Machinectl

VARIABLES
  e_media, e_disk, e_blind, e_at, e_i, e_again, e_mounts, e_drivers,
  e_cgroup, e_config, e_faults,
  c_node, c_at, c_handler, c_chan, c_queued

E == INSTANCE EarlyBoot WITH
  MaxFaults <- EarlyFaults, media <- e_media, disk <- e_disk, blind <- e_blind,
  at <- e_at, i <- e_i, again <- e_again, mounts <- e_mounts,
  drivers <- e_drivers, cgroup <- e_cgroup, config <- e_config,
  faults <- e_faults

M == INSTANCE Machinectl WITH
  node <- c_node,
  at <- c_at, handler <- c_handler, chan <- c_chan, queued <- c_queued

ASSUME DaemonAssumption == E!EarlyAssumption /\ M!CommandAssumption

-----------------------------------------------------------------------------
(* Lifecycle: a shutdown once begun reaches its final call unless a        *)
(* reconcile never returns, and a request made while the daemon still      *)
(* selects is taken unless an upgrade before it never ends.                *)
RequestsEnd == FinalCompletes /\ ActionsServed

(* Lifecycle: a reset erases what it is to erase, and while the node goes  *)
(* down nothing is mounted again.                                          *)
GoesDownRight == []ResetErases /\ NoRemount

(* EarlyBoot: a node that reaches the services has every essential         *)
(* filesystem in reach and mounted once, and after a boot without a failed *)
(* call the boot partition, the cgroup controllers and the right           *)
(* configuration.                                                          *)
BootsRight == E!TypeOK /\ E!EssentialsVisible /\ E!MountedOnce /\ E!CleanBoot

(* Machinectl: an action a client reports was in the daemon's channel.     *)
ReportedIsQueued == M!TypeOK /\ M!ReportedIsQueued
=============================================================================
