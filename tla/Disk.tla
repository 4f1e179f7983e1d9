-------------------------------- MODULE Disk --------------------------------
(***************************************************************************)
(* The disk of a node from boot to boot: its volumes, which the block      *)
(* controllers lay out, format and mount.                                  *)
(***************************************************************************)
CONSTANTS Scenes, Kinds, MaxBoots

VARIABLES
  v_scene, v_stage, v_boots, v_gpt, v_part, v_nodes, v_found, v_scan, v_dpc,
  v_dv, v_ds, v_ppc, v_todo, v_statuses, v_wakeP, v_vs, v_mpc, v_seen,
  v_mtodo, v_wakeM, v_mnt, v_ms

V == INSTANCE Volumes WITH
  scene <- v_scene, stage <- v_stage, boots <- v_boots, gpt <- v_gpt,
  part <- v_part, nodes <- v_nodes, found <- v_found, scan <- v_scan,
  dpc <- v_dpc, dv <- v_dv, ds <- v_ds, ppc <- v_ppc, todo <- v_todo,
  statuses <- v_statuses, wakeP <- v_wakeP, vs <- v_vs, mpc <- v_mpc,
  seen <- v_seen, mtodo <- v_mtodo, wakeM <- v_wakeM, mnt <- v_mnt,
  ms <- v_ms

ASSUME DiskAssumption == V!VolumesAssumption

-----------------------------------------------------------------------------
(* Volumes: without install.wipe a VolumeStatus names the partition with   *)
(* its label, the device a reset formats; a MountStatus stands for a       *)
(* volume that is mounted, from the device VolumeStatus names.             *)
VolumesAttested == V!TypeOK /\ V!AttestedDevice /\ V!MountStatusTrue

(* Volumes: nothing on the disk is lost without install.wipe, and with it  *)
(* nothing is laid out or formatted again in a boot that finds the fixed   *)
(* layout.                                                                 *)
NothingLost == V!KeptWithoutWipe /\ V!OursKept
=============================================================================
