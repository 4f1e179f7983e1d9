------------------------------ MODULE NodeKeys ------------------------------
(***************************************************************************)
(* The identity of a node, from boot to boot: what the daemon seeds,       *)
(* generates and serves.                                                   *)
(***************************************************************************)
CONSTANTS Cas, Baked, BootSets, Keeps

VARIABLES
  i_boot, i_kept, i_pc, i_mounted, i_dst, i_tmp, i_staged, i_dirty, i_unnamed,
  i_new, i_used, i_ca, i_mishap

I == INSTANCE Identity WITH
  boot <- i_boot, kept <- i_kept,
  pc <- i_pc, mounted <- i_mounted, dst <- i_dst, tmp <- i_tmp,
  staged <- i_staged, dirty <- i_dirty, unnamed <- i_unnamed, new <- i_new, used <- i_used,
  ca <- i_ca, mishap <- i_mishap

ASSUME KeysAssumption == I!IdentityAssumption

-----------------------------------------------------------------------------
(* Identity: a whole baked identity is the one the node serves, wherever   *)
(* the power was cut in earlier boots, unless one of them failed to seed   *)
(* it; and no step of the daemon replaces a file of an identity on STATE,  *)
(* unless STATE is mounted while the files are written.                    *)
IdentityKept == [](I!TypeOK /\ I!BakedServed) /\ I!NoRekey
=============================================================================
