---------------------------- MODULE DurableProofs ---------------------------
(***************************************************************************)
(* Proofs about what a node keeps on its disk through power cuts, for any  *)
(* values of the constants: the identity of the node and the boot slots an *)
(* upgrade fills.  Each part has an inductive invariant of its own.        *)
(***************************************************************************)
EXTENDS Upgrade, NodeKeys, Naturals, Sequences, TLAPS

(* The provers get more time than by default, not every machine is fast.   *)
USE SMTT(30), ZenonT(20)

-----------------------------------------------------------------------------
(***************************************************************************)
(* Identity.  Where the daemon writes an identity of its own, the files it *)
(* has not come to are missing; and where it seeds one from the boot       *)
(* partition, the directory that becomes /system/state/pki is whole and    *)
(* synced before it is renamed.                                            *)
(***************************************************************************)

Writing ==
  "write" \notin i_mishap => \A n \in 1..4 : i_pc = I!At("Write", n) =>
    \A m \in n..4 : i_dst[I!Here].file[I!FILES[m]] = "none"

BakedWhole == I!Holding(Baked)

(* A node with a whole identity on its boot partition and none on STATE    *)
(* that has never failed to seed it, and what holds of it where the daemon *)
(* is at step n of w.                                                      *)
Fresh == "seed" \notin i_mishap /\ i_boot = I!File /\ i_kept = "none"

Seeded(w, n) ==
  /\ \A v \in I!Fs : i_dst[v] \in {I!NoDir, BakedWhole}
  /\ i_dirty = {}
  /\ w \notin {"exited", "Write"}
  /\ w = "disabled" => "load" \in i_mishap
  /\ w \in {"Stage", "Copy", "Fsync", "Rename"} => i_dst[I!Here] = I!NoDir
  /\ w \in {"Copy", "Fsync"} => i_mounted \/ i_staged = {}
  /\ w = "Copy" =>
       i_tmp[I!Here].there /\ \A m \in 1..(n - 1) : i_tmp[I!Here].file[I!FILES[m]] = Baked
  /\ w \in {"Fsync", "Rename"} => i_tmp[I!Here] = BakedWhole
  /\ w = "Fsync" => i_staged \subseteq {I!FILES[m] : m \in n..4}
  /\ w = "Rename" => i_staged = {}
  /\ w \in {"SyncDir", "Load", "Missing", "Read"} => i_dst[I!Here] = BakedWhole
  /\ w = "serving" => i_ca = Baked

Seeding == Fresh => \A w, n : i_pc = I!At(w, n) => Seeded(w, n)

IdentityInv == I!TypeOK /\ Writing /\ Seeding

-----------------------------------------------------------------------------
LEMMA Names ==
  /\ DOMAIN I!FILES = 1..4 /\ Len(I!FILES) = 4
  /\ \A n \in 1..4 : I!FILES[n] \in I!File
  /\ \A f \in I!File : \E n \in 1..4 : f = I!FILES[n]
  /\ \A n, m \in 1..4 : I!FILES[n] = I!FILES[m] => n = m
  /\ "ca.pem" \in I!File
<1>1. DOMAIN I!FILES = 1..4 /\ Len(I!FILES) = 4
  BY DEF I!FILES
<1>2. I!File = {"ca.pem", "ca.key", "server.pem", "server.key"}
  BY DEF I!File, I!FILES
<1> QED BY <1>1, <1>2 DEF I!File, I!FILES

LEMMA Directories ==
  /\ Baked \in I!Content /\ Baked # "none" /\ Baked # "torn" /\ Baked \notin Cas
  /\ I!NoDir \in I!Dir /\ I!EmptyDir \in I!Dir
  /\ BakedWhole \in I!Dir /\ BakedWhole.there /\ \A f \in I!File : BakedWhole.file[f] = Baked
  /\ \A f \in I!File : I!NoDir.file[f] = "none" /\ I!EmptyDir.file[f] = "none"
  /\ ~I!NoDir.there /\ I!EmptyDir.there
<1>1. Baked \in I!Content /\ Baked # "none" /\ Baked # "torn" /\ Baked \notin Cas /\ "none" \in I!Content
  BY Zenon, KeysAssumption DEF I!IdentityAssumption, I!Content
<1> QED BY Zenon, <1>1 DEF I!NoDir, I!EmptyDir, BakedWhole, I!Holding, I!Dir

LEMMA Apart ==
  /\ \A v, w, n, m : I!At(v, n) = I!At(w, m) => v = w /\ n = m
  /\ \A w : w \in {"off", "Wait", "Seed", "Stage", "Rename", "SyncDir", "Load", "Missing",
                    "Read", "serving", "exited", "disabled"} => I!At(w, 0) \in I!Places
  /\ \A w \in {"Copy", "Fsync", "Write"}, n \in 1..4 : I!At(w, n) \in I!Places
<1>1. \A v, w, n, m : I!At(v, n) = I!At(w, m) => v = w /\ n = m
  BY Zenon DEF I!At
<1> QED BY <1>1, Names DEF I!Places, I!End

(* What Seeding says of a place, before a step and after it.               *)
LEMMA SeedingAt ==
  ASSUME NEW w, NEW n
  PROVE  /\ i_pc = I!At(w, n) /\ IdentityInv /\ Fresh => Seeded(w, n)
         /\ /\ i_pc' = I!At(w, n) /\ UNCHANGED <<i_boot, i_kept>>
            /\ "seed" \in i_mishap => "seed" \in i_mishap'
            /\ Fresh /\ Fresh' => Seeded(w, n)'
            => Seeding'
<1>1. i_pc = I!At(w, n) /\ IdentityInv /\ Fresh => Seeded(w, n)
  BY Zenon DEF IdentityInv, Seeding
<1>2. ASSUME i_pc' = I!At(w, n), UNCHANGED <<i_boot, i_kept>>,
             "seed" \in i_mishap => "seed" \in i_mishap', Fresh /\ Fresh' => Seeded(w, n)'
      PROVE  Seeding'
  <2> SUFFICES ASSUME Fresh', NEW v, NEW m, i_pc' = I!At(v, m) PROVE Seeded(v, m)'
    BY Zenon DEF Seeding
  <2>1. v = w /\ m = n
    BY <1>2 DEF I!At
  <2>2. Fresh
    BY Zenon, <1>2 DEF Fresh
  <2> QED BY Zenon, <1>2, <2>1, <2>2
<1> QED BY Zenon, <1>1, <1>2

(* What a step must keep of an identity on STATE, as NoRekey says.         *)
KeepsKeys ==
  i_pc' # I!At("off", 0) /\ "write" \notin i_mishap =>
    \A f \in I!File : i_dst["state"].file[f] # "none" =>
      i_dst'["state"].file[f] = i_dst["state"].file[f]

LEMMA IdentityInit == ASSUME I!Init PROVE IdentityInv
<1>1. /\ i_pc = I!At("off", 0) /\ i_mounted = FALSE /\ i_dirty = {} /\ i_unnamed = FALSE
      /\ i_boot \subseteq I!File /\ i_kept \in Cas \cup {"none"} /\ i_staged = {} /\ i_mishap = {}
      /\ i_new = "none" /\ i_ca = "none" /\ i_used = {i_kept} \ {"none"}
  BY Zenon, KeysAssumption DEF I!Init, I!IdentityAssumption
<1>2. /\ i_dst = [v \in I!Fs |-> IF v = "state" /\ i_kept # "none" THEN I!Holding(i_kept) ELSE I!NoDir]
      /\ i_tmp = [v \in I!Fs |-> I!NoDir]
  BY Zenon DEF I!Init
<1>3. I!Holding(i_kept) \in I!Dir /\ {i_new, i_ca} \subseteq I!Content
  BY Zenon, <1>1 DEF I!Holding, I!Dir, I!Content
<1>4. i_dst \in [I!Fs -> I!Dir] /\ i_tmp \in [I!Fs -> I!Dir]
  BY Zenon, <1>2, <1>3, Directories
<1>5. I!TypeOK
  <2>1. i_pc \in I!Places /\ i_pc # I!At("serving", 0)
    BY Zenon, <1>1, Apart
  <2> QED BY Zenon, <1>1, <1>3, <1>4, <2>1 DEF I!TypeOK
<1>6. Writing
  BY Zenon, <1>1, Apart DEF Writing
<1>7. Seeding
  <2> SUFFICES ASSUME Fresh PROVE Seeded("off", 0)
    BY Zenon, <1>1, Apart DEF Seeding
  <2>1. i_dst = [v \in I!Fs |-> I!NoDir]
    BY Zenon, <1>2 DEF Fresh
  <2> QED BY Zenon, <1>1, <2>1 DEF Seeded, I!Fs
<1> QED BY Zenon, <1>5, <1>6, <1>7 DEF IdentityInv

LEMMA IdPowerUp == ASSUME IdentityInv, I!PowerUp PROVE IdentityInv' /\ KeepsKeys
<1>1. /\ i_pc = I!At("off", 0) /\ i_pc' = I!At("Wait", 0)
      /\ UNCHANGED <<i_boot, i_kept, i_mounted, i_dst, i_tmp, i_staged, i_dirty, i_unnamed, i_new, i_used, i_ca, i_mishap>>
  BY Zenon DEF I!PowerUp, I!given
<1>2. I!TypeOK'
  BY Zenon, <1>1, Apart DEF IdentityInv, I!TypeOK
<1>3. Writing' /\ KeepsKeys
  BY Zenon, <1>1, Apart DEF Writing, KeepsKeys
<1>4. Seeding'
  <2> SUFFICES ASSUME Fresh PROVE Seeded("Wait", 0)'
    BY Zenon, <1>1, SeedingAt
  <2>1. Seeded("off", 0)
    BY Zenon, <1>1, SeedingAt
  <2> QED BY Zenon, <1>1, <2>1 DEF Seeded, I!Here
<1> QED BY Zenon, <1>2, <1>3, <1>4 DEF IdentityInv

LEMMA IdWait == ASSUME IdentityInv, I!wait_for_state_mount PROVE IdentityInv' /\ KeepsKeys
<1>1. /\ i_pc = I!At("Wait", 0) /\ i_pc' = I!At("Seed", 0)
      /\ UNCHANGED <<i_boot, i_kept, i_mounted, i_dst, i_tmp, i_staged, i_dirty, i_unnamed, i_new, i_used, i_ca, i_mishap>>
  BY Zenon DEF I!wait_for_state_mount, I!given
<1>2. I!TypeOK'
  BY Zenon, <1>1, Apart DEF IdentityInv, I!TypeOK
<1>3. Writing' /\ KeepsKeys
  BY Zenon, <1>1, Apart DEF Writing, KeepsKeys
<1>4. Seeding'
  <2> SUFFICES ASSUME Fresh PROVE Seeded("Seed", 0)'
    BY Zenon, <1>1, SeedingAt
  <2>1. Seeded("Wait", 0)
    BY Zenon, <1>1, SeedingAt
  <2> QED BY Zenon, <1>1, <2>1 DEF Seeded, I!Here
<1> QED BY Zenon, <1>2, <1>3, <1>4 DEF IdentityInv

(* STATE is mounted before the seeding, after it all, or in between, which *)
(* the history notes.                                                      *)
LEMMA IdMount == ASSUME IdentityInv, I!Mount PROVE IdentityInv' /\ KeepsKeys
<1>1. /\ i_mounted' = TRUE
      /\ UNCHANGED <<i_pc, i_boot, i_kept, i_dst, i_tmp, i_staged, i_dirty, i_unnamed, i_new, i_used, i_ca>>
      /\ i_mishap' = i_mishap
           \cup (IF i_pc \in {I!At("Wait", 0), I!At("Seed", 0)} \cup I!End THEN {} ELSE {"seed"})
           \cup (IF I!Writing THEN {"write"} ELSE {})
  BY Zenon DEF I!Mount, I!given
<1>2. I!TypeOK'
  <2>1. i_mishap' \subseteq I!Mishaps
    BY Zenon, <1>1 DEF IdentityInv, I!TypeOK, I!Mishaps
  <2> QED BY Zenon, <1>1, <2>1 DEF IdentityInv, I!TypeOK
<1>3. Writing' /\ KeepsKeys
  <2>1. ASSUME NEW n \in 1..4, i_pc = I!At("Write", n) PROVE "write" \in i_mishap'
    BY Zenon, <1>1, <2>1, Names DEF I!Writing
  <2> QED BY Zenon, <1>1, <2>1 DEF Writing, KeepsKeys
<1>4. Seeding'
  <2> SUFFICES ASSUME Fresh', NEW w, NEW n, i_pc' = I!At(w, n) PROVE Seeded(w, n)'
    BY Zenon DEF Seeding
  <2>1. Fresh /\ i_pc \in {I!At("Wait", 0), I!At("Seed", 0)} \cup I!End
    BY Zenon, <1>1 DEF Fresh
  <2>2. Seeded(w, n)
    BY Zenon, <1>1, <2>1, SeedingAt
  <2>3. w \in {"Wait", "Seed", "serving", "exited", "disabled"}
    BY <1>1, <2>1, Apart DEF I!End
  <2>4. "load" \in i_mishap => "load" \in i_mishap'
    BY Zenon, <1>1
  <2>5. w \notin {"Stage", "Copy", "Fsync", "Rename", "SyncDir", "Load", "Missing", "Read"}
    BY <2>3
  <2> QED BY Zenon, <1>1, <2>2, <2>4, <2>5 DEF Seeded
<1> QED BY Zenon, <1>2, <1>3, <1>4 DEF IdentityInv

(* A power cut loses what is not synced, and the initramfs.                *)
LEMMA IdPowerCut == ASSUME IdentityInv, I!PowerCut PROVE IdentityInv' /\ KeepsKeys
<1> DEFINE lost == {f \in i_dirty : i_dst["state"].file[f] # "none"}
<1>1. /\ i_pc' = I!At("off", 0) /\ i_mounted' = FALSE /\ i_staged' = {} /\ i_dirty' = {} /\ i_unnamed' = FALSE
      /\ i_new' = "none" /\ i_ca' = "none" /\ i_tmp' = [v \in I!Fs |-> I!NoDir]
      /\ i_mishap' = i_mishap \cap {"seed"}
      /\ UNCHANGED <<i_boot, i_kept, i_used>>
  BY Zenon DEF I!PowerCut, I!given
<1>2. PICK d \in I!Survives(i_dst["state"], lost) \cup {I!NoDir} :
        i_dst' = [v \in I!Fs |-> IF v = "state" THEN d ELSE I!NoDir]
  BY Zenon DEF I!PowerCut
<1>3. i_dst["state"] \in I!Dir /\ i_dst["state"].file \in [I!File -> I!Content]
  BY Zenon DEF IdentityInv, I!TypeOK, I!Dir, I!Fs
<1>4. ASSUME d # I!NoDir
      PROVE  \E no \in SUBSET lost, cut \in SUBSET lost :
               d = [i_dst["state"] EXCEPT !.file = [f \in I!File |-> IF f \in no THEN "none"
                      ELSE IF f \in cut THEN "torn" ELSE i_dst["state"].file[f]]]
  BY <1>2, <1>4 DEF I!Survives
<1>5. d \in I!Dir
  <2>1. "none" \in I!Content /\ "torn" \in I!Content
    BY Zenon DEF I!Content
  <2> QED BY <1>3, <1>4, <2>1, Directories DEF I!Dir
<1>6. d = I!NoDir \/ lost # {} \/ d = i_dst["state"]
  BY <1>3, <1>4 DEF I!Dir
<1> HIDE DEF lost
<1>7. i_dst' \in [I!Fs -> I!Dir] /\ i_tmp' \in [I!Fs -> I!Dir]
  BY Zenon, <1>1, <1>2, <1>5, Directories
<1>8. I!TypeOK'
  <2>1. i_pc' \in I!Places /\ i_pc' # I!At("serving", 0) /\ "none" \in I!Content
    BY Zenon, <1>1, Apart DEF I!Content
  <2>2. i_mishap' \subseteq I!Mishaps
    BY Zenon, <1>1 DEF IdentityInv, I!TypeOK
  <2> QED BY Zenon, <1>1, <1>7, <2>1, <2>2 DEF IdentityInv, I!TypeOK
<1>9. Writing' /\ KeepsKeys
  BY Zenon, <1>1, Apart DEF Writing, KeepsKeys
<1>10. Seeding'
  <2>0. "seed" \in i_mishap => "seed" \in i_mishap'
    BY Zenon, <1>1
  <2> SUFFICES ASSUME Fresh PROVE Seeded("off", 0)'
    BY Zenon, <1>1, <2>0, SeedingAt
  <2>1. PICK w, n : i_pc = I!At(w, n)
    BY DEF IdentityInv, I!TypeOK, I!Places, I!End
  <2>2. i_dst["state"] \in {I!NoDir, BakedWhole} /\ i_dirty = {}
    BY Zenon, <2>1, SeedingAt DEF Seeded, I!Fs
  <2>3. lost = {}
    BY Zenon, <2>2 DEF lost
  <2>4. \A v \in I!Fs : i_dst'[v] \in {I!NoDir, BakedWhole}
    BY Zenon, <1>2, <1>6, <2>2, <2>3
  <2> QED BY Zenon, <1>1, <2>4 DEF Seeded
<1> QED BY Zenon, <1>8, <1>9, <1>10 DEF IdentityInv

(* Seeding that fails is noted, and the load goes on without it.           *)
LEMMA IdSeedFails ==
  ASSUME IdentityInv, I!SeedFails, UNCHANGED <<i_dst, i_dirty, i_unnamed, i_new, i_used>>
  PROVE  IdentityInv' /\ KeepsKeys
<1>1. /\ i_pc' = I!At("Load", 0) /\ UNCHANGED <<i_boot, i_kept, i_mounted, i_ca>>
      /\ i_mishap' = i_mishap \cup {"seed"} /\ i_staged' = {}
      /\ i_tmp' = [v \in I!Fs |-> I!NoDir]
  BY Zenon DEF I!SeedFails, I!Fail, I!Moves, I!given
<1>2. I!TypeOK'
  <2>1. i_tmp' \in [I!Fs -> I!Dir] /\ i_mishap' \subseteq I!Mishaps
    BY Zenon, <1>1, Directories DEF IdentityInv, I!TypeOK, I!Mishaps
  <2>2. i_pc' \in I!Places /\ i_pc' # I!At("serving", 0)
    BY Zenon, <1>1, Apart
  <2> QED BY Zenon, <1>1, <2>1, <2>2 DEF IdentityInv, I!TypeOK
<1>3. Writing' /\ Seeding' /\ KeepsKeys
  BY Zenon, <1>1, Apart DEF Writing, Seeding, Fresh, KeepsKeys
<1> QED BY Zenon, <1>2, <1>3 DEF IdentityInv

LEMMA IdSeed == ASSUME IdentityInv, I!Seed PROVE IdentityInv' /\ KeepsKeys
<1>1. i_pc = I!At("Seed", 0) /\ UNCHANGED <<i_dst, i_dirty, i_unnamed, i_new, i_used>>
  BY Zenon DEF I!Seed
<1>2. CASE I!SeedFails
  BY Zenon, <1>1, <1>2, IdSeedFails
<1>3. CASE /\ IF i_dst[I!Here].there \/ i_boot # I!File
              THEN i_pc' = I!At("Load", 0) ELSE i_pc' = I!At("Stage", 0)
           /\ UNCHANGED <<i_boot, i_kept, i_mounted, i_ca, i_mishap, i_tmp, i_staged>>
  <2>1. I!TypeOK'
    <3>1. i_pc' \in I!Places /\ i_pc' # I!At("serving", 0)
      BY Zenon, <1>3, Apart
    <3> QED BY Zenon, <1>1, <1>3, <3>1 DEF IdentityInv, I!TypeOK
  <2>2. Writing' /\ KeepsKeys
    BY <1>1, <1>3, Apart DEF Writing, KeepsKeys
  <2>3. Seeding'
    <3>1. I!Here \in I!Fs /\ I!Here' = I!Here
      BY Zenon, <1>3 DEF I!Here, I!Fs
    <3> SUFFICES ASSUME Fresh PROVE Seeding'
      BY Zenon, <1>3 DEF Seeding, Fresh
    <3>2. (\A v \in I!Fs : i_dst[v] \in {I!NoDir, BakedWhole}) /\ i_dirty = {}
      BY Zenon, <1>1, SeedingAt DEF Seeded
    <3>3. CASE i_dst[I!Here] = BakedWhole
      <4>1. i_pc' = I!At("Load", 0)
        BY Zenon, <1>3, <3>3, Directories
      <4>2. Seeded("Load", 0)'
        BY Zenon, <1>1, <1>3, <3>1, <3>2, <3>3 DEF Seeded
      <4> QED BY Zenon, <1>3, <4>1, <4>2, SeedingAt
    <3>4. CASE i_dst[I!Here] = I!NoDir
      <4>1. i_pc' = I!At("Stage", 0)
        BY Zenon, <1>3, <3>4, Directories DEF Fresh
      <4>2. Seeded("Stage", 0)'
        BY Zenon, <1>1, <1>3, <3>1, <3>2, <3>4 DEF Seeded
      <4> QED BY Zenon, <1>3, <4>1, <4>2, SeedingAt
    <3> QED BY Zenon, <3>1, <3>2, <3>3, <3>4
  <2> QED BY Zenon, <2>1, <2>2, <2>3 DEF IdentityInv
<1> QED BY Zenon, <1>2, <1>3 DEF I!Seed, I!Goto, I!Moves, I!given

LEMMA IdStage == ASSUME IdentityInv, I!Stage PROVE IdentityInv' /\ KeepsKeys
<1>1. i_pc = I!At("Stage", 0) /\ UNCHANGED <<i_dst, i_dirty, i_unnamed, i_new, i_used>>
  BY Zenon DEF I!Stage
<1>2. CASE I!SeedFails
  BY Zenon, <1>1, <1>2, IdSeedFails
<1>3. CASE /\ i_tmp' = [i_tmp EXCEPT ![I!Here] = I!EmptyDir] /\ i_staged' = {}
           /\ i_pc' = I!At("Copy", 1) /\ UNCHANGED <<i_boot, i_kept, i_mounted, i_ca, i_mishap>>
  <2>1. i_tmp' \in [I!Fs -> I!Dir] /\ i_tmp'[I!Here] = I!EmptyDir /\ I!Here' = I!Here
    BY Zenon, <1>3, Directories DEF IdentityInv, I!TypeOK, I!Here, I!Fs
  <2>2. I!TypeOK'
    <3>1. i_pc' \in I!Places /\ i_pc' # I!At("serving", 0)
      BY <1>3, Apart
    <3> QED BY Zenon, <1>1, <1>3, <2>1, <3>1 DEF IdentityInv, I!TypeOK
  <2>3. Writing' /\ KeepsKeys
    BY Zenon, <1>1, <1>3, Apart DEF Writing, KeepsKeys
  <2>4. Seeding'
    <3> SUFFICES ASSUME Fresh PROVE Seeded("Copy", 1)'
      BY Zenon, <1>3, SeedingAt
    <3>1. Seeded("Stage", 0)
      BY Zenon, <1>1, SeedingAt
    <3> QED BY <1>1, <1>3, <2>1, <3>1, Directories DEF Seeded
  <2> QED BY Zenon, <2>2, <2>3, <2>4 DEF IdentityInv
<1> QED BY Zenon, <1>2, <1>3 DEF I!Stage, I!Goto, I!Moves, I!given

LEMMA IdCopy ==
  ASSUME IdentityInv, NEW n \in 1..4, I!Copy(n) PROVE IdentityInv' /\ KeepsKeys
<1>1. i_pc = I!At("Copy", n) /\ UNCHANGED <<i_dst, i_dirty, i_unnamed, i_new, i_used>>
  BY Zenon DEF I!Copy
<1>3. CASE I!SeedFails
  BY Zenon, <1>1, <1>3, IdSeedFails
<1>4. CASE /\ i_tmp' = [i_tmp EXCEPT ![I!Here].file[I!FILES[n]] = Baked]
           /\ i_staged' = i_staged \cup I!OnState(I!FILES[n])
           /\ i_pc' = IF n < 4 THEN I!At("Copy", n + 1) ELSE I!At("Fsync", 1)
           /\ UNCHANGED <<i_boot, i_kept, i_mounted, i_ca, i_mishap>>
  <2>0. I!Here \in I!Fs /\ I!Here' = I!Here
    BY Zenon, <1>4 DEF I!Here, I!Fs
  <2>1. i_tmp[I!Here] \in I!Dir /\ I!FILES[n] \in I!File
    BY Zenon, <2>0, Names DEF IdentityInv, I!TypeOK
  <2>2. /\ i_tmp' \in [I!Fs -> I!Dir] /\ i_tmp'[I!Here].there = i_tmp[I!Here].there
        /\ \A f \in I!File : i_tmp'[I!Here].file[f] =
             IF f = I!FILES[n] THEN Baked ELSE i_tmp[I!Here].file[f]
    BY Zenon, <2>0, <1>4, <2>1, Directories DEF IdentityInv, I!TypeOK, I!Dir
  <2>3. I!TypeOK'
    <3>1. i_pc' \in I!Places /\ i_pc' # I!At("serving", 0)
      BY <1>4, Apart
    <3>2. i_staged' \subseteq I!File
      BY Zenon, <1>4, <2>1 DEF IdentityInv, I!TypeOK, I!OnState
    <3> QED BY Zenon, <1>1, <1>4, <2>2, <3>1, <3>2 DEF IdentityInv, I!TypeOK
  <2>4. Writing' /\ KeepsKeys
    BY <1>1, <1>4, Apart DEF Writing, KeepsKeys
  <2>5. Seeding'
    <3> SUFFICES ASSUME Fresh PROVE Seeding'
      BY Zenon, <1>4 DEF Seeding, Fresh
    <3>0. Seeded("Copy", n)
      BY Zenon, <1>1, SeedingAt
    <3>1. /\ \A v \in I!Fs : i_dst[v] \in {I!NoDir, BakedWhole}
          /\ i_dirty = {} /\ (i_mounted \/ i_staged = {})
          /\ i_dst[I!Here] = I!NoDir /\ i_tmp[I!Here].there
          /\ \A m \in 1..(n - 1) : i_tmp[I!Here].file[I!FILES[m]] = Baked
      BY Zenon, <3>0 DEF Seeded
    <3>2. \A m \in 1..n : i_tmp'[I!Here].file[I!FILES[m]] = Baked
      BY <2>2, <3>1, Names
    <3>3. i_mounted \/ i_staged' = {}
      BY Zenon, <1>4, <3>1 DEF I!OnState
    <3>4. CASE n < 4
      <4>1. n + 1 \in 1..4 /\ (n + 1) - 1 = n /\ i_pc' = I!At("Copy", n + 1)
        BY <1>4, <3>4
      <4>2. Seeded("Copy", n + 1)'
        BY Zenon, <1>1, <1>4, <2>0, <2>2, <3>1, <3>2, <3>3, <4>1 DEF Seeded
      <4> QED BY Zenon, <1>4, <4>1, <4>2, SeedingAt
    <3>5. CASE n = 4
      <4>1. i_tmp'[I!Here] = BakedWhole
        <5>1. \A f \in I!File : i_tmp'[I!Here].file[f] = Baked
          BY <3>2, <3>5, Names
        <5>2. i_tmp'[I!Here] \in I!Dir /\ i_tmp'[I!Here].there
          BY Zenon, <2>0, <2>2, <3>1
        <5> QED BY Zenon, <5>1, <5>2 DEF I!Dir, BakedWhole, I!Holding
      <4>2. i_pc' = I!At("Fsync", 1) /\ i_staged' \subseteq {I!FILES[m] : m \in 1..4}
        BY <1>4, <2>3, <3>5, Names DEF I!TypeOK
      <4>3. Seeded("Fsync", 1)'
        BY Zenon, <1>1, <1>4, <2>0, <3>1, <3>3, <4>1, <4>2 DEF Seeded
      <4> QED BY Zenon, <1>4, <4>2, <4>3, SeedingAt
    <3> QED BY <3>4, <3>5
  <2> QED BY Zenon, <2>3, <2>4, <2>5 DEF IdentityInv
<1> QED BY Zenon, <1>3, <1>4, Names DEF I!Copy, I!Goto, I!Moves, I!After, I!given

LEMMA IdFsync ==
  ASSUME IdentityInv, NEW n \in 1..4, I!Fsync(n) PROVE IdentityInv' /\ KeepsKeys
<1>1. i_pc = I!At("Fsync", n) /\ UNCHANGED <<i_dst, i_dirty, i_unnamed, i_new, i_used>>
  BY Zenon DEF I!Fsync
<1>2. CASE I!SeedFails
  BY Zenon, <1>1, <1>2, IdSeedFails
<1>3. CASE /\ i_staged' = i_staged \ I!OnState(I!FILES[n])
           /\ i_pc' = IF n < 4 THEN I!At("Fsync", n + 1) ELSE I!At("Rename", 0)
           /\ UNCHANGED <<i_boot, i_kept, i_mounted, i_ca, i_mishap, i_tmp>>
  <2>0. I!Here \in I!Fs /\ I!Here' = I!Here
    BY Zenon, <1>3 DEF I!Here, I!Fs
  <2>1. I!TypeOK'
    <3>1. i_pc' \in I!Places /\ i_pc' # I!At("serving", 0)
      BY <1>3, Apart
    <3>2. i_staged' \subseteq I!File
      BY Zenon, <1>3 DEF IdentityInv, I!TypeOK
    <3> QED BY Zenon, <1>1, <1>3, <3>1, <3>2 DEF IdentityInv, I!TypeOK
  <2>2. Writing' /\ KeepsKeys
    BY <1>1, <1>3, Apart DEF Writing, KeepsKeys
  <2>3. Seeding'
    <3> SUFFICES ASSUME Fresh PROVE Seeding'
      BY Zenon, <1>3 DEF Seeding, Fresh
    <3>0. Seeded("Fsync", n)
      BY Zenon, <1>1, SeedingAt
    <3>1. /\ \A v \in I!Fs : i_dst[v] \in {I!NoDir, BakedWhole}
          /\ i_dirty = {} /\ (i_mounted \/ i_staged = {})
          /\ i_dst[I!Here] = I!NoDir /\ i_tmp[I!Here] = BakedWhole
          /\ i_staged \subseteq {I!FILES[m] : m \in n..4}
      BY Zenon, <3>0 DEF Seeded
    <3>2. i_staged' \subseteq i_staged \ {I!FILES[n]} /\ (i_mounted \/ i_staged' = {})
      BY Zenon, <1>3, <3>1 DEF I!OnState
    <3>3. i_staged' \subseteq {I!FILES[m] : m \in (n + 1)..4}
      BY <3>1, <3>2
    <3>4. CASE n < 4
      <4>1. n + 1 \in 1..4 /\ i_pc' = I!At("Fsync", n + 1)
        BY <1>3, <3>4
      <4>2. Seeded("Fsync", n + 1)'
        BY Zenon, <1>1, <1>3, <2>0, <3>1, <3>2, <3>3 DEF Seeded
      <4> QED BY Zenon, <1>3, <4>1, <4>2, SeedingAt
    <3>5. CASE n = 4
      <4>1. i_pc' = I!At("Rename", 0) /\ i_staged' = {}
        BY <1>3, <3>3, <3>5
      <4>2. Seeded("Rename", 0)'
        BY Zenon, <1>1, <1>3, <2>0, <3>1, <4>1 DEF Seeded
      <4> QED BY Zenon, <1>3, <4>1, <4>2, SeedingAt
    <3> QED BY <3>4, <3>5
  <2> QED BY Zenon, <2>1, <2>2, <2>3 DEF IdentityInv
<1> QED BY Zenon, <1>2, <1>3, Names DEF I!Fsync, I!Goto, I!Moves, I!After, I!given

LEMMA IdRename == ASSUME IdentityInv, I!Rename PROVE IdentityInv' /\ KeepsKeys
<1>1. i_pc = I!At("Rename", 0) /\ UNCHANGED <<i_new, i_used>>
  BY Zenon DEF I!Rename
<1>3. CASE I!SeedFails /\ UNCHANGED <<i_dst, i_dirty, i_unnamed>>
  BY Zenon, <1>1, <1>3, IdSeedFails
<1>4. CASE /\ i_tmp[I!Here].there /\ i_dst[I!Here] \in {I!NoDir, I!EmptyDir}
           /\ i_dst' = [i_dst EXCEPT ![I!Here] = i_tmp[I!Here]]
           /\ i_tmp' = [i_tmp EXCEPT ![I!Here] = I!NoDir]
           /\ i_dirty' = (IF i_mounted THEN i_staged ELSE i_dirty) /\ i_staged' = {}
           /\ i_unnamed' = (i_unnamed \/ i_mounted) /\ i_pc' = I!At("SyncDir", 0)
           /\ UNCHANGED <<i_boot, i_kept, i_mounted, i_ca, i_mishap>>
  <2>0. I!Here \in I!Fs /\ I!Here' = I!Here
    BY Zenon, <1>4 DEF I!Here, I!Fs
  <2>1. i_dst' \in [I!Fs -> I!Dir] /\ i_tmp' \in [I!Fs -> I!Dir]
    BY Zenon, <2>0, <1>4, Directories DEF IdentityInv, I!TypeOK
  <2>2. i_unnamed' \in BOOLEAN /\ i_dirty' \subseteq I!File
    BY Zenon, <1>4 DEF IdentityInv, I!TypeOK
  <2>3. I!TypeOK'
    <3>1. i_pc' \in I!Places /\ i_pc' # I!At("serving", 0)
      BY Zenon, <1>4, Apart
    <3> QED BY Zenon, <1>1, <1>4, <2>1, <2>2, <3>1 DEF IdentityInv, I!TypeOK
  <2>4. KeepsKeys
    <3>1. ASSUME NEW f \in I!File, i_dst["state"].file[f] # "none"
          PROVE  i_dst'["state"] = i_dst["state"]
      BY <2>0, <1>4, <3>1, Directories DEF IdentityInv, I!TypeOK, I!Fs
    <3> QED BY Zenon, <3>1 DEF KeepsKeys
  <2>5. Writing'
    BY Zenon, <1>4, Apart DEF Writing
  <2>6. Seeding'
    <3> SUFFICES ASSUME Fresh PROVE Seeded("SyncDir", 0)'
      BY Zenon, <1>4, SeedingAt
    <3>0. Seeded("Rename", 0)
      BY Zenon, <1>1, SeedingAt
    <3>1. /\ \A v \in I!Fs : i_dst[v] \in {I!NoDir, BakedWhole}
          /\ i_dirty = {} /\ i_staged = {} /\ i_tmp[I!Here] = BakedWhole
      BY Zenon, <3>0 DEF Seeded
    <3>2. i_dst'[I!Here] = BakedWhole /\ \A v \in I!Fs : i_dst'[v] \in {I!NoDir, BakedWhole}
      BY Zenon, <2>0, <1>4, <3>1 DEF IdentityInv, I!TypeOK
    <3>3. i_dirty' = {}
      BY Zenon, <1>4, <3>1
    <3> QED BY Zenon, <2>0, <3>2, <3>3 DEF Seeded
  <2> QED BY Zenon, <2>3, <2>4, <2>5, <2>6 DEF IdentityInv
<1> QED BY Zenon, <1>3, <1>4 DEF I!Rename, I!Goto, I!Moves, I!given

LEMMA IdSyncDir == ASSUME IdentityInv, I!SyncDir PROVE IdentityInv' /\ KeepsKeys
<1>1. /\ i_pc = I!At("SyncDir", 0) /\ i_pc' = I!At("Load", 0)
      /\ UNCHANGED <<i_boot, i_kept, i_mounted, i_dst, i_tmp, i_staged, i_dirty, i_new, i_used, i_ca, i_mishap>>
  BY Zenon DEF I!SyncDir, I!Goto, I!Moves, I!given
<1>2. i_unnamed' \in BOOLEAN
  BY Zenon DEF I!SyncDir, IdentityInv, I!TypeOK
<1>3. I!TypeOK'
  BY Zenon, <1>1, <1>2, Apart DEF IdentityInv, I!TypeOK
<1>4. Writing' /\ KeepsKeys
  BY Zenon, <1>1, Apart DEF Writing, KeepsKeys
<1>5. I!Here' = I!Here
  BY Zenon, <1>1 DEF I!Here
<1>6. Seeding'
  <2> SUFFICES ASSUME Fresh PROVE Seeded("Load", 0)'
    BY Zenon, <1>1, SeedingAt
  <2>1. Seeded("SyncDir", 0)
    BY Zenon, <1>1, SeedingAt
  <2> QED BY Zenon, <1>1, <1>5, <2>1 DEF Seeded
<1> QED BY Zenon, <1>3, <1>4, <1>6 DEF IdentityInv

(* Loading that fails is noted, and the API is disabled.                   *)
LEMMA LoadFailed ==
  ASSUME IdentityInv, I!LoadFails, UNCHANGED <<i_dst, i_tmp, i_staged, i_dirty, i_new, i_used>>,
         i_unnamed' \in BOOLEAN
  PROVE  IdentityInv' /\ KeepsKeys
<1>1. /\ i_pc' = I!At("disabled", 0) /\ UNCHANGED <<i_boot, i_kept, i_mounted, i_ca>>
      /\ i_mishap' = i_mishap \cup {"load"}
  BY Zenon DEF I!LoadFails, I!Fail, I!Moves, I!given
<1>2. I!TypeOK'
  <2>1. i_mishap' \subseteq I!Mishaps
    BY Zenon, <1>1 DEF IdentityInv, I!TypeOK, I!Mishaps
  <2>2. i_pc' \in I!Places /\ i_pc' # I!At("serving", 0)
    BY Zenon, <1>1, Apart
  <2> QED BY Zenon, <1>1, <2>1, <2>2 DEF IdentityInv, I!TypeOK
<1>3. Writing' /\ KeepsKeys
  BY Zenon, <1>1, Apart DEF Writing, KeepsKeys
<1>4. Seeding'
  <2> SUFFICES ASSUME Fresh PROVE Seeded("disabled", 0)'
    BY Zenon, <1>1, SeedingAt
  <2>1. PICK w, n : i_pc = I!At(w, n)
    BY DEF IdentityInv, I!TypeOK, I!Places, I!End
  <2>2. (\A v \in I!Fs : i_dst[v] \in {I!NoDir, BakedWhole}) /\ i_dirty = {}
    BY Zenon, <2>1, SeedingAt DEF Seeded
  <2> QED BY Zenon, <1>1, <2>2 DEF Seeded
<1> QED BY Zenon, <1>2, <1>3, <1>4 DEF IdentityInv

LEMMA IdLoad == ASSUME IdentityInv, I!Load PROVE IdentityInv' /\ KeepsKeys
<1>1. /\ i_pc = I!At("Load", 0)
      /\ UNCHANGED <<i_boot, i_kept, i_mounted, i_tmp, i_staged, i_dirty, i_new, i_used, i_ca>>
  BY Zenon DEF I!Load, I!LoadFails, I!Fail, I!Goto, I!Moves, I!given
<1>2. I!Here \in I!Fs /\ I!Here' = I!Here
  BY Zenon, <1>1 DEF I!Here, I!Fs
<1>3. CASE I!LoadFails /\ UNCHANGED <<i_dst, i_unnamed>>
  BY Zenon, <1>1, <1>3, LoadFailed DEF IdentityInv, I!TypeOK
<1>4. CASE /\ \/ i_pc' = I!At("Missing", 0) /\ UNCHANGED i_mishap
              \/ i_pc' = I!At("disabled", 0) /\ i_mishap' = i_mishap \cup {"load"}
           /\ i_dst' = [i_dst EXCEPT ![I!Here].there = TRUE] /\ i_unnamed' \in BOOLEAN
  <2>1. /\ i_dst' \in [I!Fs -> I!Dir] /\ \A v \in I!Fs : i_dst'[v].file = i_dst[v].file
        /\ i_dst[I!Here] = BakedWhole => i_dst' = i_dst
    <3>1. i_dst \in [I!Fs -> I!Dir] /\ i_dst[I!Here] \in I!Dir
      BY Zenon, <1>2 DEF IdentityInv, I!TypeOK
    <3>2. i_dst' = [i_dst EXCEPT ![I!Here] = [i_dst[I!Here] EXCEPT !.there = TRUE]]
      BY Zenon, <1>4
    <3>3. [i_dst[I!Here] EXCEPT !.there = TRUE] \in I!Dir
      BY Zenon, <3>1 DEF I!Dir
    <3>4. [i_dst[I!Here] EXCEPT !.there = TRUE].file = i_dst[I!Here].file
      BY Zenon, <3>1 DEF I!Dir
    <3>5. i_dst[I!Here] = BakedWhole => [i_dst[I!Here] EXCEPT !.there = TRUE] = BakedWhole
      <4>1. BakedWhole \in I!Dir /\ BakedWhole.there
        BY Zenon, Directories
      <4> QED BY Zenon, <4>1 DEF I!Dir
    <3> QED BY Zenon, <1>2, <3>1, <3>2, <3>3, <3>4, <3>5
  <2>2. I!TypeOK'
    <3>1. i_pc' \in I!Places /\ i_pc' # I!At("serving", 0)
      BY Zenon, <1>4, Apart
    <3>2. i_mishap' \subseteq I!Mishaps
      BY Zenon, <1>4 DEF IdentityInv, I!TypeOK, I!Mishaps
    <3> QED BY Zenon, <1>1, <1>4, <2>1, <3>1, <3>2 DEF IdentityInv, I!TypeOK
  <2>3. Writing' /\ KeepsKeys
    BY <1>4, <2>1, Apart DEF Writing, KeepsKeys, I!Fs
  <2>4. Seeding'
    <3>0. "seed" \in i_mishap => "seed" \in i_mishap'
      BY Zenon, <1>4
    <3> SUFFICES ASSUME Fresh PROVE Seeding'
      BY Zenon, <1>1, <3>0 DEF Seeding, Fresh
    <3>1. Seeded("Load", 0)
      BY Zenon, <1>1, SeedingAt
    <3>2. i_dst' = i_dst
      BY Zenon, <2>1, <3>1 DEF Seeded
    <3>3. CASE i_pc' = I!At("Missing", 0)
      <4>1. Seeded("Missing", 0)'
        BY Zenon, <1>1, <1>2, <3>1, <3>2 DEF Seeded
      <4> QED BY Zenon, <1>1, <3>0, <3>3, <4>1, SeedingAt
    <3>4. CASE i_pc' = I!At("disabled", 0) /\ i_mishap' = i_mishap \cup {"load"}
      <4>1. Seeded("disabled", 0)'
        BY Zenon, <1>1, <1>2, <3>1, <3>2, <3>4 DEF Seeded
      <4> QED BY Zenon, <1>1, <3>0, <3>4, <4>1, SeedingAt
    <3> QED BY Zenon, <1>4, <3>3, <3>4
  <2> QED BY Zenon, <2>2, <2>3, <2>4 DEF IdentityInv
<1>5. (i_unnamed \/ (i_mounted /\ ~i_dst["state"].there)) \in BOOLEAN
  OBVIOUS
<1> QED BY Zenon, <1>3, <1>4, <1>5 DEF I!Load, I!LoadFails, I!Fail, I!Goto, I!Moves

LEMMA IdMissing == ASSUME IdentityInv, I!Missing PROVE IdentityInv' /\ KeepsKeys
<1>1. /\ i_pc = I!At("Missing", 0)
      /\ UNCHANGED <<i_boot, i_kept, i_mounted, i_dst, i_tmp, i_staged, i_dirty, i_unnamed, i_ca, i_mishap>>
  BY Zenon DEF I!Missing, I!Generate, I!Goto, I!Moves, I!given
<1>2. \/ I!missing = {} /\ i_pc' = I!At("Read", 0) /\ UNCHANGED <<i_new, i_used>>
      \/ I!missing \notin {{}, I!File} /\ i_pc' = I!At("disabled", 0) /\ UNCHANGED <<i_new, i_used>>
      \/ /\ I!missing = I!File /\ i_pc' = I!At("Write", 1)
         /\ \E c \in Cas \ i_used : i_new' = c /\ i_used' = i_used \cup {c}
  BY Zenon DEF I!Missing, I!Generate, I!Goto, I!Moves
<1>3. I!Here \in I!Fs /\ I!Here' = I!Here
  BY Zenon, <1>1 DEF I!Here, I!Fs
<1>4. I!TypeOK'
  <2>1. i_pc' \in I!Places /\ i_pc' # I!At("serving", 0)
    BY <1>2, Apart
  <2>2. i_new' \in I!Content /\ i_used' \subseteq Cas
    BY Zenon, <1>2 DEF IdentityInv, I!TypeOK, I!Content
  <2> QED BY Zenon, <1>1, <2>1, <2>2 DEF IdentityInv, I!TypeOK
<1>5. KeepsKeys
  BY Zenon, <1>1 DEF KeepsKeys
<1>6. Writing'
  <2>1. ASSUME i_pc' = I!At("Write", 1) PROVE \A m \in 1..4 : i_dst[I!Here].file[I!FILES[m]] = "none"
    BY <1>2, <2>1, Apart, Names DEF I!missing
  <2>2. \A n \in 1..4 : i_pc' = I!At("Write", n) => n = 1
    BY <1>2, Apart
  <2> QED BY Zenon, <1>1, <1>3, <2>1, <2>2 DEF Writing
<1>7. Seeding'
  <2> SUFFICES ASSUME Fresh PROVE Seeding'
    BY Zenon, <1>1 DEF Seeding, Fresh
  <2>0. Seeded("Missing", 0)
    BY Zenon, <1>1, SeedingAt
  <2>1. i_dst[I!Here] = BakedWhole
    BY Zenon, <2>0 DEF Seeded
  <2>2. I!missing = {}
    BY Zenon, <2>1, Directories DEF I!missing
  <2>3. i_pc' = I!At("Read", 0)
    BY Zenon, <1>2, <2>2, Names
  <2>4. Seeded("Read", 0)'
    BY Zenon, <1>1, <1>3, <2>0 DEF Seeded
  <2> QED BY Zenon, <1>1, <2>3, <2>4, SeedingAt
<1> QED BY Zenon, <1>4, <1>5, <1>6, <1>7 DEF IdentityInv

(* The API's authority is that of the file it reads.                       *)
LEMMA Served ==
  ASSUME NEW file \in [I!File -> I!Content], I!Serve(file)
  PROVE  /\ i_pc' \in I!Places /\ i_ca' \in I!Content /\ i_ca' = file["ca.pem"]
         /\ i_pc' = I!At("serving", 0) => i_ca' \in Cas \cup {Baked}
         /\ i_pc' \in {I!At("serving", 0), I!At("exited", 0)}
         /\ (\A f \in I!File : file[f] = Baked) => i_pc' = I!At("serving", 0)
         /\ UNCHANGED <<i_boot, i_kept, i_mounted, i_mishap>>
BY Apart, Names DEF I!Serve, I!given

LEMMA IdRead == ASSUME IdentityInv, I!Read PROVE IdentityInv' /\ KeepsKeys
<1>1. /\ i_pc = I!At("Read", 0)
      /\ UNCHANGED <<i_dst, i_tmp, i_staged, i_dirty, i_unnamed, i_new, i_used>>
  BY Zenon DEF I!Read
<1>2. CASE I!LoadFails
  BY Zenon, <1>1, <1>2, LoadFailed DEF IdentityInv, I!TypeOK
<1>3. CASE I!missing = {} /\ I!Serve(i_dst[I!Here].file)
  <2>1. UNCHANGED <<i_boot, i_kept, i_mounted, i_mishap>>
    BY Zenon, <1>3 DEF I!Serve, I!given
  <2>2. I!Here \in I!Fs /\ I!Here' = I!Here
    BY Zenon, <2>1 DEF I!Here, I!Fs
  <2>3. i_dst[I!Here].file \in [I!File -> I!Content]
    BY Zenon, <2>2 DEF IdentityInv, I!TypeOK, I!Dir
  <2>4. /\ i_pc' \in I!Places /\ i_ca' \in I!Content
        /\ i_pc' = I!At("serving", 0) => i_ca' \in Cas \cup {Baked}
        /\ \A n \in 1..4 : i_pc' # I!At("Write", n)
    BY <1>3, <2>3, Served, Apart
  <2>5. I!TypeOK' /\ Writing' /\ KeepsKeys
    BY Zenon, <1>1, <2>1, <2>4 DEF IdentityInv, I!TypeOK, Writing, KeepsKeys
  <2>6. Seeding'
    <3> SUFFICES ASSUME Fresh PROVE Seeding'
      BY Zenon, <2>1 DEF Seeding, Fresh
    <3>0. Seeded("Read", 0)
      BY Zenon, <1>1, SeedingAt
    <3>1. i_dst[I!Here] = BakedWhole
      BY Zenon, <3>0 DEF Seeded
    <3>2. i_pc' = I!At("serving", 0) /\ i_ca' = Baked
      BY <1>3, <2>3, <3>1, Directories, Names, Served
    <3>3. Seeded("serving", 0)'
      BY Zenon, <1>1, <2>1, <2>2, <3>0, <3>2 DEF Seeded
    <3> QED BY Zenon, <2>1, <3>2, <3>3, SeedingAt
  <2> QED BY Zenon, <2>5, <2>6 DEF IdentityInv
<1> QED BY Zenon, <1>2, <1>3 DEF I!Read

(* A file may be written before the step fails, and only a file that was   *)
(* missing.                                                                *)
LEMMA IdWrite ==
  ASSUME IdentityInv, NEW n \in 1..4, I!Write(n) PROVE IdentityInv' /\ KeepsKeys
<1>1. i_pc = I!At("Write", n) /\ UNCHANGED <<i_boot, i_kept, i_mounted, i_tmp, i_staged, i_unnamed, i_new, i_used>>
  BY Zenon DEF I!Write, I!LoadFails, I!Fail, I!Goto, I!Moves, I!Serve, I!given
<1>2. I!Here \in I!Fs /\ I!Here' = I!Here
  BY Zenon, <1>1 DEF I!Here, I!Fs
<1>3. ~Fresh
  BY Zenon, <1>1, SeedingAt DEF Seeded
<1>4. CASE I!LoadFails /\ UNCHANGED <<i_dst, i_dirty>>
  BY Zenon, <1>1, <1>4, LoadFailed DEF IdentityInv, I!TypeOK
<1>5. ASSUME NEW c \in {"torn", i_new},
             i_dst' = [i_dst EXCEPT ![I!Here].file[I!FILES[n]] = c],
             i_dirty' = i_dirty \cup I!OnState(I!FILES[n]),
             \/ I!LoadFails
             \/ /\ c = i_new
                /\ IF n < 4 THEN I!Goto(I!At("Write", n + 1)) ELSE I!Serve([f \in I!File |-> i_new])
      PROVE  IdentityInv' /\ KeepsKeys
  <2>1. i_dst[I!Here] \in I!Dir /\ I!FILES[n] \in I!File /\ c \in I!Content /\ i_new \in I!Content
    BY Zenon, <1>2, <1>5, Names DEF IdentityInv, I!TypeOK, I!Content
  <2>2. /\ i_dst' \in [I!Fs -> I!Dir]
        /\ \A v \in I!Fs, f \in I!File : i_dst'[v].file[f] =
             IF v = I!Here /\ f = I!FILES[n] THEN c ELSE i_dst[v].file[f]
    BY Zenon, <1>2, <1>5, <2>1 DEF IdentityInv, I!TypeOK, I!Dir
  <2>3. /\ i_pc' \in I!Places /\ i_ca' \in I!Content
        /\ i_pc' = I!At("serving", 0) => i_ca' \in Cas \cup {Baked}
        /\ \A m \in 1..4 : i_pc' = I!At("Write", m) => n < 4 /\ m = n + 1
        /\ i_mishap' \in {i_mishap, i_mishap \cup {"load"}}
    <3>1. CASE I!LoadFails
      BY <3>1, Apart DEF I!LoadFails, I!Fail, I!Moves, IdentityInv, I!TypeOK
    <3>2. CASE n < 4 /\ I!Goto(I!At("Write", n + 1))
      BY <3>2, Apart DEF I!Goto, I!Moves, IdentityInv, I!TypeOK
    <3>3. CASE I!Serve([f \in I!File |-> i_new])
      <4>1. [f \in I!File |-> i_new] \in [I!File -> I!Content]
        BY Zenon, <2>1
      <4> QED BY <3>3, <4>1, Served, Apart
    <3> QED BY <1>5, <3>1, <3>2, <3>3
  <2>4. i_dirty' \subseteq I!File /\ i_mishap' \subseteq I!Mishaps
    BY Zenon, <1>5, <2>1, <2>3 DEF IdentityInv, I!TypeOK, I!OnState, I!Mishaps
  <2>5. I!TypeOK'
    BY Zenon, <1>1, <2>2, <2>3, <2>4 DEF IdentityInv, I!TypeOK
  <2>6. "write" \notin i_mishap => \A m \in n..4 : i_dst[I!Here].file[I!FILES[m]] = "none"
    BY Zenon, <1>1 DEF IdentityInv, Writing
  <2>7. KeepsKeys
    BY <2>2, <2>6 DEF KeepsKeys, I!Fs
  <2>8. Writing'
    <3>1. ASSUME "write" \notin i_mishap, NEW k \in (n + 1)..4
          PROVE  i_dst'[I!Here].file[I!FILES[k]] = "none"
      BY <1>2, <2>2, <2>6, <3>1, Names
    <3>2. "write" \in i_mishap => "write" \in i_mishap'
      BY Zenon, <2>3
    <3> QED BY Zenon, <1>2, <2>3, <3>1, <3>2 DEF Writing
  <2>9. Seeding'
    BY Zenon, <1>1, <1>3, <2>3 DEF Seeding, Fresh
  <2> QED BY Zenon, <2>5, <2>7, <2>8, <2>9 DEF IdentityInv
<1> QED BY Zenon, <1>4, <1>5, Names DEF I!Write

LEMMA IdentityStep == ASSUME IdentityInv, I!Next PROVE IdentityInv' /\ KeepsKeys
<1>1. CASE I!PowerUp \/ I!PowerCut \/ I!Mount \/ I!wait_for_state_mount
  BY Zenon, <1>1, IdPowerUp, IdPowerCut, IdMount, IdWait
<1>2. CASE I!Seed \/ I!Stage \/ I!Rename \/ I!SyncDir
  BY Zenon, <1>2, IdSeed, IdStage, IdRename, IdSyncDir
<1>3. ASSUME NEW n \in DOMAIN I!FILES, I!Copy(n) \/ I!Fsync(n) \/ I!Write(n)
      PROVE  IdentityInv' /\ KeepsKeys
  BY Zenon, <1>3, IdCopy, IdFsync, IdWrite, Names
<1>4. CASE I!Load \/ I!Missing \/ I!Read
  BY Zenon, <1>4, IdLoad, IdMissing, IdRead
<1> QED BY Zenon, <1>1, <1>2, <1>3, <1>4 DEF I!Next

LEMMA IdentitySuffices == ASSUME IdentityInv PROVE I!TypeOK /\ I!BakedServed
<1>1. I!BakedServed
  <2> SUFFICES ASSUME Fresh, i_pc \in I!End
               PROVE  \/ i_pc = I!At("serving", 0) /\ i_ca = Baked
                      \/ i_pc = I!At("disabled", 0) /\ "load" \in i_mishap
    BY Zenon DEF I!BakedServed, Fresh
  <2>1. CASE i_pc = I!At("serving", 0)
    BY Zenon, <2>1, SeedingAt DEF Seeded
  <2>2. CASE i_pc = I!At("disabled", 0)
    BY Zenon, <2>2, SeedingAt DEF Seeded
  <2>3. i_pc # I!At("exited", 0)
    BY Zenon, SeedingAt DEF Seeded
  <2> QED BY Zenon, <2>1, <2>2, <2>3 DEF I!End
<1> QED BY Zenon, <1>1 DEF IdentityInv

LEMMA IdentityGoesOn ==
  ASSUME IdentityInv, [I!Next]_I!vars
  PROVE  IdentityInv' /\ (I!vars' = I!vars \/ KeepsKeys)
<1>1. CASE I!Next
  BY Zenon, <1>1, IdentityStep
<1>2. CASE I!vars' = I!vars
  <2>1. UNCHANGED <<i_boot, i_kept, i_pc, i_mounted, i_dst, i_tmp, i_staged, i_dirty, i_unnamed,
                    i_new, i_used, i_ca, i_mishap>>
    BY Zenon, <1>2 DEF I!vars, I!given
  <2>2. I!Here' = I!Here
    BY Zenon, <2>1 DEF I!Here
  <2>3. IdentityInv'
    <3>1. I!TypeOK' /\ Writing'
      BY Zenon, <2>1, <2>2 DEF IdentityInv, I!TypeOK, Writing
    <3>2. \A w, n : Seeded(w, n)' <=> Seeded(w, n)
      BY <2>1, <2>2 DEF Seeded
    <3>3. Seeding'
      BY Zenon, <2>1, <3>2 DEF IdentityInv, Seeding, Fresh
    <3> QED BY Zenon, <3>1, <3>3 DEF IdentityInv
  <2> QED BY Zenon, <1>2, <2>3
<1> QED BY Zenon, <1>1, <1>2

(* No step of the daemon replaces a file of an identity on STATE, whole or *)
(* partial, whatever failed, was generated, seeded or cut short before     *)
(* (imageboot.rs:100-102, pki lib.rs:128-129), but for a mount during the  *)
(* writes.                                                                 *)
LEMMA NeverRekeyed == I!Spec => I!NoRekey
<1>1. IdentityInv /\ [I!Next]_I!vars => IdentityInv' /\
        [i_pc' # I!At("off", 0) /\ "write" \notin i_mishap =>
           \A f \in I!File : i_dst["state"].file[f] # "none" =>
             i_dst'["state"].file[f] = i_dst["state"].file[f]]_I!vars
  BY Zenon, IdentityGoesOn DEF KeepsKeys
<1> QED BY <1>1, IdentityInit, PTL DEF I!Spec, I!NoRekey

(* A whole baked identity is the one that is served, wherever the power    *)
(* was cut, unless an earlier step of the seeding failed, and whatever     *)
(* fails no file of an identity on STATE is replaced, but for a mount      *)
(* during the writes (imageboot.rs:100-108, pki lib.rs:128-129).           *)
THEOREM IdentityIsKept == I!Spec => IdentityKept
<1>1. IdentityInv => I!TypeOK /\ I!BakedServed
  BY Zenon, IdentitySuffices
<1>2. IdentityInv /\ [I!Next]_I!vars => IdentityInv'
  BY Zenon, IdentityGoesOn
<1>3. I!Spec => [](I!TypeOK /\ I!BakedServed)
  BY <1>1, <1>2, IdentityInit, PTL DEF I!Spec
<1> QED BY Zenon, <1>3, NeverRekeyed DEF IdentityKept

-----------------------------------------------------------------------------
(***************************************************************************)
(* Boot slots: what an upgrade never does to them, and that without        *)
(* mishaps it implements BootSlots, the A/B promise.  An upgrade is a      *)
(* straight line, so most of its invariant says what holds from one place  *)
(* of the line to another.                                                 *)
(***************************************************************************)

BeforeCopy == {"Download", "Verify", "Extract", "StageRw", "CopyKernel", "CopyInitrd"}
Pointing == {"ActivateRw", "Truncate", "WritePtr", "FsyncPtr"}
BeforeFlip == BeforeCopy \cup {"Idle", "StageRo", "ActivateRw", "Truncate"}

(* Without power, programs see what the disk has.                          *)
OffIsDisk == pc \in {"Off", "Dead"} => files = diskFiles /\ ptr = diskPtr

(* The request being worked on, from its download to the copies.           *)
InHand ==
  /\ pc \in Working => want \in asked
  /\ pc = "Extract" => got = want
  /\ pc \in {"StageRw", "CopyKernel", "CopyInitrd"} => \A p \in Part : stage[p] = want
  /\ pc \in BeforeCopy \cup Pointing => res = "ok"

(* The inactive slot holds the image asked for once it is copied.          *)
Copied ==
  /\ pc = "CopyInitrd" => files[other(current)]["vmlinuz"] = want
  /\ \/ pc \in Pointing \cup {"Staged"}
     \/ pc \in {"StageRo", "ActivateRo"} /\ res = "ok"
     => \A p \in Part : files[other(current)][p] = want

(* The pointer names the running slot, on disk too, until it is rewritten, *)
(* and the other one afterwards.                                           *)
Flipped ==
  /\ pc = "WritePtr" => ptr = "torn"
  /\ pc \in {"FsyncPtr", "Staged"} \/ (pc = "ActivateRo" /\ res = "ok") => ptr = other(current)
Unflipped ==
  /\ "write" \notin mishaps
  /\ pc \in BeforeFlip \/ (pc = "ActivateRo" /\ res = "err")
  => ptr = current /\ diskPtr = current

SlotInv ==
  /\ TypeOK /\ RunningSlotWhole /\ VerifiedOnly
  /\ OffIsDisk /\ InHand /\ Copied /\ Flipped /\ Unflipped

-----------------------------------------------------------------------------
LEMMA SlotInit == Init => SlotInv
<1> SUFFICES ASSUME Init PROVE SlotInv
  BY Zenon
<1>1. TypeOK
  BY Zenon, UpgradeAssumption DEF Init, TypeOK, Working, Phase, Slot, Part, Content, Pointer
<1>2. RunningSlotWhole /\ OffIsDisk /\ InHand /\ Copied /\ Flipped /\ Unflipped
  BY Zenon DEF Init, RunningSlotWhole, OffIsDisk, InHand, Copied, Flipped, Unflipped, Working,
         BeforeCopy, BeforeFlip, Pointing
<1>3. VerifiedOnly
  BY Zenon DEF Init, VerifiedOnly, Slot, Part
<1> QED BY Zenon, <1>1, <1>2, <1>3 DEF SlotInv

LEMMA TypeStep == TypeOK /\ [Next]_vars => TypeOK'
<1> SUFFICES ASSUME TypeOK, [Next]_vars PROVE TypeOK'
  BY Zenon
<1> USE DEF TypeOK, Working, Phase, Slot, Part, Content, Pointer, Goto, Publish, Abort,
            request, disk, stage_inactive, other
<1>1. CASE UNCHANGED vars
  BY <1>1 DEF vars
<1>2. ASSUME NEW v \in Images, Ask(v) PROVE TypeOK'
  BY Zenon, <1>2 DEF Ask
<1>3. CASE Download \/ DownloadPanics \/ Verify
  BY <1>3 DEF Download, DownloadPanics, Verify
<1>4. CASE Extract
  BY <1>4 DEF Extract
<1>5. CASE StageRw \/ ActivateRw \/ PointerUnreadable \/ Truncate \/ WritePtr \/ FsyncPtr
  BY <1>5 DEF StageRw, ActivateRw, PointerUnreadable, Truncate, WritePtr, FsyncPtr
<1>6. ASSUME NEW from, NEW part \in Part, NEW next \in Working, Copy(from, part, next)
      PROVE  TypeOK'
  BY <1>6 DEF Copy
<1>7. CASE CopyKernel \/ CopyInitrd
  BY Zenon, <1>6, <1>7 DEF CopyKernel, CopyInitrd
<1>8. CASE StageRo \/ ActivateRo
  BY <1>8 DEF StageRo, ActivateRo, remount_ro
<1>9. ASSUME NEW s \in Slot, NEW p \in Part, WritebackFile(s, p) PROVE TypeOK'
  BY <1>9 DEF WritebackFile
<1>10. CASE WritebackPtr \/ Reboot \/ PowerCut
  BY <1>10 DEF WritebackPtr, Reboot, PowerCut
<1>11. CASE PowerUp
  BY <1>11 DEF PowerUp
<1> QED BY Zenon, <1>1, <1>2, <1>3, <1>4, <1>5, <1>7, <1>8, <1>9, <1>10, <1>11 DEF Next

(* The running slot is the one place no step writes to.                    *)
LEMMA RunningStep == SlotInv /\ [Next]_vars => RunningSlotWhole'
<1> SUFFICES ASSUME SlotInv, [Next]_vars PROVE RunningSlotWhole'
  BY Zenon
<1> USE DEF SlotInv, RunningSlotWhole, Whole, TypeOK, Slot, Part, Goto, Publish, Abort,
            request, disk
<1>1. ASSUME UNCHANGED <<current, files, diskFiles>>, pc \in {"Off", "Dead"} => pc' \in {"Off", "Dead"}
      PROVE  RunningSlotWhole'
  BY Zenon, <1>1
<1>2. CASE UNCHANGED vars
  BY Zenon, <1>1, <1>2 DEF vars
<1>3. ASSUME NEW v \in Images, Ask(v) PROVE RunningSlotWhole'
  BY Zenon, <1>1, <1>3 DEF Ask
<1>4. CASE Download \/ DownloadPanics \/ Verify \/ Extract \/ StageRw
  BY Zenon, <1>1, <1>4 DEF Download, DownloadPanics, Verify, Extract, StageRw
<1>5. CASE ActivateRw \/ PointerUnreadable \/ Truncate \/ WritePtr \/ FsyncPtr \/ WritebackPtr
  BY Zenon, <1>1, <1>5 DEF ActivateRw, PointerUnreadable, Truncate, WritePtr, FsyncPtr, WritebackPtr
<1>6. ASSUME NEW from \in Working, NEW part \in Part, NEW next, Copy(from, part, next)
      PROVE  RunningSlotWhole'
  BY Zenon, <1>6 DEF Copy, stage_inactive, other, Working
<1>7. CASE CopyKernel \/ CopyInitrd
  BY Zenon, <1>6, <1>7 DEF CopyKernel, CopyInitrd, Working
<1>8. CASE StageRo \/ ActivateRo
  BY Zenon, <1>8 DEF StageRo, ActivateRo, remount_ro
<1>9. ASSUME NEW s \in Slot, NEW p \in Part, WritebackFile(s, p) PROVE RunningSlotWhole'
  BY Zenon, <1>9 DEF WritebackFile, OffIsDisk
<1>10. CASE Reboot \/ PowerCut
  BY Zenon, <1>10 DEF Reboot, PowerCut
<1>11. CASE PowerUp
  BY Zenon, <1>11 DEF PowerUp, OffIsDisk
<1> QED BY Zenon, <1>2, <1>3, <1>4, <1>5, <1>7, <1>8, <1>9, <1>10, <1>11 DEF Next

LEMMA VerifiedStep == SlotInv /\ [Next]_vars => VerifiedOnly'
<1> SUFFICES ASSUME SlotInv, [Next]_vars PROVE VerifiedOnly'
  BY Zenon
<1> USE DEF SlotInv, VerifiedOnly, TypeOK, Slot, Part, Goto, Publish, Abort, request, disk
<1>1. ASSUME UNCHANGED <<asked, files, diskFiles>> PROVE VerifiedOnly'
  BY <1>1
<1>2. CASE UNCHANGED vars
  BY Zenon, <1>1, <1>2 DEF vars
<1>3. ASSUME NEW v \in Images, Ask(v) PROVE VerifiedOnly'
  BY <1>3 DEF Ask
<1>4. CASE Download \/ DownloadPanics \/ Verify \/ Extract \/ StageRw
  BY Zenon, <1>1, <1>4 DEF Download, DownloadPanics, Verify, Extract, StageRw
<1>5. CASE ActivateRw \/ PointerUnreadable \/ Truncate \/ WritePtr \/ FsyncPtr
           \/ WritebackPtr \/ PowerUp
  BY Zenon, <1>1, <1>5 DEF ActivateRw, PointerUnreadable, Truncate, WritePtr, FsyncPtr,
                    WritebackPtr, PowerUp
<1>6. ASSUME NEW from \in {"CopyKernel", "CopyInitrd"}, NEW part \in Part, NEW next,
             Copy(from, part, next)
      PROVE  VerifiedOnly'
  BY <1>6 DEF Copy, stage_inactive, other, Working, InHand
<1>7. CASE CopyKernel \/ CopyInitrd
  BY Zenon, <1>6, <1>7 DEF CopyKernel, CopyInitrd
<1>8. CASE StageRo \/ ActivateRo
  BY <1>8 DEF StageRo, ActivateRo, remount_ro
<1>9. ASSUME NEW s \in Slot, NEW p \in Part, WritebackFile(s, p) PROVE VerifiedOnly'
  BY <1>9 DEF WritebackFile
<1>10. CASE Reboot \/ PowerCut
  BY <1>10 DEF Reboot, PowerCut
<1> QED BY Zenon, <1>2, <1>3, <1>4, <1>5, <1>7, <1>8, <1>9, <1>10 DEF Next

(* What holds from one place of the line to another.                       *)
Line == OffIsDisk /\ InHand /\ Copied /\ Flipped /\ Unflipped

LEMMA LineStep == SlotInv /\ [Next]_vars => Line'
<1> SUFFICES ASSUME SlotInv, [Next]_vars PROVE Line'
  BY Zenon
<1> USE DEF SlotInv, Line, OffIsDisk, InHand, Copied, Flipped, Unflipped, TypeOK, Slot, Part,
            Goto, Publish, Abort, request, disk, BeforeCopy, BeforeFlip, Pointing, Working
<1>1. CASE UNCHANGED vars
  BY <1>1 DEF vars
<1>2. ASSUME NEW v \in Images, Ask(v) PROVE Line'
  BY Zenon, <1>2 DEF Ask
<1>3. CASE Download \/ DownloadPanics
  BY Zenon, <1>3 DEF Download, DownloadPanics
<1>4. CASE Verify
  BY Zenon, <1>4 DEF Verify
<1>5. CASE Extract
  BY Zenon, <1>5 DEF Extract
<1>6. CASE StageRw \/ ActivateRw
  BY Zenon, <1>6 DEF StageRw, ActivateRw
<1>7. CASE CopyKernel
  BY <1>7 DEF CopyKernel, Copy, stage_inactive, other
<1>8. CASE CopyInitrd
  BY <1>8 DEF CopyInitrd, Copy, stage_inactive, other
<1>9. CASE StageRo
  BY Zenon, <1>9 DEF StageRo, remount_ro
<1>10. CASE PointerUnreadable \/ Truncate
  BY Zenon, <1>10 DEF PointerUnreadable, Truncate
<1>11. CASE WritePtr \/ FsyncPtr
  BY Zenon, <1>11 DEF WritePtr, FsyncPtr, stage_inactive
<1>12. CASE ActivateRo
  BY Zenon, <1>12 DEF ActivateRo, remount_ro
<1>13. ASSUME NEW s \in Slot, NEW p \in Part, WritebackFile(s, p) PROVE Line'
  BY Zenon, <1>13 DEF WritebackFile
<1>14. CASE WritebackPtr
  BY <1>14 DEF WritebackPtr
<1>15. CASE Reboot \/ PowerCut
  BY Zenon, <1>15 DEF Reboot, PowerCut
<1>16. CASE PowerUp
  BY Zenon, <1>16 DEF PowerUp
<1> QED BY Zenon, <1>1, <1>2, <1>3, <1>4, <1>5, <1>6, <1>7, <1>8, <1>9, <1>10, <1>11, <1>12,
           <1>13, <1>14, <1>15, <1>16 DEF Next

LEMMA SlotStep == SlotInv /\ [Next]_vars => SlotInv'
  BY Zenon, TypeStep, RunningStep, VerifiedStep, LineStep DEF SlotInv, Line

(* Whatever fails, and wherever the power is cut: the running slot is      *)
(* never touched, nothing but what an upgrade asked for reaches a slot,    *)
(* what is called staged is what was asked for, and an upgrade that failed *)
(* has not changed what the next boot runs (upgrade.rs, bootloader.rs).    *)
THEOREM SlotsStaySafe == Spec => []SlotsSafe
<1>1. SlotInv => SlotsSafe
  BY Zenon DEF SlotInv, SlotsSafe, StagedIsWanted, FailedKeepsSlot, Copied, Flipped, Unflipped,
         BeforeFlip, TypeOK
<1> QED BY SlotInit, SlotStep, <1>1, PTL DEF Spec

-----------------------------------------------------------------------------
(* Without mishaps the boot partition implements BootSlots.                *)

(* The slot is on disk before the pointer is touched, the pointer on disk  *)
(* names a whole slot, and it is torn only while it is open.               *)
Durable ==
  mishaps = {} =>
    /\ diskPtr \in Slot => Whole(diskFiles, diskPtr)
    /\ pc \in Pointing \cup {"ActivateRo", "Staged"} => diskFiles = files
    /\ pc \in {"ActivateRo", "Staged"} => diskPtr = ptr
    /\ diskPtr = "torn" => pc \in PtrOpen
    /\ pc # "Dead"

PromiseInv == SlotInv /\ Durable

LEMMA DurableInit == Init => Durable
  BY UpgradeAssumption DEF Init, Durable, Whole, Slot, Part, Pointing

(* Where the running slot is selected, the selected slot is whole.         *)
LEMMA CurrentWhole ==
  ASSUME TypeOK, RunningSlotWhole, pc \notin {"Off", "Dead"}
  PROVE  Whole(diskFiles, current) /\ Whole(files, current)
  BY Zenon DEF RunningSlotWhole, Whole

LEMMA DurableStep == SlotInv /\ Durable /\ [Next]_vars => Durable'
<1> SUFFICES ASSUME SlotInv, Durable, mishaps = {}, [Next]_vars PROVE Durable'
  <2>1. [Next]_vars => mishaps' = mishaps
    BY Zenon DEF Next, vars, request, Ask, Download, DownloadPanics, Verify, Extract, StageRw,
           CopyKernel, CopyInitrd, Copy, StageRo, ActivateRw, PointerUnreadable, Truncate,
           WritePtr, FsyncPtr, ActivateRo, WritebackFile, WritebackPtr, Reboot, PowerCut, PowerUp
  <2> QED BY Zenon, <2>1 DEF Durable
<1> USE DEF SlotInv, Durable, TypeOK, Pointer, Goto, Publish, Abort, request, disk, Pointing, PtrOpen
<1>1. ASSUME UNCHANGED <<files, ptr, diskFiles, diskPtr>>,
             pc \in PtrOpen => pc' \in PtrOpen,
             pc' \in Pointing \cup {"ActivateRo", "Staged"} => pc \in Pointing \cup {"ActivateRo", "Staged"},
             pc' \in {"ActivateRo", "Staged"} => pc \in {"ActivateRo", "Staged"},
             pc' # "Dead"
      PROVE  Durable'
  BY Zenon, <1>1 DEF Whole
<1>2. CASE UNCHANGED vars
  BY Zenon, <1>1, <1>2 DEF vars
<1>3. ASSUME NEW v \in Images, Ask(v) PROVE Durable'
  BY Zenon, <1>1, <1>3 DEF Ask
<1>4. CASE Download \/ DownloadPanics \/ Verify \/ Extract \/ StageRw \/ ActivateRw
  BY Zenon, <1>1, <1>4 DEF Download, DownloadPanics, Verify, Extract, StageRw, ActivateRw
<1>5. CASE CopyKernel \/ CopyInitrd
  BY Zenon, <1>5 DEF CopyKernel, CopyInitrd, Copy, Whole, Unflipped, BeforeFlip, BeforeCopy
<1>6. CASE StageRo
  <2>1. ptr = current /\ diskPtr = current
    BY Zenon, <1>6 DEF StageRo, Unflipped, BeforeFlip
  <2>2. Whole(files, current)
    BY Zenon, <1>6, CurrentWhole DEF StageRo
  <2> QED BY Zenon, <1>6, <2>1, <2>2 DEF StageRo, remount_ro, Whole, Slot
<1>7. CASE PointerUnreadable \/ Truncate
  BY Zenon, <1>7 DEF PointerUnreadable, Truncate, Whole, Unflipped, BeforeFlip
<1>8. CASE WritePtr
  BY Zenon, <1>8 DEF WritePtr, Whole
<1>9. CASE FsyncPtr \/ (WritebackPtr /\ pc = "FsyncPtr")
  <2>1. pc = "FsyncPtr" /\ ptr = other(current) /\ diskFiles = files
    BY Zenon, <1>9 DEF FsyncPtr, Flipped
  <2>2. Whole(diskFiles, other(current))
    BY Zenon, <2>1 DEF Copied, Whole
  <2>3. CASE FsyncPtr
    BY Zenon, <2>1, <2>2, <2>3 DEF FsyncPtr, Whole, other, Slot
  <2>4. CASE WritebackPtr
    BY Zenon, <2>1, <2>2, <2>4 DEF WritebackPtr, Whole, Slot
  <2> QED BY Zenon, <1>9, <2>3, <2>4
<1>10. CASE ActivateRo
  BY Zenon, <1>10 DEF ActivateRo, remount_ro, Whole
<1>11. ASSUME NEW s \in Slot, NEW p \in Part, WritebackFile(s, p) PROVE Durable'
  <2>1. diskFiles # files /\ pc \notin {"Off", "Dead"}
    BY Zenon, <1>11 DEF WritebackFile, OffIsDisk
  <2>2. ptr = current /\ diskPtr = current
    BY Zenon, <1>11, <2>1 DEF Unflipped, BeforeFlip, BeforeCopy, Working
  <2>3. s # current /\ Whole(diskFiles, current)
    BY Zenon, <1>11, <2>1 DEF WritebackFile, RunningSlotWhole
  <2> QED BY <1>11, <2>1, <2>2, <2>3 DEF WritebackFile, Whole, Slot
<1>12. CASE WritebackPtr /\ pc # "FsyncPtr"
  <2>1. pc = "WritePtr"
    BY Zenon, <1>12 DEF WritebackPtr, Unflipped, BeforeFlip, BeforeCopy, Working, OffIsDisk
  <2> QED BY Zenon, <1>12, <2>1 DEF WritebackPtr, Flipped, Slot
<1>13. CASE Reboot
  <2>1. CASE pc = "Idle"
    BY <1>13, <2>1, CurrentWhole DEF Reboot, Unflipped, BeforeFlip, Whole, Slot
  <2>2. CASE pc = "Staged"
    BY Zenon, <1>13, <2>2 DEF Reboot, Whole
  <2> QED BY Zenon, <1>13, <2>1, <2>2 DEF Reboot
<1>14. CASE PowerCut
  BY Zenon, <1>14 DEF PowerCut, Whole
<1>15. CASE PowerUp
  BY Zenon, <1>15 DEF PowerUp, Whole
<1> QED BY Zenon, <1>2, <1>3, <1>4, <1>5, <1>6, <1>7, <1>8, <1>9, <1>10, <1>11, <1>12, <1>13,
           <1>14, <1>15 DEF Next

-----------------------------------------------------------------------------
LEMMA WholeImage ==
  ASSUME NEW s \in Slot, Whole(diskFiles, s)
  PROVE  ImageOf(s) \in Images
  BY Zenon DEF ImageOf, Whole, Part

(* A slot whose files stay as they are keeps its image.                    *)
LEMMA ImageKept ==
  ASSUME NEW s \in Slot, diskFiles'[s] = diskFiles[s]
  PROVE  ImageOf(s)' = ImageOf(s)
  BY Zenon DEF ImageOf, Whole

(* Truncate, WritePtr and FsyncPtr are one commit: the pointer on disk     *)
(* moves in FsyncPtr or in a writeback before it, and until then a torn    *)
(* one stands for the running image.                                       *)
LEMMA PromiseStep == PromiseInv /\ [Next]_vars => [Promise!Next]_<<NextImage, RunningImage>>
<1> SUFFICES ASSUME PromiseInv, [Next]_vars PROVE [Promise!Next]_<<NextImage, RunningImage>>
  BY Zenon
<1>0. mishaps' = mishaps
  BY Zenon DEF Next, vars, request, Ask, Download, DownloadPanics, Verify, Extract, StageRw,
         CopyKernel, CopyInitrd, Copy, StageRo, ActivateRw, PointerUnreadable, Truncate,
         WritePtr, FsyncPtr, ActivateRo, WritebackFile, WritebackPtr, Reboot, PowerCut, PowerUp
<1>1. CASE mishaps # {}
  BY Zenon, <1>0, <1>1 DEF NextImage, RunningImage
<1>2. CASE mishaps = {}
  <2> USE <1>2 DEF PromiseInv
  (* A step that leaves the power on and the selection alone.              *)
  <2>1. ASSUME pc \notin {"Off", "Dead"}, pc' \notin {"Off", "Dead"}, UNCHANGED <<current, diskPtr>>,
               diskFiles'[current] = diskFiles[current],
               diskPtr \in Slot => diskFiles'[diskPtr] = diskFiles[diskPtr]
        PROVE  UNCHANGED <<NextImage, RunningImage>>
    <3>1. current \in Slot /\ diskPtr \in Slot \cup {"torn"}
      BY Zenon DEF SlotInv, TypeOK, Pointer
    <3>2. ImageOf(current)' = ImageOf(current)
      <4>1. \A s \in Slot : diskFiles'[s] = diskFiles[s] => (ImageOf(s))' = ImageOf(s)
        BY Zenon, ImageKept
      <4> QED BY Zenon, <2>1, <3>1, <4>1
    <3> QED BY Zenon, <1>0, <2>1, <3>1, <3>2, ImageKept DEF NextImage, RunningImage
  <2>2. CASE UNCHANGED vars
    <3>1. UNCHANGED <<mishaps, pc, current, diskPtr, diskFiles>>
      BY Zenon, <2>2 DEF vars, disk, request
    <3>2. UNCHANGED <<ImageOf(current), ImageOf(diskPtr)>>
      BY Zenon, <3>1 DEF ImageOf, Whole
    <3> QED BY Zenon, <3>1, <3>2 DEF NextImage, RunningImage
  <2>3. ASSUME NEW v \in Images, Ask(v) PROVE UNCHANGED <<NextImage, RunningImage>>
    BY Zenon, <2>1, <2>3 DEF Ask, Goto, disk
  <2>4. CASE Download \/ DownloadPanics \/ Verify \/ Extract \/ StageRw \/ ActivateRw
    BY Zenon, <2>1, <2>4 DEF Download, DownloadPanics, Verify, Extract, StageRw, ActivateRw, Goto, Abort, disk
  <2>5. CASE CopyKernel \/ CopyInitrd
    BY Zenon, <2>1, <2>5 DEF CopyKernel, CopyInitrd, Copy, Goto, disk, Working
  <2>6. CASE PointerUnreadable \/ Truncate \/ WritePtr
    BY Zenon, <2>1, <2>6 DEF PointerUnreadable, Truncate, WritePtr, Goto, disk
  <2>7. CASE StageRo
    <3>1. ptr = current /\ diskPtr = current
      BY Zenon, <2>7 DEF StageRo, SlotInv, Unflipped, BeforeFlip
    <3>2. files[current] = diskFiles[current]
      BY Zenon, <2>7 DEF StageRo, SlotInv, RunningSlotWhole
    <3> QED BY Zenon, <2>1, <2>7, <3>1, <3>2 DEF StageRo, remount_ro, Goto, Abort, disk
  <2>8. CASE ActivateRo
    <3>1. diskFiles = files /\ diskPtr = ptr
      BY Zenon, <2>8 DEF ActivateRo, Durable
    <3> QED BY Zenon, <2>1, <2>8, <3>1 DEF ActivateRo, remount_ro, Goto, Abort, disk
  <2>9. ASSUME NEW s \in Slot, NEW p \in Part, WritebackFile(s, p)
        PROVE  UNCHANGED <<NextImage, RunningImage>>
    <3>1. diskFiles # files /\ pc \notin {"Off", "Dead"}
      BY Zenon, <2>9 DEF WritebackFile, SlotInv, OffIsDisk
    <3>2. diskPtr = current
      BY Zenon, <2>9, <3>1 DEF SlotInv, Durable, Unflipped, BeforeFlip, BeforeCopy, Working, Pointing, TypeOK
    <3>3. s # current /\ current \in Slot
      BY Zenon, <2>9, <3>1 DEF WritebackFile, SlotInv, RunningSlotWhole, TypeOK
    <3>4. diskFiles'[current] = diskFiles[current]
      BY Zenon, <2>9, <3>3 DEF WritebackFile, SlotInv, TypeOK
    <3> QED BY Zenon, <2>1, <2>9, <3>1, <3>2, <3>4 DEF WritebackFile
  (* The commit.                                                           *)
  <2>10. CASE FsyncPtr \/ WritebackPtr
    <3>1. pc \notin {"Off", "Dead"} /\ pc' \notin {"Off", "Dead"} /\ UNCHANGED <<current, diskFiles>>
      BY Zenon, <2>10 DEF FsyncPtr, WritebackPtr, SlotInv, OffIsDisk, Goto
    <3>2. Whole(diskFiles, current) /\ current \in Slot
      BY Zenon, <3>1, CurrentWhole DEF SlotInv, TypeOK
    <3>3. ImageOf(current) \in Images /\ (ImageOf(current))' = ImageOf(current)
      BY Zenon, <3>1, <3>2, WholeImage DEF ImageOf, Whole
    <3>4. UNCHANGED RunningImage /\ RunningImage # "none"
      BY Zenon, <1>0, <3>1, <3>3, UpgradeAssumption DEF RunningImage
    <3>5. diskPtr' \in Slot => Whole(diskFiles, diskPtr')
      BY Zenon, <3>1, DurableStep, <1>0 DEF Durable, Whole
    <3>6. diskPtr' \in Slot \cup {"torn"}
      BY Zenon, <2>10 DEF FsyncPtr, WritebackPtr, SlotInv, TypeOK, Pointer
    <3>7. diskPtr' \in Slot => (ImageOf(diskPtr))' \in Images
      BY Zenon, <3>1, <3>5 DEF ImageOf, Whole, Part
    <3>8. NextImage' \in Images
      BY Zenon, <1>0, <3>3, <3>6, <3>7 DEF NextImage
    <3> QED BY Zenon, <3>4, <3>8 DEF Promise!Next, Promise!Select
  <2>11. CASE Reboot \/ PowerCut
    <3>1. RunningImage' = "none"
      BY Zenon, <2>11 DEF Reboot, PowerCut, RunningImage, Goto
    <3>2. UNCHANGED <<current, diskPtr>> /\ diskFiles'[diskPtr] = diskFiles[diskPtr] /\ diskPtr \in Slot
      <4>1. CASE Reboot /\ pc = "Idle"
        BY Zenon, <4>1 DEF Reboot, SlotInv, RunningSlotWhole, Unflipped, BeforeFlip, TypeOK
      <4>2. CASE Reboot /\ pc = "Staged"
        BY Zenon, <4>2 DEF Reboot, Durable, PtrOpen, SlotInv, TypeOK, Pointer
      <4>3. CASE PowerCut
        BY Zenon, <4>3 DEF PowerCut, Durable, SlotInv, TypeOK, Pointer, disk
      <4> QED BY Zenon, <2>11, <4>1, <4>2, <4>3 DEF Reboot
    <3>3. UNCHANGED NextImage
      BY Zenon, <1>0, <3>2 DEF NextImage, ImageOf, Whole, Slot
    <3> QED BY Zenon, <3>1, <3>3 DEF Promise!Next, Promise!Stop
  <2>12. CASE PowerUp
    <3>1. diskPtr \in Slot /\ Whole(diskFiles, diskPtr) /\ pc = "Off"
      BY Zenon, <2>12 DEF PowerUp, Durable, PtrOpen, SlotInv, TypeOK, Pointer
    <3>2. pc' = "Idle" /\ current' = diskPtr /\ UNCHANGED <<diskFiles, diskPtr>>
      BY Zenon, <2>12, <3>1 DEF PowerUp, Goto, disk
    <3>3. UNCHANGED NextImage
      BY Zenon, <1>0, <3>1, <3>2 DEF NextImage, ImageOf, Whole, Slot
    <3>4. RunningImage = "none" /\ RunningImage' = NextImage
      BY Zenon, <1>0, <3>1, <3>2 DEF NextImage, RunningImage, ImageOf, Whole, Slot
    <3> QED BY Zenon, <3>3, <3>4 DEF Promise!Next, Promise!Boot
  <2> QED BY Zenon, <2>2, <2>3, <2>4, <2>5, <2>6, <2>7, <2>8, <2>9, <2>10, <2>11, <2>12 DEF Next
<1> QED BY Zenon, <1>1, <1>2

(* On a node that meets no mishap an upgrade implements the A/B promise:   *)
(* whenever the power is cut, the next boot runs the image selected before *)
(* or the new one as a whole (bootloader.rs, upgrade.rs).                  *)
THEOREM UpgradeKeepsPromise == Spec => KeepsPromise
<1>1. Init => Promise!Init
  BY UpgradeAssumption DEF Init, Promise!Init, NextImage, RunningImage, ImageOf, Whole, Slot, Part
<1>2. Init => PromiseInv
  BY Zenon, SlotInit, DurableInit DEF PromiseInv
<1>3. PromiseInv /\ [Next]_vars => PromiseInv'
  BY Zenon, SlotStep, DurableStep DEF PromiseInv
<1> QED BY <1>1, <1>2, <1>3, PromiseStep, PTL DEF Spec, KeepsPromise, Promise!Spec
=============================================================================
