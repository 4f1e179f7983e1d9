----------------------------- MODULE DiskProofs -----------------------------
(***************************************************************************)
(* Proofs about the volumes of the disk, for any values of the constants.  *)
(***************************************************************************)
EXTENDS Disk, Naturals, Sequences, TLAPS

(* The provers get more time than by default, not every machine is fast.   *)
USE SMTT(30), ZenonT(20)

-----------------------------------------------------------------------------
(***************************************************************************)
(* Volumes.  The tables the disk can have are few, and in each a label has *)
(* its place: what was discovered, is being laid out, published or mounted *)
(* under a label is on the same device.                                    *)
(***************************************************************************)

Tables == {<<>>, <<"EFI", "DATA">>, <<"none">>, <<"EFI">>, <<"EFI", "STATE", "EPHEMERAL">>}
Flashed == <<"EFI">>
Laid == <<"EFI", "STATE", "EPHEMERAL">>

Dev(l) == IF l = "EFI" THEN 1 ELSE IF l = "STATE" THEN 2 ELSE 3

(* Whether a list is what a discovery can have made of the table.          *)
Discovered(v) ==
  /\ DOMAIN v \in {{}, DOMAIN v_found} /\ Len(v) \in Nat /\ DOMAIN v = 1..Len(v)
  /\ \A i \in DOMAIN v : v[i].label \in {v_found[i], "none"} /\ v[i].fs \in {"none", "vfat", "ext4"}
  /\ "read" \notin v_scene.faults =>
       DOMAIN v = DOMAIN v_found /\ \A i \in DOMAIN v : v[i].label = v_found[i]

(* The controllers start anew in every boot, the provisioner acts on a     *)
(* published discovery only, and until then the table is as it was found.  *)
Discovering ==
  /\ v_stage # "up" => v_dpc = "new" /\ v_ppc = "new" /\ v_vs = V!NoStatus
  /\ v_dpc = "scanned" => Discovered(v_scan)
  /\ v_dpc = "volumes" => Discovered(v_dv)
  /\ v_ds => v_dpc = "done" /\ Discovered(v_dv)
  /\ v_stage # "off" /\ ~v_ds => v_gpt = v_found /\ v_ppc \in {"new", "Decide", "idle"}

(* With install.wipe a table that cannot be read counts as none.           *)
Readable == v_scene.wipe => "read" \notin v_scene.faults

(* Where the provisioner can be, given the table found.                    *)
Deciding ==
  /\ v_gpt \in Tables /\ v_found \in Tables
  /\ ~v_scene.wipe => v_ppc \notin {"Wipe", "Create"}
  /\ v_stage # "off" /\ ~v_scene.wipe => v_gpt = v_found \/ (v_found = Flashed /\ v_gpt = Laid)
  /\ v_stage # "off" /\ v_found = Laid /\ Readable =>
       v_gpt = Laid /\ v_ppc \in {"new", "Decide", "Publish", "idle"}
  /\ v_ppc = "Add" => ~v_scene.wipe /\ v_found = Flashed /\ v_statuses["EFI"].dev = 1

Planned(k) ==
  LET p1 == [label |-> "EFI", fs |-> "vfat", dev |-> 1]
      p2 == [label |-> "STATE", fs |-> "ext4", dev |-> 2]
      p3 == [label |-> "EPHEMERAL", fs |-> "ext4", dev |-> 3]
  IN IF k = 1 THEN <<p1, p2, p3>> ELSE IF k = 2 THEN <<p2, p3>> ELSE <<p3>>

(* What is left to format holds nothing of the node's, unless it wipes.    *)
Formatting(k) ==
  /\ v_todo = Planned(k)
  /\ \A l \in V!LABELS : Dev(l) < k => v_statuses[l].dev = Dev(l)
  /\ ~v_scene.wipe => /\ k > 1 /\ v_found = Flashed /\ v_vs = V!NoStatus
                      /\ \A d \in k..3 : v_part[d].data = "none"

Provisioned ==
  /\ v_ppc = "Format" => v_gpt = Laid /\ \E k \in 1..3 : Formatting(k)
  /\ v_ppc = "Publish" => (~v_scene.wipe => v_gpt = Laid) /\ \A l \in V!LABELS : v_statuses[l].dev = Dev(l)
  /\ \/ v_vs = V!NoStatus
     \/ (\A l \in V!LABELS : v_vs[l].dev = Dev(l)) /\ (~v_scene.wipe => v_gpt = Laid)

(* The boot partition may be one of another disk.                          *)
Mountable(l) == {Dev(l)} \cup (IF l = "EFI" THEN {V!Other} ELSE {})

MountsRight ==
  /\ \A l \in V!LABELS :
       /\ v_mnt[l] \in {0} \cup Mountable(l)
       /\ v_seen[l] = V!Absent \/ (v_seen[l].dev = Dev(l) /\ v_vs[l].dev = Dev(l))
       /\ l \in v_mtodo => v_seen[l] # V!Absent
       /\ v_mpc = "busy" /\ v_seen[l] # V!Absent /\ l \notin v_mtodo => v_mnt[l] \in Mountable(l)
  /\ \A l \in v_ms : v_mnt[l] \in Mountable(l) /\ v_vs[l].dev = Dev(l)

(* Whose data the node's partitions hold.                                  *)
Owning ==
  ~v_scene.wipe =>
    /\ v_gpt = Flashed => v_part[2].data = "none" /\ v_part[3].data = "none"
    /\ v_gpt = Laid => v_part[2].data \in {"none", "node"} /\ v_part[3].data \in {"none", "node"}

(* The types, in groups.                                                   *)
DiskPlaces ==
  /\ v_scene \in Scenes /\ v_stage \in {"off", "early", "up"}
  /\ v_dpc \in {"new", "scanned", "volumes", "done"} /\ v_ds \in BOOLEAN
  /\ v_ppc \in {"new", "Decide", "Wipe", "Create", "Add", "Format", "Publish", "idle"}
  /\ v_mpc \in {"new", "busy", "idle"} /\ v_wakeP \in BOOLEAN /\ v_wakeM \in BOOLEAN

Contents ==
  /\ v_part \in [V!Device -> V!Content] /\ v_nodes \subseteq V!Device
  /\ v_part[2].fs # "vfat" /\ v_part[3].fs # "vfat"
  /\ \A i \in DOMAIN v_todo : v_todo[i].dev \in V!Device
  /\ v_mtodo \subseteq V!LABELS /\ v_ms \subseteq V!LABELS /\ v_mnt \in [V!LABELS -> 0..V!Other]

Statuses ==
  /\ v_vs \in [V!LABELS -> V!Status] /\ v_statuses \in [V!LABELS -> V!Status]
  /\ v_seen \in [V!LABELS -> V!Status]

DiskInv ==
  /\ DiskPlaces /\ Contents /\ Statuses /\ v_boots \in 0..MaxBoots
  /\ Discovering /\ Deciding /\ Provisioned /\ MountsRight /\ Owning

-----------------------------------------------------------------------------
(* The layouts, as they are.                                               *)
LEMMA Layout ==
  /\ V!Ours = Laid /\ V!Labelled(V!AppendLayout) = <<"STATE", "EPHEMERAL">>
  /\ V!ToFormat(V!fixed_layout, 1) = Planned(1) /\ V!ToFormat(V!AppendLayout, 2) = Planned(2)
  /\ DOMAIN V!AppendLayout = 1..2
  /\ V!AppendLayout[1].label = "STATE" /\ V!AppendLayout[2].label = "EPHEMERAL"
<1>1. V!AppendLayout = <<[label |-> "STATE", fs |-> "ext4"], [label |-> "EPHEMERAL", fs |-> "ext4"]>>
  BY DEF V!AppendLayout, V!fixed_layout
<1>2. V!Ours = Laid
  BY DEF V!Ours, V!Labelled, V!fixed_layout, Laid
<1>3. V!Labelled(V!AppendLayout) = <<"STATE", "EPHEMERAL">>
  BY <1>1 DEF V!Labelled
<1>4. V!ToFormat(V!fixed_layout, 1) = Planned(1)
  BY DEF V!ToFormat, V!fixed_layout, Planned
<1>5. V!ToFormat(V!AppendLayout, 2) = Planned(2)
  BY <1>1 DEF V!ToFormat, Planned
<1> QED BY <1>1, <1>2, <1>3, <1>4, <1>5

LEMMA PlanOrder ==
  /\ Planned(1) # <<>> /\ Planned(2) # <<>> /\ Planned(3) # <<>>
  /\ Head(Planned(1)) = [label |-> "EFI", fs |-> "vfat", dev |-> 1]
  /\ Head(Planned(2)) = [label |-> "STATE", fs |-> "ext4", dev |-> 2]
  /\ Head(Planned(3)) = [label |-> "EPHEMERAL", fs |-> "ext4", dev |-> 3]
  /\ Tail(Planned(1)) = Planned(2) /\ Tail(Planned(2)) = Planned(3) /\ Tail(Planned(3)) = <<>>
  /\ \A k \in 1..3 : \A i \in DOMAIN Planned(k) : Planned(k)[i].dev \in 1..3
<1>1. \A k \in 1..3 : \A i \in DOMAIN Planned(k) : Planned(k)[i].dev \in 1..3
  BY DEF Planned
<1>2. Tail(Planned(1)) = Planned(2) /\ Tail(Planned(2)) = Planned(3) /\ Tail(Planned(3)) = <<>>
  BY DEF Planned
<1> QED BY <1>1, <1>2 DEF Planned

LEMMA PlanNext ==
  \A k \in 1..3 : /\ k < 3 => Planned(k + 1) # <<>>
                 /\ Tail(Planned(k)) = IF k = 3 THEN <<>> ELSE Planned(k + 1)
<1> SUFFICES ASSUME NEW k \in 1..3
             PROVE  /\ k < 3 => Planned(k + 1) # <<>>
                    /\ Tail(Planned(k)) = IF k = 3 THEN <<>> ELSE Planned(k + 1)
  BY Zenon
<1>1. k = 1 \/ k = 2 \/ k = 3
  OBVIOUS
<1> QED BY <1>1, PlanOrder

LEMMA TableFacts ==
  /\ \A g \in Tables :
       /\ g \in Seq(V!LABELS \cup {"none", "DATA"}) /\ Len(g) <= 3 /\ DOMAIN g \subseteq V!Device
       /\ \A i \in DOMAIN g : g[i] \in V!LABELS => i = Dev(g[i])
       /\ (\E i \in DOMAIN g : g[i] = "STATE") => g = Laid
       /\ (Len(g) = 1 /\ g[1] = "EFI" => g = Flashed)
  /\ Laid \in Tables /\ Flashed \in Tables /\ Laid # Flashed /\ <<>> \in Tables
  /\ DOMAIN Laid = V!Device /\ \A l \in V!LABELS : Dev(l) \in V!Device /\ Laid[Dev(l)] = l
  /\ DOMAIN Flashed = {1} /\ Flashed[1] = "EFI" /\ Len(Flashed) = 1
<1>1. /\ Laid \in Tables /\ Flashed \in Tables /\ Laid # Flashed /\ <<>> \in Tables
      /\ DOMAIN Laid = V!Device /\ \A l \in V!LABELS : Dev(l) \in V!Device /\ Laid[Dev(l)] = l
      /\ DOMAIN Flashed = {1} /\ Flashed[1] = "EFI" /\ Len(Flashed) = 1
  BY DEF Tables, Laid, Flashed, V!Device, V!LABELS, Dev
<1>2. ASSUME NEW g \in Tables
      PROVE  /\ g \in Seq(V!LABELS \cup {"none", "DATA"}) /\ Len(g) <= 3 /\ DOMAIN g \subseteq V!Device
             /\ \A i \in DOMAIN g : g[i] \in V!LABELS => i = Dev(g[i])
             /\ (\E i \in DOMAIN g : g[i] = "STATE") => g = Laid
             /\ (Len(g) = 1 /\ g[1] = "EFI" => g = Flashed)
  <2>1. CASE g = <<>>
    BY <2>1 DEF V!LABELS, V!Device, Dev, Laid, Flashed
  <2>2. CASE g = <<"EFI", "DATA">>
    <3>1. g \in Seq(V!LABELS \cup {"none", "DATA"})
      BY <2>2 DEF V!LABELS
    <3>2. Len(g) = 2 /\ DOMAIN g = 1..2
      BY <2>2
    <3> QED BY <2>2, <3>1, <3>2 DEF V!LABELS, V!Device, Dev, Laid, Flashed
  <2>3. CASE g = <<"none">>
    <3>1. g \in Seq(V!LABELS \cup {"none", "DATA"})
      BY <2>3
    <3>2. Len(g) = 1 /\ DOMAIN g = 1..1 /\ g[1] = "none"
      BY <2>3
    <3>3. \A i \in DOMAIN g : g[i] \notin V!LABELS
      BY <3>2 DEF V!LABELS
    <3>4. DOMAIN g \subseteq V!Device /\ "STATE" \in V!LABELS
      BY <3>2 DEF V!LABELS, V!Device
    <3> QED BY <3>1, <3>2, <3>3, <3>4
  <2>4. CASE g = <<"EFI">>
    BY <2>4 DEF V!LABELS, V!Device, Dev, Laid, Flashed
  <2>5. CASE g = <<"EFI", "STATE", "EPHEMERAL">>
    <3>1. g \in Seq(V!LABELS \cup {"none", "DATA"})
      BY <2>5 DEF V!LABELS
    <3>2. Len(g) = 3 /\ DOMAIN g = 1..3
      BY <2>5
    <3> QED BY <2>5, <3>1, <3>2 DEF V!LABELS, V!Device, Dev, Laid, Flashed
  <2> QED BY Zenon, <2>1, <2>2, <2>3, <2>4, <2>5 DEF Tables
<1> QED BY Zenon, <1>1, <1>2

(* The decision, given what a discovery can have made of the table.        *)
LEMMA Plan ==
  ASSUME v_found \in Tables, Discovered(v_dv), NEW wiping \in BOOLEAN
  PROVE  /\ V!plan_provisioning(wiping, v_dv) = "Skip" => v_found = Laid
         /\ V!plan_provisioning(wiping, v_dv) = "CompleteLayout" => ~wiping /\ v_found = Flashed
         /\ V!plan_provisioning(wiping, v_dv) = "Provision" => wiping
         /\ v_found = Laid /\ "read" \notin v_scene.faults =>
              V!plan_provisioning(wiping, v_dv) = "Skip"
         /\ V!plan_provisioning(wiping, v_dv) \in {"Skip", "Provision", "CompleteLayout", "RefuseForeign"}
<1> DEFINE labels == {v_dv[i].label : i \in DOMAIN v_dv}
<1>1. V!plan_provisioning(wiping, v_dv) =
        IF v_dv # <<>> /\ labels = V!LABELS THEN "Skip"
        ELSE IF wiping THEN "Provision"
        ELSE IF Len(v_dv) = 1 /\ labels = {"EFI"} THEN "CompleteLayout"
        ELSE "RefuseForeign"
  BY Zenon DEF V!plan_provisioning
<1>2. ASSUME labels = V!LABELS PROVE v_found = Laid
  <2>1. PICK i \in DOMAIN v_dv : v_dv[i].label = "STATE"
    BY Zenon, <1>2 DEF V!LABELS
  <2>2. i \in DOMAIN v_found /\ v_found[i] = "STATE"
    BY Zenon, <2>1 DEF Discovered
  <2> QED BY Zenon, <2>2, TableFacts
<1>3. ASSUME labels = {"EFI"}, Len(v_dv) = 1 PROVE v_found = Flashed
  <2>1. PICK i \in DOMAIN v_dv : v_dv[i].label = "EFI"
    BY Zenon, <1>3
  <2>2. i = 1 /\ DOMAIN v_found = 1..1
    BY <1>3, <2>1 DEF Discovered
  <2>3. v_found \in Seq(V!LABELS \cup {"none", "DATA"})
    BY Zenon, TableFacts
  <2>4. Len(v_found) = 1
    BY <2>2, <2>3
  <2>5. v_found[1] = "EFI"
    BY Zenon, <2>1, <2>2 DEF Discovered
  <2> QED BY Zenon, <2>4, <2>5, TableFacts
<1>4. ASSUME v_found = Laid, "read" \notin v_scene.faults PROVE v_dv # <<>> /\ labels = V!LABELS
  <2>1. DOMAIN v_dv = V!Device /\ \A i \in V!Device : v_dv[i].label = Laid[i]
    BY Zenon, <1>4, TableFacts DEF Discovered
  <2>2. v_dv # <<>>
    <3>1. DOMAIN v_dv # {}
      BY <2>1 DEF V!Device
    <3> QED BY <3>1
  <2>3. labels = {Laid[i] : i \in V!Device}
    BY Zenon, <2>1
  <2> QED BY <2>2, <2>3 DEF Laid, V!Device, V!LABELS
<1> HIDE DEF labels
<1> QED BY Zenon, <1>1, <1>2, <1>3, <1>4

(* The statuses made of a discovery are of the labels' own devices.        *)
LEMMA FromDiscovered ==
  ASSUME v_found \in Tables, Discovered(v_dv),
         NEW made, made = V!provisioned_status_from_discovered(v_dv)
  PROVE  /\ made \in [V!LABELS -> V!Status]
         /\ \A l \in V!LABELS : (\E i \in DOMAIN v_dv : v_dv[i].label = l) => made[l].dev = Dev(l)
<1> SUFFICES ASSUME NEW l \in V!LABELS
             PROVE  /\ made[l] \in V!Status
                    /\ (\E i \in DOMAIN v_dv : v_dv[i].label = l) => made[l].dev = Dev(l)
  BY Zenon DEF V!provisioned_status_from_discovered
<1>1. CASE \E i \in DOMAIN v_dv : v_dv[i].label = l
  <2> DEFINE d == CHOOSE i \in DOMAIN v_dv : v_dv[i].label = l
  <2>1. d \in DOMAIN v_dv /\ v_dv[d].label = l
    BY Zenon, <1>1
  <2>2. made[l] = [dev |-> d, fs |-> v_dv[d].fs]
    BY Zenon, <1>1 DEF V!provisioned_status_from_discovered
  <2> HIDE DEF d
  <2>3. d \in DOMAIN v_found /\ v_found[d] = l /\ v_dv[d].fs \in {"none", "vfat", "ext4"}
    BY Zenon, <2>1 DEF Discovered, V!LABELS
  <2>4. d = Dev(l) /\ Dev(l) \in 1..3
    BY Zenon, <2>3, TableFacts DEF V!Device
  <2> QED BY <2>2, <2>3, <2>4 DEF V!Status
<1>2. CASE ~\E i \in DOMAIN v_dv : v_dv[i].label = l
  BY <1>2 DEF V!provisioned_status_from_discovered, V!Absent, V!Status
<1> QED BY Zenon, <1>1, <1>2

LEMMA DiskInit == ASSUME V!Init PROVE DiskInv
<1>1. PICK k \in Kinds : v_gpt = V!TableOf(k) /\ v_part = V!PartsOf(k)
  BY Zenon DEF V!Init
<1>2. k \in {"blank", "foreign", "mbr", "image", "ours"} /\ MaxBoots \in Nat
  BY Zenon, DiskAssumption DEF V!VolumesAssumption
<1>3. v_gpt \in Tables
  BY Zenon, <1>1, <1>2, Layout DEF V!TableOf, Tables, Laid
<1>4. v_part \in [V!Device -> V!Content] /\ v_part[2].fs # "vfat" /\ v_part[3].fs # "vfat"
  <2>1. v_part \in [V!Device -> V!Content]
    BY Zenon, <1>1, <1>2 DEF V!PartsOf, V!Content, V!Empty, V!Device
  <2>2. v_part[2].fs # "vfat" /\ v_part[3].fs # "vfat"
    BY <1>1, <1>2 DEF V!PartsOf, V!Empty, V!Device
  <2> QED BY <2>1, <2>2
<1>5. Owning
  <2>1. CASE k = "image"
    BY <1>1, <2>1, TableFacts DEF V!PartsOf, V!TableOf, V!Empty, V!Device, Owning, Flashed
  <2>2. CASE k = "ours"
    BY <1>1, <2>2, Layout, TableFacts DEF V!PartsOf, V!TableOf, V!Device, Owning
  <2>3. CASE k \notin {"image", "ours"}
    BY Zenon, <1>1, <1>2, <2>3 DEF V!TableOf, Owning, Flashed, Laid
  <2> QED BY Zenon, <2>1, <2>2, <2>3
<1>6. DiskPlaces
  BY Zenon DEF V!Init, V!Fresh, DiskPlaces
<1>7. V!NoStatus \in [V!LABELS -> V!Status] /\ \A l \in V!LABELS : V!NoStatus[l] = V!Absent
  BY DEF V!NoStatus, V!Absent, V!Status
<1>8. /\ v_vs = V!NoStatus /\ v_statuses = V!NoStatus /\ v_seen = V!NoStatus
      /\ v_nodes = {} /\ v_todo = <<>> /\ v_mtodo = {} /\ v_ms = {} /\ v_boots = 0
      /\ v_mnt = [l \in V!LABELS |-> 0] /\ v_stage = "off" /\ v_found = <<>>
      /\ v_ppc = "new" /\ v_dpc = "new" /\ v_mpc = "new"
  BY Zenon DEF V!Init, V!Fresh
<1>9. Contents /\ Statuses /\ v_boots \in 0..MaxBoots
  BY <1>2, <1>4, <1>7, <1>8 DEF Contents, Statuses, V!Other
<1>10. Discovering
  <2>1. v_ds = FALSE
    BY Zenon DEF V!Init, V!Fresh
  <2> QED BY Zenon, <1>8, <2>1 DEF Discovering
<1>11. Deciding /\ Provisioned /\ MountsRight
  BY Zenon, <1>3, <1>7, <1>8, TableFacts DEF Deciding, Provisioned, MountsRight
<1> QED BY Zenon, <1>5, <1>6, <1>9, <1>10, <1>11 DEF DiskInv

(* What a step must keep of the disk, as KeptWithoutWipe and OursKept say. *)
KeepsDisk ==
  ~v_scene.wipe =>
    /\ \A i \in DOMAIN v_gpt : i \in DOMAIN v_gpt' /\ v_gpt'[i] = v_gpt[i]
    /\ \A d \in V!Device :
         v_part[d].data \in {"foreign", "image"} \/ (v_part[d].data = "node" /\ v_stage' = v_stage)
           => v_part'[d] = v_part[d]
KeepsOurs ==
  v_found = Laid /\ Readable /\ v_stage = "up" /\ v_stage' = "up" =>
    v_gpt' = v_gpt /\ \A d \in V!Device : v_part'[d].fs = v_part[d].fs

LEMMA DiskUntouched ==
  ASSUME DiskInv, v_gpt' = v_gpt, v_part' = v_part PROVE KeepsDisk /\ KeepsOurs
BY Zenon DEF KeepsDisk, KeepsOurs

LEMMA PowerUpStep == ASSUME DiskInv, V!PowerUp PROVE DiskInv' /\ KeepsDisk /\ KeepsOurs
<1>1. /\ v_stage = "off" /\ v_boots < MaxBoots /\ v_stage' = "early" /\ v_boots' = v_boots + 1
      /\ v_found' = v_gpt /\ v_nodes' = DOMAIN v_gpt
      /\ UNCHANGED <<v_scene, v_gpt, v_part, v_scan, v_dpc, v_dv, v_ds, v_ppc, v_todo, v_statuses,
                     v_wakeP, v_vs, v_mpc, v_seen, v_mtodo, v_wakeM, v_mnt, v_ms>>
  BY Zenon DEF V!PowerUp, V!discovery, V!provisioner, V!mounter
<1>2. v_dpc = "new" /\ v_ppc = "new" /\ v_vs = V!NoStatus /\ ~v_ds
  BY Zenon, <1>1 DEF DiskInv, Discovering
<1>3. MaxBoots \in Nat /\ v_gpt \in Tables
  BY Zenon, DiskAssumption DEF V!VolumesAssumption, DiskInv, Deciding
<1>4. DiskPlaces' /\ Statuses' /\ Owning' /\ MountsRight'
  BY <1>1 DEF DiskInv, DiskPlaces, Statuses, Owning, MountsRight
<1>5. Contents'
  BY Zenon, <1>1, <1>3, TableFacts DEF DiskInv, Contents
<1>6. v_boots' \in 0..MaxBoots
  BY <1>1, <1>3 DEF DiskInv
<1>7. Discovering' /\ Deciding' /\ Provisioned'
  BY Zenon, <1>1, <1>2, <1>3 DEF DiskInv, Discovering, Deciding, Provisioned
<1> QED BY Zenon, <1>1, <1>4, <1>5, <1>6, <1>7, DiskUntouched DEF DiskInv

LEMMA MountBootStep == ASSUME DiskInv, V!mount_boot PROVE DiskInv' /\ KeepsDisk /\ KeepsOurs
<1>1. /\ v_stage = "early" /\ v_stage' = "up"
      /\ UNCHANGED <<v_scene, v_boots, v_found, v_gpt, v_part, v_nodes, v_scan, v_dpc, v_dv, v_ds,
                     v_ppc, v_todo, v_statuses, v_wakeP, v_vs, v_mpc, v_seen, v_mtodo, v_wakeM, v_ms>>
  BY Zenon DEF V!mount_boot, V!discovery, V!provisioner, V!mounter, V!disk
<1>2. v_mnt' = v_mnt \/ \E d \in {1, V!Other} : v_mnt' = [v_mnt EXCEPT !["EFI"] = d]
  <2>1. PICK vols \in {V!list_volumes} \cup V!Misread :
          \/ \E d \in V!BootPartition(vols) : V!IsVfat(d) /\ v_mnt' = [v_mnt EXCEPT !["EFI"] = d]
          \/ v_mnt' = v_mnt
    BY Zenon DEF V!mount_boot
  <2>2. v_gpt \in Tables
    BY Zenon DEF DiskInv, Deciding
  <2>3. DOMAIN vols = DOMAIN v_gpt \/ DOMAIN vols = {}
    BY DEF V!list_volumes, V!Misread
  <2>4. \A d \in V!BootPartition(vols) : d \in V!Device \cup {V!Other}
    <3>1. \A v \in V!AllVolumes(vols) : v.dev \in DOMAIN vols \cup {V!Other}
      BY DEF V!AllVolumes
    <3>2. \A d \in V!BootPartition(vols) : \E v \in V!AllVolumes(vols) : d = v.dev
      BY Zenon DEF V!BootPartition
    <3>3. DOMAIN v_gpt \subseteq V!Device
      BY Zenon, <2>2, TableFacts
    <3> QED BY <2>3, <3>1, <3>2, <3>3
  <2>5. ASSUME NEW d \in V!BootPartition(vols), V!IsVfat(d) PROVE d \in {1, V!Other}
    BY <2>4, <2>5 DEF V!IsVfat, DiskInv, Contents, V!Device
  <2> QED BY Zenon, <2>1, <2>5
<1>3. v_mnt' \in [V!LABELS -> 0..V!Other] /\ \A l \in V!LABELS :
        v_mnt'[l] = v_mnt[l] \/ (l = "EFI" /\ v_mnt'[l] \in {1, V!Other})
  BY <1>2 DEF DiskInv, Contents, V!LABELS, V!Other
<1>4. DiskPlaces' /\ Statuses' /\ Owning' /\ v_boots' \in 0..MaxBoots /\ Contents'
  BY <1>1, <1>3 DEF DiskInv, DiskPlaces, Statuses, Owning, Contents
<1>5. Discovering' /\ Deciding' /\ Provisioned'
  <2>1. Discovering'
    BY Zenon, <1>1 DEF DiskInv, Discovering, Discovered
  <2>2. Deciding'
    BY Zenon, <1>1 DEF DiskInv, Deciding, Readable
  <2>3. v_ppc = "new"
    BY Zenon, <1>1 DEF DiskInv, Discovering
  <2> QED BY Zenon, <1>1, <2>1, <2>2, <2>3 DEF DiskInv, Provisioned
<1>6. MountsRight'
  <2>1. \A l \in V!LABELS : v_mnt'[l] = v_mnt[l] \/ v_mnt'[l] \in Mountable(l)
    BY Zenon, <1>3 DEF Mountable, Dev
  <2>2. v_ms \subseteq V!LABELS
    BY Zenon DEF DiskInv, Contents
  <2> QED BY Zenon, <1>1, <2>1, <2>2 DEF DiskInv, MountsRight
<1> QED BY Zenon, <1>1, <1>4, <1>5, <1>6, DiskUntouched DEF DiskInv

(* Power off: everything but the disk is as before the first boot.         *)
LEMMA OffStep ==
  ASSUME DiskInv, V!Off, v_gpt' = v_gpt, v_nodes' = v_nodes,
         v_part' \in [V!Device -> V!Content],
         \A d \in V!Device : v_part'[d].data \in {v_part[d].data, "none"},
         \A d \in V!Device : v_part'[d].fs \in {v_part[d].fs, "ext4"}
  PROVE  DiskInv'
<1>1. /\ v_stage' = "off" /\ v_dpc' = "new" /\ v_ds' = FALSE /\ v_ppc' = "new" /\ v_todo' = <<>>
      /\ v_statuses' = V!NoStatus /\ v_vs' = V!NoStatus /\ v_mpc' = "new" /\ v_seen' = V!NoStatus
      /\ v_mtodo' = {} /\ v_mnt' = [l \in V!LABELS |-> 0] /\ v_ms' = {}
      /\ v_wakeP' = FALSE /\ v_wakeM' = FALSE
      /\ UNCHANGED <<v_scene, v_boots, v_found>>
  BY Zenon DEF V!Off
<1>2. V!NoStatus \in [V!LABELS -> V!Status] /\ \A l \in V!LABELS : V!NoStatus[l] = V!Absent
  BY DEF V!NoStatus, V!Absent, V!Status
<1>3. DiskPlaces'
  BY Zenon, <1>1 DEF DiskInv, DiskPlaces
<1>4. Contents' /\ Statuses' /\ v_boots' \in 0..MaxBoots
  BY <1>1, <1>2 DEF DiskInv, Contents, Statuses, V!Device, V!Other
<1>5. Discovering' /\ Deciding' /\ Provisioned' /\ MountsRight'
  BY Zenon, <1>1, <1>2 DEF DiskInv, Discovering, Deciding, Provisioned, MountsRight
<1>6. Owning'
  BY <1>1 DEF DiskInv, Owning, V!Device
<1> QED BY Zenon, <1>3, <1>4, <1>5, <1>6 DEF DiskInv

LEMMA PowerCutStep == ASSUME DiskInv, V!PowerCut PROVE DiskInv' /\ KeepsDisk /\ KeepsOurs
<1>1. V!Off /\ v_gpt' = v_gpt /\ v_nodes' = v_nodes /\ v_part' = v_part
  BY Zenon DEF V!PowerCut, V!disk
<1> QED BY Zenon, <1>1, OffStep, DiskUntouched DEF DiskInv, Contents

LEMMA ResetStep == ASSUME DiskInv, V!Reset PROVE DiskInv' /\ KeepsDisk /\ KeepsOurs
<1>1. PICK done \in SUBSET {"STATE", "EPHEMERAL"} :
        v_part' = [d \in V!Device |-> IF \E l \in done : v_vs[l].dev = d
                                      THEN [fs |-> "ext4", data |-> "none"] ELSE v_part[d]]
  BY Zenon DEF V!Reset
<1>2. V!Off /\ v_gpt' = v_gpt /\ v_nodes' = v_nodes /\ v_stage = "up" /\ v_stage' = "off"
  BY Zenon DEF V!Reset, V!Off
<1>3. v_part' \in [V!Device -> V!Content]
  BY Zenon, <1>1 DEF DiskInv, Contents, V!Content
<1>4. \A d \in V!Device : v_part'[d].data \in {v_part[d].data, "none"}
  BY Zenon, <1>1
<1>7. \A d \in V!Device : v_part'[d].fs \in {v_part[d].fs, "ext4"}
  BY Zenon, <1>1
<1>5. ASSUME NEW d \in V!Device, ~v_scene.wipe, v_part[d].data \in {"foreign", "image"}
      PROVE  v_part'[d] = v_part[d]
  <2>1. SUFFICES ASSUME NEW l \in done, v_vs[l].dev = d PROVE FALSE
    BY Zenon, <1>1
  <2>2. l \in {"STATE", "EPHEMERAL"} /\ l \in V!LABELS
    BY Zenon DEF V!LABELS
  <2>3. v_vs[l] # V!Absent
    BY <2>1 DEF V!Absent, V!Device
  <2>4. d = Dev(l) /\ v_gpt = Laid
    BY Zenon, <1>5, <2>1, <2>2, <2>3 DEF DiskInv, Provisioned, V!NoStatus
  <2> QED BY Zenon, <1>5, <2>2, <2>4 DEF DiskInv, Owning, Dev
<1>6. KeepsDisk /\ KeepsOurs
  BY Zenon, <1>2, <1>5 DEF KeepsDisk, KeepsOurs
<1> QED BY Zenon, <1>2, <1>3, <1>4, <1>6, <1>7, OffStep

LEMMA UseVolumeStep ==
  ASSUME DiskInv, NEW l \in V!LABELS, V!UseVolume(l) PROVE DiskInv' /\ KeepsDisk /\ KeepsOurs
<1>1. /\ l \in v_ms \ {"EFI"} /\ v_part' = [v_part EXCEPT ![v_mnt[l]].data = "node"]
      /\ UNCHANGED <<v_scene, v_stage, v_boots, v_found, v_gpt, v_nodes, v_scan, v_dpc, v_dv, v_ds,
                     v_ppc, v_todo, v_statuses, v_wakeP, v_vs, v_mpc, v_seen, v_mtodo, v_wakeM,
                     v_mnt, v_ms>>
  BY Zenon DEF V!UseVolume, V!power, V!discovery, V!provisioner, V!mounter
<1>2. v_mnt[l] = Dev(l) /\ v_vs[l].dev = Dev(l) /\ Dev(l) \in {2, 3}
  BY Zenon, <1>1 DEF DiskInv, MountsRight, Mountable, V!LABELS, Dev
<1>3. \A d \in V!Device : v_part'[d] = IF d = Dev(l) THEN [v_part[d] EXCEPT !.data = "node"] ELSE v_part[d]
  BY Zenon, <1>1, <1>2 DEF DiskInv, Contents
<1>4. v_part' \in [V!Device -> V!Content] /\ \A d \in V!Device : v_part'[d].fs = v_part[d].fs
  <2>1. v_part' \in [V!Device -> V!Content]
    BY Zenon, <1>1, <1>2 DEF DiskInv, Contents, V!Content
  <2>2. \A d \in V!Device : v_part'[d].fs = v_part[d].fs
    BY <1>3 DEF DiskInv, Contents, V!Content
  <2> QED BY Zenon, <2>1, <2>2
<1>5. DiskPlaces' /\ Contents' /\ Statuses' /\ v_boots' \in 0..MaxBoots
  BY <1>1, <1>4 DEF DiskInv, DiskPlaces, Contents, Statuses, V!Device
<1>6. Discovering' /\ Deciding' /\ MountsRight'
  BY <1>1 DEF DiskInv, Discovering, Discovered, Deciding, Readable, MountsRight
<1>7. ASSUME ~v_scene.wipe PROVE v_gpt = Laid /\ v_vs # V!NoStatus
  BY <1>2, <1>7 DEF DiskInv, Provisioned, V!NoStatus, V!Absent
<1>8. Provisioned'
  <2>1. ASSUME NEW k \in 1..3, Formatting(k) PROVE Formatting(k)'
    BY Zenon, <1>1, <1>7, <2>1 DEF Formatting
  <2> QED BY Zenon, <1>1, <2>1 DEF DiskInv, Provisioned
<1>9. v_part[Dev(l)] \in V!Content /\ v_part'[Dev(l)].data = "node" /\ v_part'[Dev(l)].fs = v_part[Dev(l)].fs
  BY <1>2, <1>3 DEF DiskInv, Contents, V!Content, V!Device
<1>10. Owning'
  BY <1>1, <1>2, <1>3, <1>7, <1>9, TableFacts DEF DiskInv, Owning, V!Device
<1>11. KeepsOurs
  BY Zenon, <1>1, <1>3, <1>9 DEF KeepsOurs
<1>12. KeepsDisk
  <2>1. SUFFICES ASSUME ~v_scene.wipe, NEW d \in V!Device,
                        v_part[d].data \in {"foreign", "image", "node"}
                 PROVE  v_part'[d] = v_part[d]
    BY Zenon, <1>1 DEF KeepsDisk
  <2>2. CASE d = Dev(l)
    <3>1. v_part[d].data = "node"
      BY Zenon, <1>2, <1>7, <2>1, <2>2 DEF DiskInv, Owning
    <3>2. v_part[d] \in V!Content
      BY Zenon DEF DiskInv, Contents
    <3> QED BY <1>3, <2>2, <3>1, <3>2 DEF V!Content
  <2> QED BY Zenon, <1>3, <2>2
<1> QED BY Zenon, <1>5, <1>6, <1>8, <1>10, <1>11, <1>12 DEF DiskInv

(* A list the discovery reads is one it can have made of the table.        *)
LEMMA Scanned ==
  ASSUME DiskInv, v_gpt = v_found, NEW s \in {V!list_volumes} \cup V!Misread
  PROVE  Discovered(s)
<1>1. v_found \in Tables /\ v_part \in [V!Device -> V!Content]
  BY Zenon DEF DiskInv, Deciding, Contents
<1>2. /\ v_found \in Seq(V!LABELS \cup {"none", "DATA"}) /\ DOMAIN v_found = 1..Len(v_found)
      /\ Len(v_found) \in Nat /\ DOMAIN v_found \subseteq V!Device
  BY <1>1, TableFacts
<1>3. \A i \in DOMAIN v_found : v_part[i].fs \in {"none", "vfat", "ext4"}
  BY Zenon, <1>1, <1>2 DEF V!Content
<1>4. CASE s = V!list_volumes
  <2>1. DOMAIN s = 1..Len(v_found) /\ Len(s) = Len(v_found)
    BY <1>2, <1>4 DEF V!list_volumes
  <2> QED BY Zenon, <1>2, <1>3, <1>4, <2>1 DEF V!list_volumes, Discovered
<1>5. CASE s \in V!Misread
  <2>1. "read" \in v_scene.faults
    BY Zenon, <1>5 DEF V!Misread, V!Faults
  <2>2. CASE s = <<>>
    BY <2>1, <2>2 DEF Discovered
  <2>3. CASE s = [i \in DOMAIN v_gpt |-> [label |-> "none", fs |-> v_part[i].fs]]
    <3>1. DOMAIN s = 1..Len(v_found) /\ Len(s) = Len(v_found)
      BY <1>2, <2>3
    <3> QED BY Zenon, <1>2, <1>3, <2>1, <2>3, <3>1 DEF Discovered
  <2>4. CASE s = [i \in DOMAIN v_gpt |-> [label |-> v_gpt[i], fs |-> "none"]]
    <3>1. DOMAIN s = 1..Len(v_found) /\ Len(s) = Len(v_found)
      BY <1>2, <2>4
    <3> QED BY Zenon, <1>2, <2>1, <2>4, <3>1 DEF Discovered
  <2> QED BY Zenon, <1>5, <2>2, <2>3, <2>4 DEF V!Misread
<1> QED BY Zenon, <1>4, <1>5

(* The discovery's steps leave the rest as it is.                          *)
LEMMA DiscoveryStep == ASSUME DiskInv, V!Discovery PROVE DiskInv' /\ KeepsDisk /\ KeepsOurs
<1>1. /\ v_stage = "up" /\ v_stage' = "up"
      /\ UNCHANGED <<v_scene, v_boots, v_found, v_gpt, v_part, v_nodes, v_ppc, v_todo, v_statuses,
                     v_vs, v_mpc, v_seen, v_mtodo, v_wakeM, v_mnt, v_ms>>
  BY Zenon DEF V!Discovery, V!Discover, V!PublishVolumes, V!PublishDisks, V!power, V!disk,
         V!provisioner, V!mounter
<1>2. v_wakeP' \in BOOLEAN
  BY Zenon DEF V!Discovery, V!Discover, V!PublishVolumes, V!PublishDisks, V!Notify, DiskInv, DiskPlaces
<1>3. Statuses' /\ v_boots' \in 0..MaxBoots /\ Contents' /\ Deciding' /\ MountsRight' /\ Owning'
  BY <1>1 DEF DiskInv, Statuses, Contents, Deciding, Readable, MountsRight, Owning
<1>4. Provisioned'
  BY Zenon, <1>1 DEF DiskInv, Provisioned, Formatting
<1>5. CASE V!Discover
  <2>1. /\ v_dpc = "new" /\ v_dv' = v_dv /\ v_ds' = v_ds
        /\ \/ v_scan' \in {V!list_volumes} \cup V!Misread /\ v_dpc' = "scanned"
           \/ v_dpc' = "done"
    BY Zenon, <1>5 DEF V!Discover
  <2>2. ~v_ds /\ v_gpt = v_found
    BY Zenon, <1>1, <2>1 DEF DiskInv, Discovering
  <2>3. v_dpc' = "scanned" => Discovered(v_scan')
    BY Zenon, <2>1, <2>2, Scanned
  <2>4. Discovering'
    BY <1>1, <2>1, <2>2, <2>3 DEF DiskInv, Discovering, Discovered
  <2>5. DiskPlaces'
    BY Zenon, <1>1, <1>2, <2>1 DEF DiskInv, DiskPlaces
  <2> QED BY Zenon, <1>3, <1>4, <2>4, <2>5, <1>1, DiskUntouched DEF DiskInv
<1>6. CASE V!PublishVolumes
  <2>1. v_dpc = "scanned" /\ v_dv' = v_scan /\ v_dpc' = "volumes" /\ v_ds' = v_ds /\ v_scan' = v_scan
    BY Zenon, <1>6 DEF V!PublishVolumes
  <2>2. Discovering'
    BY Zenon, <1>1, <2>1 DEF DiskInv, Discovering, Discovered
  <2>3. DiskPlaces'
    BY Zenon, <1>1, <1>2, <2>1 DEF DiskInv, DiskPlaces
  <2> QED BY Zenon, <1>3, <1>4, <2>2, <2>3, <1>1, DiskUntouched DEF DiskInv
<1>7. CASE V!PublishDisks
  <2>1. v_dpc = "volumes" /\ v_ds' = TRUE /\ v_dpc' = "done" /\ v_dv' = v_dv /\ v_scan' = v_scan
    BY Zenon, <1>7 DEF V!PublishDisks
  <2>2. Discovering'
    BY Zenon, <1>1, <2>1 DEF DiskInv, Discovering, Discovered
  <2>3. DiskPlaces'
    BY Zenon, <1>1, <1>2, <2>1 DEF DiskInv, DiskPlaces
  <2> QED BY Zenon, <1>3, <1>4, <2>2, <2>3, <1>1, DiskUntouched DEF DiskInv
<1> QED BY Zenon, <1>5, <1>6, <1>7 DEF V!Discovery

-----------------------------------------------------------------------------
(* The provisioner's steps.                                                *)

LEMMA WakeStep == ASSUME DiskInv, V!Wake PROVE DiskInv' /\ KeepsDisk /\ KeepsOurs
<1>1. /\ v_stage = "up" /\ v_ppc' = "Decide" /\ v_wakeP' = FALSE
      /\ v_todo' = <<>> /\ v_statuses' = V!NoStatus
      /\ UNCHANGED <<v_scene, v_stage, v_boots, v_found, v_gpt, v_part, v_nodes, v_scan, v_dpc, v_dv,
                     v_ds, v_vs, v_mpc, v_seen, v_mtodo, v_wakeM, v_mnt, v_ms>>
      /\ v_ppc \in {"new", "idle"}
  BY Zenon DEF V!Wake, V!power, V!disk, V!discovery, V!mounter
<1>2. V!NoStatus \in [V!LABELS -> V!Status]
  BY DEF V!NoStatus, V!Absent, V!Status
<1>3. DiskPlaces' /\ Contents' /\ Statuses' /\ v_boots' \in 0..MaxBoots /\ Owning' /\ MountsRight'
  <2>1. DiskPlaces'
    BY Zenon, <1>1 DEF DiskInv, DiskPlaces
  <2>2. Contents' /\ Statuses'
    BY <1>1, <1>2 DEF DiskInv, Contents, Statuses
  <2>3. v_boots' \in 0..MaxBoots /\ Owning' /\ MountsRight'
    BY Zenon, <1>1 DEF DiskInv, Owning, MountsRight
  <2> QED BY <2>1, <2>2, <2>3
<1>4. Discovering' /\ Deciding' /\ Provisioned'
  BY Zenon, <1>1 DEF DiskInv, Discovering, Discovered, Deciding, Readable, Provisioned
<1> QED BY Zenon, <1>1, <1>3, <1>4, DiskUntouched DEF DiskInv

LEMMA StepRest ==
  ASSUME NEW where, V!Step(where)
  PROVE  /\ v_ppc' = where
         /\ UNCHANGED <<v_scene, v_stage, v_boots, v_found, v_scan, v_dpc, v_dv, v_ds, v_wakeP,
                        v_vs, v_mpc, v_seen, v_mtodo, v_wakeM, v_mnt, v_ms>>
BY Zenon DEF V!Step, V!power, V!discovery, V!mounter

(* The parts of the invariant that a step of the provisioner cannot        *)
(* disturb.                                                                *)
LEMMA StepKeeps ==
  ASSUME DiskInv, v_stage = "up", v_ds, NEW where,
         where \in {"Wipe", "Create", "Add", "Format", "Publish", "idle"}, V!Step(where)
  PROVE  DiskPlaces' /\ v_boots' \in 0..MaxBoots /\ Discovering' /\ MountsRight'
<1>1. DiskPlaces' /\ v_boots' \in 0..MaxBoots /\ MountsRight'
  BY Zenon, StepRest DEF DiskInv, DiskPlaces, MountsRight
<1>2. Discovering'
  BY Zenon, StepRest DEF DiskInv, Discovering, Discovered
<1> QED BY Zenon, <1>1, <1>2

LEMMA Running ==
  ASSUME DiskInv, v_ppc \in {"Wipe", "Create", "Add", "Format", "Publish"}
  PROVE  v_stage = "up" /\ v_ds
BY Zenon DEF DiskInv, DiskPlaces, Discovering

LEMMA DecideStep == ASSUME DiskInv, V!Decide PROVE DiskInv' /\ KeepsDisk /\ KeepsOurs
<1>1. v_ppc = "Decide" /\ UNCHANGED <<v_gpt, v_part, v_nodes, v_todo>>
  BY Zenon DEF V!Decide, V!disk
<1>2. v_stage = "up"
  BY Zenon, <1>1 DEF DiskInv, DiskPlaces, Discovering
<1>3. Contents'
  <2>1. UNCHANGED <<v_mtodo, v_ms, v_mnt>>
    BY Zenon, StepRest DEF V!Decide
  <2> QED BY Zenon, <1>1, <2>1 DEF DiskInv, Contents
<1>4. CASE V!Step("idle") /\ v_statuses' = v_statuses
  <2>1. DiskPlaces' /\ Discovering' /\ MountsRight' /\ v_boots' \in 0..MaxBoots
    BY Zenon, <1>1, <1>2, <1>4, StepRest DEF DiskInv, DiskPlaces, Discovering, Discovered, MountsRight
  <2>2. Statuses' /\ Owning'
    BY Zenon, <1>1, <1>4, StepRest DEF DiskInv, Statuses, Owning
  <2>3. Deciding'
    BY <1>1, <1>2, <1>4, StepRest DEF DiskInv, Deciding, Readable
  <2>4. Provisioned'
    BY <1>1, <1>4, StepRest DEF DiskInv, Provisioned
  <2> QED BY Zenon, <1>1, <1>3, <2>1, <2>2, <2>3, <2>4, DiskUntouched DEF DiskInv
<1>5. CASE v_ds /\ ~(V!Step("idle") /\ v_statuses' = v_statuses)
  <2> DEFINE decision == V!plan_provisioning(v_scene.wipe, v_dv)
             made == V!provisioned_status_from_discovered(v_dv)
  <2>1. /\ decision = "Skip" => V!Step("Publish") /\ v_statuses' = made
        /\ decision = "CompleteLayout" => V!Step("Add") /\ v_statuses' = made
        /\ decision = "Provision" => v_statuses' = v_statuses /\ (V!Step("Wipe") \/ V!Step("Create"))
        /\ decision # "RefuseForeign"
    BY <1>5, Zenon DEF V!Decide, V!Wipe
  <2>2. v_found \in Tables /\ Discovered(v_dv) /\ v_scene.wipe \in BOOLEAN
    <3>1. v_scene \in V!Scene
      BY Zenon, DiskAssumption DEF V!VolumesAssumption, DiskInv, DiskPlaces
    <3> QED BY Zenon, <1>5, <3>1 DEF DiskInv, Deciding, Discovering, V!Scene
  <2>3. /\ decision = "Skip" => v_found = Laid
        /\ decision = "CompleteLayout" => ~v_scene.wipe /\ v_found = Flashed
        /\ decision = "Provision" => v_scene.wipe
        /\ v_found = Laid /\ "read" \notin v_scene.faults => decision = "Skip"
        /\ decision \in {"Skip", "Provision", "CompleteLayout", "RefuseForeign"}
    BY Zenon, <2>2, Plan
  <2>4. /\ made \in [V!LABELS -> V!Status]
        /\ \A l \in V!LABELS : (\E i \in DOMAIN v_dv : v_dv[i].label = l) => made[l].dev = Dev(l)
    BY Zenon, <2>2, FromDiscovered
  <2>5. decision = "Skip" => \A l \in V!LABELS : \E i \in DOMAIN v_dv : v_dv[i].label = l
    BY Zenon DEF V!plan_provisioning
  <2>6. decision = "CompleteLayout" => \E i \in DOMAIN v_dv : v_dv[i].label = "EFI"
    BY Zenon DEF V!plan_provisioning
  <2> HIDE DEF decision, made
  <2>7. PICK where \in {"Wipe", "Create", "Add", "Publish"} :
          /\ V!Step(where) /\ v_statuses' \in {v_statuses, made}
          /\ where = "Publish" => v_found = Laid /\ \A l \in V!LABELS : v_statuses'[l].dev = Dev(l)
          /\ where = "Add" => ~v_scene.wipe /\ v_found = Flashed /\ v_statuses'["EFI"].dev = 1
          /\ where \in {"Wipe", "Create"} => v_scene.wipe /\ ~(v_found = Laid /\ Readable)
    BY Zenon, <2>1, <2>3, <2>4, <2>5, <2>6 DEF V!LABELS, Dev, Readable
  <2>8. DiskPlaces' /\ v_boots' \in 0..MaxBoots /\ Discovering' /\ MountsRight'
    BY Zenon, <1>2, <1>5, <2>7, StepKeeps
  <2>9. /\ v_ppc' = where /\ UNCHANGED <<v_scene, v_stage, v_found, v_vs, v_seen>>
    BY Zenon, <2>7, StepRest
  <2>10. Statuses' /\ Owning'
    BY Zenon, <1>1, <2>4, <2>7, <2>9 DEF DiskInv, Statuses, Owning
  <2>11. Deciding'
    BY Zenon, <1>1, <1>2, <2>7, <2>9, TableFacts DEF DiskInv, Deciding, Readable
  <2>12. Provisioned'
    BY Zenon, <1>1, <1>2, <2>7, <2>9, TableFacts DEF DiskInv, Deciding, Provisioned
  <2> QED BY Zenon, <1>1, <1>3, <2>8, <2>10, <2>11, <2>12, DiskUntouched DEF DiskInv
<1>6. v_ds \/ (V!Step("idle") /\ v_statuses' = v_statuses)
  BY Zenon DEF V!Decide
<1> QED BY Zenon, <1>4, <1>5, <1>6

LEMMA WipeStep == ASSUME DiskInv, V!wipe PROVE DiskInv' /\ KeepsDisk /\ KeepsOurs
<1>1. /\ v_ppc = "Wipe" /\ UNCHANGED <<v_part, v_todo, v_statuses>>
      /\ \/ v_gpt' = <<>> /\ V!reread({}) /\ V!Step("Create")
         \/ UNCHANGED <<v_gpt, v_nodes>> /\ V!Step("idle")
  BY Zenon DEF V!wipe
<1>2. v_stage = "up" /\ v_ds
  BY Zenon, <1>1, Running
<1>3. v_scene.wipe /\ ~(v_found = Laid /\ Readable)
  BY Zenon, <1>1, <1>2 DEF DiskInv, Deciding
<1>4. DiskPlaces' /\ v_boots' \in 0..MaxBoots /\ Discovering' /\ MountsRight'
  BY Zenon, <1>1, <1>2, StepKeeps
<1>5. /\ v_ppc' \in {"Create", "idle"} /\ v_gpt' \in Tables /\ v_nodes' \in {v_nodes, {}}
      /\ UNCHANGED <<v_scene, v_stage, v_found, v_vs, v_seen, v_mtodo, v_ms, v_mnt>>
  BY <1>1, StepRest, TableFacts DEF V!reread, DiskInv, Deciding
<1>6. Contents' /\ Statuses'
  BY Zenon, <1>1, <1>5 DEF DiskInv, Contents, Statuses
<1>7. Deciding' /\ Provisioned' /\ Owning'
  BY Zenon, <1>2, <1>3, <1>5 DEF DiskInv, Deciding, Readable, Provisioned, Owning
<1>8. KeepsDisk /\ KeepsOurs
  BY Zenon, <1>3 DEF KeepsDisk, KeepsOurs
<1> QED BY Zenon, <1>4, <1>6, <1>7, <1>8 DEF DiskInv

LEMMA CreateStep == ASSUME DiskInv, V!create_partitions PROVE DiskInv' /\ KeepsDisk /\ KeepsOurs
<1>1. v_ppc = "Create" /\ v_statuses' = v_statuses
  BY Zenon DEF V!create_partitions
<1>2. v_stage = "up" /\ v_ds
  BY Zenon, <1>1, Running
<1>3. v_scene.wipe /\ ~(v_found = Laid /\ Readable)
  BY Zenon, <1>1, <1>2 DEF DiskInv, Deciding
<1>4. KeepsDisk /\ KeepsOurs
  BY Zenon, <1>3 DEF KeepsDisk, KeepsOurs
<1>5. CASE UNCHANGED <<v_gpt, v_part, v_nodes, v_todo>> /\ V!Step("idle")
  <2>1. DiskPlaces' /\ v_boots' \in 0..MaxBoots /\ Discovering' /\ MountsRight'
    BY Zenon, <1>2, <1>5, StepKeeps
  <2>2. v_ppc' = "idle" /\ UNCHANGED <<v_scene, v_stage, v_found, v_vs, v_mtodo, v_ms, v_mnt, v_seen>>
    BY Zenon, <1>5, StepRest
  <2>3. Contents' /\ Statuses'
    BY Zenon, <1>1, <1>5, <2>2 DEF DiskInv, Contents, Statuses
  <2>4. Deciding' /\ Provisioned' /\ Owning'
    BY Zenon, <1>2, <1>3, <1>5, <2>2 DEF DiskInv, Deciding, Readable, Provisioned, Owning
  <2> QED BY Zenon, <1>4, <2>1, <2>3, <2>4 DEF DiskInv
<1>6. CASE /\ v_gpt' = V!Ours /\ V!reread(V!Device)
           /\ \E gone \in SUBSET {d \in V!Device : v_part[d].data = "foreign"} :
                v_part' = [d \in V!Device |-> IF d \in gone THEN V!Empty ELSE v_part[d]]
           /\ v_todo' = V!ToFormat(V!fixed_layout, 1) /\ V!Step("Format")
  <2>1. DiskPlaces' /\ v_boots' \in 0..MaxBoots /\ Discovering' /\ MountsRight'
    BY Zenon, <1>2, <1>6, StepKeeps
  <2>2. v_ppc' = "Format" /\ UNCHANGED <<v_scene, v_stage, v_found, v_vs, v_mtodo, v_ms, v_mnt, v_seen>>
    BY Zenon, <1>6, StepRest
  <2>3. v_gpt' = Laid /\ v_todo' = Planned(1) /\ v_nodes' \in {v_nodes, V!Device}
    BY Zenon, <1>6, Layout DEF V!reread
  <2>4. v_part' \in [V!Device -> V!Content] /\ v_part'[2].fs # "vfat" /\ v_part'[3].fs # "vfat"
    BY <1>6 DEF DiskInv, Contents, V!Empty, V!Content, V!Device
  <2>5. Contents' /\ Statuses'
    <3>1. \A i \in DOMAIN v_todo' : v_todo'[i].dev \in V!Device
      BY <2>3, PlanOrder DEF V!Device
    <3>2. Contents'
      BY Zenon, <2>2, <2>3, <2>4, <3>1 DEF DiskInv, Contents
    <3>3. Statuses'
      BY Zenon, <1>1, <2>2 DEF DiskInv, Statuses
    <3> QED BY Zenon, <3>2, <3>3
  <2>6. Formatting(1)'
    BY <1>3, <2>2, <2>3 DEF Formatting, Dev
  <2>7. Deciding' /\ Provisioned' /\ Owning'
    <3>1. Deciding' /\ Owning'
      BY Zenon, <1>2, <1>3, <2>2, <2>3, TableFacts DEF DiskInv, Deciding, Readable, Owning
    <3>2. Provisioned'
      BY <1>3, <2>2, <2>3, <2>6 DEF DiskInv, Provisioned
    <3> QED BY Zenon, <3>1, <3>2
  <2> QED BY Zenon, <1>4, <2>1, <2>5, <2>7 DEF DiskInv
<1> QED BY Zenon, <1>5, <1>6 DEF V!create_partitions, V!disk

LEMMA Completed == <<"EFI">> \o <<"STATE", "EPHEMERAL">> = <<"EFI", "STATE", "EPHEMERAL">>
<1> DEFINE c == <<"EFI">> \o <<"STATE", "EPHEMERAL">>
           t == <<"EFI", "STATE", "EPHEMERAL">>
<1>1. /\ Len(<<"EFI">>) = 1 /\ Len(<<"STATE", "EPHEMERAL">>) = 2
      /\ <<"EFI">> \in Seq(V!LABELS) /\ <<"STATE", "EPHEMERAL">> \in Seq(V!LABELS)
  BY DEF V!LABELS
<1>2. c \in Seq(V!LABELS) /\ Len(c) = 3 /\ c[1] = "EFI" /\ c[2] = "STATE" /\ c[3] = "EPHEMERAL"
  BY <1>1
<1>3. t \in Seq(V!LABELS) /\ Len(t) = 3 /\ t[1] = "EFI" /\ t[2] = "STATE" /\ t[3] = "EPHEMERAL"
  BY DEF V!LABELS
<1> HIDE DEF c, t
<1>4. c \in [1..3 -> V!LABELS] /\ t \in [1..3 -> V!LABELS] /\ \A i \in 1..3 : c[i] = t[i]
  BY <1>2, <1>3
<1>5. c = t
  BY <1>4
<1> QED BY Zenon, <1>5 DEF c, t

(* A disk that holds the boot image alone gets the partitions it lacks,    *)
(* and nothing was on them.                                                *)
LEMMA AddStep == ASSUME DiskInv, V!add_partitions PROVE DiskInv' /\ KeepsDisk /\ KeepsOurs
<1>1. v_ppc = "Add" /\ UNCHANGED <<v_part, v_statuses>>
  BY Zenon DEF V!add_partitions
<1>2. v_stage = "up" /\ v_ds
  BY Zenon, <1>1, Running
<1>3. ~v_scene.wipe /\ v_found = Flashed /\ v_statuses["EFI"].dev = 1 /\ v_gpt \in {Flashed, Laid}
  BY Zenon, <1>1, <1>2 DEF DiskInv, Deciding
<1>4. CASE UNCHANGED <<v_gpt, v_nodes, v_todo>> /\ V!Step("idle")
  <2>1. DiskPlaces' /\ v_boots' \in 0..MaxBoots /\ Discovering' /\ MountsRight'
    BY Zenon, <1>2, <1>4, StepKeeps
  <2>2. v_ppc' = "idle" /\ UNCHANGED <<v_scene, v_stage, v_found, v_vs, v_mtodo, v_ms, v_mnt, v_seen>>
    BY Zenon, <1>4, StepRest
  <2>3. Contents' /\ Statuses' /\ Owning'
    BY Zenon, <1>1, <1>4, <2>2 DEF DiskInv, Contents, Statuses, Owning
  <2>4. Deciding' /\ Provisioned'
    BY Zenon, <1>2, <1>4, <2>2 DEF DiskInv, Deciding, Readable, Provisioned
  <2> QED BY Zenon, <1>1, <1>4, <2>1, <2>3, <2>4, DiskUntouched DEF DiskInv
<1>5. CASE /\ \A i \in DOMAIN V!AppendLayout : ~V!Has(V!AppendLayout[i].label)
           /\ V!AddToTable(V!AppendLayout)
           /\ V!Step("Format") \/ V!Step("idle")
  <2>1. DiskPlaces' /\ v_boots' \in 0..MaxBoots /\ Discovering' /\ MountsRight'
    BY Zenon, <1>2, <1>5, StepKeeps
  <2>2. /\ v_ppc' \in {"Format", "idle"}
        /\ UNCHANGED <<v_scene, v_stage, v_found, v_vs, v_mtodo, v_ms, v_mnt, v_seen>>
    BY Zenon, <1>5, StepRest
  <2>3. v_gpt = Flashed
    <3>1. ~V!Has("STATE")
      BY <1>5, Layout
    <3> QED BY <1>3, <3>1 DEF V!Has, Laid
  <2>4. v_gpt' = Laid
    <3>1. v_gpt' = Flashed \o <<"STATE", "EPHEMERAL">>
      BY Zenon, <1>5, <2>3, Layout DEF V!AddToTable
    <3> QED BY Zenon, <3>1, Completed DEF Flashed, Laid
  <2>5. v_todo' = Planned(2)
    BY <1>5, <2>3, Layout, TableFacts DEF V!AddToTable
  <2>6. v_nodes' \subseteq V!Device
    <3>1. v_nodes' = v_nodes \cup {Planned(2)[i].dev : i \in 1..2}
      BY Zenon, <1>5, <2>5, Layout DEF V!AddToTable
    <3>2. \A i \in 1..2 : Planned(2)[i].dev \in V!Device
      BY DEF Planned, V!Device
    <3> QED BY Zenon, <3>1, <3>2 DEF DiskInv, Contents
  <2>7. Contents' /\ Statuses'
    <3>1. \A i \in DOMAIN v_todo' : v_todo'[i].dev \in V!Device
      BY <2>5, PlanOrder DEF V!Device
    <3>2. Contents'
      BY Zenon, <1>1, <2>2, <2>6, <3>1 DEF DiskInv, Contents
    <3>3. Statuses'
      BY Zenon, <1>1, <2>2 DEF DiskInv, Statuses
    <3> QED BY Zenon, <3>2, <3>3
  <2>8. v_vs = V!NoStatus /\ v_part[2].data = "none" /\ v_part[3].data = "none"
    BY Zenon, <1>3, <2>3, TableFacts DEF DiskInv, Provisioned, Owning
  <2>9. Formatting(2)'
    BY <1>1, <1>3, <2>2, <2>5, <2>8 DEF Formatting, Dev, V!LABELS
  <2>10. Deciding' /\ Provisioned' /\ Owning'
    <3>1. Deciding' /\ Owning'
      BY Zenon, <1>1, <1>3, <2>2, <2>4, <2>8, TableFacts DEF DiskInv, Deciding, Readable, Owning
    <3>2. Provisioned'
      BY <1>1, <2>2, <2>4, <2>8, <2>9 DEF Provisioned
    <3> QED BY Zenon, <3>1, <3>2
  <2>11. KeepsDisk /\ KeepsOurs
    BY <1>1, <1>3, <2>3, <2>4, TableFacts DEF KeepsDisk, KeepsOurs, Flashed, Laid
  <2> QED BY Zenon, <2>1, <2>7, <2>10, <2>11 DEF DiskInv
<1> QED BY Zenon, <1>4, <1>5 DEF V!add_partitions

LEMMA FormatStep == ASSUME DiskInv, V!format PROVE DiskInv' /\ KeepsDisk /\ KeepsOurs
<1>1. v_ppc = "Format" /\ v_gpt' = v_gpt /\ v_nodes' = v_nodes
  BY Zenon DEF V!format
<1>2. v_stage = "up" /\ v_ds /\ ~(v_found = Laid /\ Readable) /\ v_gpt = Laid
  BY Zenon, <1>1, Running DEF DiskInv, Deciding, Provisioned
<1>3. PICK k \in 1..3 : Formatting(k)
  BY Zenon, <1>1 DEF DiskInv, Provisioned
<1>4. CASE V!Step("idle") /\ UNCHANGED <<v_part, v_todo, v_statuses>>
  <2>1. DiskPlaces' /\ v_boots' \in 0..MaxBoots /\ Discovering' /\ MountsRight'
    BY Zenon, <1>2, <1>4, StepKeeps
  <2>2. v_ppc' = "idle" /\ UNCHANGED <<v_scene, v_stage, v_found, v_vs, v_mtodo, v_ms, v_mnt, v_seen>>
    BY Zenon, <1>4, StepRest
  <2>3. Contents' /\ Statuses' /\ Owning'
    BY Zenon, <1>1, <1>4, <2>2 DEF DiskInv, Contents, Statuses, Owning
  <2>4. Deciding' /\ Provisioned'
    BY Zenon, <1>1, <1>2, <1>4, <2>2 DEF DiskInv, Deciding, Readable, Provisioned
  <2> QED BY Zenon, <1>1, <1>4, <2>1, <2>3, <2>4, DiskUntouched DEF DiskInv
<1>5. ASSUME NEW p, p = Head(v_todo),
             v_part' = [v_part EXCEPT ![p.dev] = [fs |-> p.fs, data |-> "none"]],
             v_statuses' = [v_statuses EXCEPT ![p.label] = [dev |-> p.dev, fs |-> p.fs]],
             v_todo' = Tail(v_todo),
             V!Step(IF v_todo' = <<>> THEN "Publish" ELSE "Format")
      PROVE  DiskInv' /\ KeepsDisk /\ KeepsOurs
  <2>1. PICK lab \in V!LABELS, fs \in {"vfat", "ext4"} :
          p = [label |-> lab, fs |-> fs, dev |-> k] /\ Dev(lab) = k /\ (k > 1 => fs = "ext4")
    BY <1>3, <1>5, PlanOrder DEF Formatting, V!LABELS, Dev
  <2>2. /\ v_part' = [v_part EXCEPT ![k] = [fs |-> fs, data |-> "none"]]
        /\ v_statuses' = [v_statuses EXCEPT ![lab] = [dev |-> k, fs |-> fs]]
    <3>1. p.label = lab /\ p.fs = fs /\ p.dev = k
      BY Zenon, <2>1
    <3> QED BY Zenon, <1>5, <3>1
  <2>3. v_todo' = IF k = 3 THEN <<>> ELSE Planned(k + 1)
    <3>1. v_todo = Planned(k)
      BY Zenon, <1>3 DEF Formatting
    <3> QED BY Zenon, <1>5, <3>1, PlanNext
  <2>4. PICK where \in {"Publish", "Format"} :
          V!Step(where) /\ (where = "Publish" => k = 3) /\ (where = "Format" => k < 3)
    <3>1. k < 3 => Planned(k + 1) # <<>>
      BY Zenon, PlanNext
    <3>2. CASE k = 3
      BY Zenon, <1>5, <2>3, <3>2
    <3>3. CASE k < 3
      <4>1. v_todo' # <<>>
        BY <2>3, <3>1, <3>3
      <4> QED BY Zenon, <1>5, <3>3, <4>1
    <3> QED BY <3>2, <3>3
  <2>5. DiskPlaces' /\ v_boots' \in 0..MaxBoots /\ Discovering' /\ MountsRight'
    BY Zenon, <1>2, <2>4, StepKeeps
  <2>6. v_ppc' = where /\ UNCHANGED <<v_scene, v_stage, v_found, v_vs, v_mtodo, v_ms, v_mnt, v_seen>>
    BY Zenon, <2>4, StepRest
  <2>7. /\ v_part' \in [V!Device -> V!Content] /\ v_statuses' \in [V!LABELS -> V!Status]
        /\ v_part'[2].fs # "vfat" /\ v_part'[3].fs # "vfat"
    BY <2>1, <2>2 DEF DiskInv, Contents, Statuses, V!Content, V!Status, V!Device
  <2>8. Contents' /\ Statuses'
    <3>1. \A i \in DOMAIN v_todo' : v_todo'[i].dev \in V!Device
      <4>1. CASE k = 3
        BY <2>3, <4>1
      <4>2. CASE k < 3
        BY <2>3, <4>2, PlanOrder DEF V!Device
      <4> QED BY <4>1, <4>2
    <3>2. Contents'
      BY Zenon, <1>1, <2>6, <2>7, <3>1 DEF DiskInv, Contents
    <3>3. Statuses'
      BY Zenon, <2>6, <2>7 DEF DiskInv, Statuses
    <3> QED BY Zenon, <3>2, <3>3
  <2>9. \A l \in V!LABELS : Dev(l) <= k => v_statuses'[l].dev = Dev(l)
    BY <1>3, <2>1, <2>2 DEF Formatting, DiskInv, Statuses, Dev, V!LABELS
  <2>10. /\ \A d \in V!Device : d # k => v_part'[d] = v_part[d]
         /\ v_part'[k].data = "none"
    BY Zenon, <2>2 DEF DiskInv, Contents, V!Device
  <2>11. where = "Format" => Formatting(k + 1)'
    <3>1. ASSUME ~v_scene.wipe, k < 3
          PROVE  k + 1 > 1 /\ v_found = Flashed /\ v_vs = V!NoStatus
                 /\ \A d \in (k + 1)..3 : v_part'[d].data = "none"
      BY <1>3, <2>10, <3>1 DEF Formatting, V!Device
    <3>2. \A l \in V!LABELS : Dev(l) < k + 1 => Dev(l) <= k
      BY DEF Dev
    <3> QED BY <2>3, <2>4, <2>6, <2>9, <3>1, <3>2 DEF Formatting
  <2>12. where = "Publish" => \A l \in V!LABELS : v_statuses'[l].dev = Dev(l)
    <3>1. \A l \in V!LABELS : Dev(l) <= 3
      BY DEF Dev
    <3> QED BY Zenon, <2>4, <2>9, <3>1
  <2>13. Deciding' /\ Owning'
    <3>1. Deciding'
      BY Zenon, <1>1, <1>2, <2>6 DEF DiskInv, Deciding, Readable
    <3>2. \A d \in V!Device : v_part'[d].data \in {v_part[d].data, "none"}
      BY Zenon, <2>10
    <3>3. Owning'
      BY <1>1, <2>6, <3>2 DEF DiskInv, Owning, V!Device
    <3> QED BY Zenon, <3>1, <3>3
  <2>14. Provisioned'
    <3>1. v_ppc' = "Format" => v_gpt' = Laid /\ \E j \in 1..3 : Formatting(j)'
      <4>1. where = "Format" => k + 1 \in 1..3
        BY <2>4
      <4> QED BY Zenon, <1>1, <1>2, <2>6, <2>11, <4>1
    <3> QED BY Zenon, <1>1, <1>2, <2>6, <2>12, <3>1 DEF DiskInv, Provisioned
  <2>15. KeepsDisk /\ KeepsOurs
    <3>1. ~v_scene.wipe => v_part[k].data = "none"
      BY <1>3 DEF Formatting
    <3> QED BY Zenon, <1>1, <1>2, <2>10, <3>1 DEF KeepsDisk, KeepsOurs
  <2> QED BY Zenon, <2>5, <2>8, <2>13, <2>14, <2>15 DEF DiskInv
<1> QED BY Zenon, <1>4, <1>5 DEF V!format

LEMMA PublishStatusStep == ASSUME DiskInv, V!PublishStatus PROVE DiskInv' /\ KeepsDisk /\ KeepsOurs
<1>1. /\ v_ppc = "Publish" /\ v_ppc' = "idle" /\ v_vs' = v_statuses
      /\ UNCHANGED <<v_scene, v_stage, v_boots, v_found, v_gpt, v_part, v_nodes, v_scan, v_dpc, v_dv,
                     v_ds, v_todo, v_statuses, v_wakeP, v_mpc, v_seen, v_mtodo, v_mnt, v_ms>>
  BY Zenon DEF V!PublishStatus, V!power, V!disk, V!discovery, V!mounter
<1>2. v_wakeM' \in BOOLEAN
  BY Zenon DEF V!PublishStatus, DiskInv, DiskPlaces
<1>3. v_stage = "up" /\ v_ds /\ \A l \in V!LABELS : v_statuses[l].dev = Dev(l)
  BY Zenon, <1>1, Running DEF DiskInv, Provisioned
<1>4. DiskPlaces'
  BY <1>1, <1>2 DEF DiskInv, DiskPlaces
<1>5. Contents' /\ Statuses' /\ v_boots' \in 0..MaxBoots /\ Owning'
  BY Zenon, <1>1 DEF DiskInv, Contents, Statuses, Owning
<1>6. Discovering' /\ Deciding'
  BY Zenon, <1>1, <1>3 DEF DiskInv, Discovering, Discovered, Deciding, Readable
<1>7. Provisioned'
  BY Zenon, <1>1, <1>3 DEF DiskInv, Provisioned
<1>8. MountsRight'
  BY Zenon, <1>1, <1>3 DEF DiskInv, MountsRight, Contents
<1> QED BY Zenon, <1>1, <1>4, <1>5, <1>6, <1>7, <1>8, DiskUntouched DEF DiskInv

-----------------------------------------------------------------------------
(* The mounter's steps.                                                    *)

LEMMA MountBeginStep == ASSUME DiskInv, V!MountBegin PROVE DiskInv' /\ KeepsDisk /\ KeepsOurs
<1>1. /\ v_stage = "up" /\ v_mpc' = "busy" /\ v_wakeM' = FALSE
      /\ v_seen' = v_vs /\ v_mtodo' = {l \in V!LABELS : v_vs[l] # V!Absent}
      /\ UNCHANGED <<v_scene, v_stage, v_boots, v_found, v_gpt, v_part, v_nodes, v_scan, v_dpc, v_dv,
                     v_ds, v_ppc, v_todo, v_statuses, v_wakeP, v_vs, v_mnt, v_ms>>
  BY Zenon DEF V!MountBegin, V!power, V!disk, V!discovery, V!provisioner
<1>2. DiskPlaces'
  BY Zenon, <1>1 DEF DiskInv, DiskPlaces
<1>3. Contents' /\ Statuses' /\ v_boots' \in 0..MaxBoots /\ Owning'
  BY Zenon, <1>1 DEF DiskInv, Contents, Statuses, Owning
<1>4. Discovering' /\ Deciding' /\ Provisioned'
  <2>1. Discovering' /\ Deciding'
    BY Zenon, <1>1 DEF DiskInv, Discovering, Discovered, Deciding, Readable
  <2>2. Provisioned'
    BY Zenon, <1>1 DEF DiskInv, Provisioned, Formatting
  <2> QED BY Zenon, <2>1, <2>2
<1>5. MountsRight'
  <2>1. \A l \in V!LABELS : v_vs[l] = V!Absent \/ v_vs[l].dev = Dev(l)
    BY Zenon DEF DiskInv, Provisioned, V!NoStatus
  <2> QED BY Zenon, <1>1, <2>1 DEF DiskInv, MountsRight
<1> QED BY Zenon, <1>1, <1>2, <1>3, <1>4, <1>5, DiskUntouched DEF DiskInv

LEMMA MountVolumeStep ==
  ASSUME DiskInv, NEW l \in V!LABELS, V!MountVolume(l) PROVE DiskInv' /\ KeepsDisk /\ KeepsOurs
<1>1. /\ v_mpc = "busy" /\ l \in v_mtodo
      /\ UNCHANGED <<v_scene, v_stage, v_boots, v_found, v_gpt, v_part, v_nodes, v_scan, v_dpc, v_dv,
                     v_ds, v_ppc, v_todo, v_statuses, v_wakeP, v_vs, v_seen, v_wakeM, v_ms>>
  BY Zenon DEF V!MountVolume, V!MountRest, V!power, V!disk, V!discovery, V!provisioner
<1>2. \/ /\ v_mnt' = (IF v_mnt[l] # 0 THEN v_mnt ELSE [v_mnt EXCEPT ![l] = v_seen[l].dev])
         /\ v_mtodo' = v_mtodo \ {l} /\ v_mpc' = v_mpc
      \/ v_mpc' = "idle" /\ v_mtodo' = {} /\ v_mnt' = v_mnt
  BY Zenon DEF V!MountVolume
<1>3. v_seen[l].dev = Dev(l) /\ v_mnt[l] \in {0} \cup Mountable(l) /\ Dev(l) \in 1..3
  BY <1>1 DEF DiskInv, MountsRight, Dev
<1>4. /\ v_mnt' \in [V!LABELS -> 0..V!Other]
      /\ \A k \in V!LABELS : v_mnt'[k] = v_mnt[k] \/ (k = l /\ v_mnt'[k] = Dev(k))
      /\ v_mpc' = "busy" => v_mnt'[l] \in Mountable(l) /\ v_mtodo' = v_mtodo \ {l}
      /\ v_mtodo' \subseteq v_mtodo /\ v_mpc' \in {"busy", "idle"}
  <2>1. v_mnt \in [V!LABELS -> 0..V!Other]
    BY Zenon DEF DiskInv, Contents
  <2>2. CASE v_mpc' = "idle" /\ v_mtodo' = {} /\ v_mnt' = v_mnt
    BY Zenon, <2>1, <2>2
  <2>3. CASE v_mnt[l] # 0 /\ v_mnt' = v_mnt /\ v_mtodo' = v_mtodo \ {l} /\ v_mpc' = v_mpc
    BY Zenon, <1>1, <1>3, <2>1, <2>3
  <2>4. CASE v_mnt' = [v_mnt EXCEPT ![l] = Dev(l)] /\ v_mtodo' = v_mtodo \ {l} /\ v_mpc' = v_mpc
    BY <1>1, <1>3, <2>1, <2>4 DEF Mountable, V!Other
  <2> QED BY Zenon, <1>2, <1>3, <2>2, <2>3, <2>4
<1>5. DiskPlaces'
  BY <1>1, <1>4 DEF DiskInv, DiskPlaces
<1>6. Contents' /\ Statuses' /\ v_boots' \in 0..MaxBoots /\ Owning'
  BY Zenon, <1>1, <1>4 DEF DiskInv, Contents, Statuses, Owning
<1>7. Discovering' /\ Deciding'
  BY Zenon, <1>1 DEF DiskInv, Discovering, Discovered, Deciding, Readable
<1>8. Provisioned'
  BY Zenon, <1>1 DEF DiskInv, Provisioned, Formatting
<1>9. MountsRight'
  <2>1. ASSUME NEW k \in V!LABELS
        PROVE  /\ v_mnt'[k] \in {0} \cup Mountable(k)
               /\ v_mnt[k] \in Mountable(k) => v_mnt'[k] \in Mountable(k)
               /\ k \in v_mtodo' => v_seen[k] # V!Absent
               /\ v_mpc' = "busy" /\ v_seen[k] # V!Absent /\ k \notin v_mtodo' => v_mnt'[k] \in Mountable(k)
    BY Zenon, <1>1, <1>4, <2>1 DEF DiskInv, MountsRight, Mountable
  <2>2. v_ms \subseteq V!LABELS
    BY Zenon DEF DiskInv, Contents
  <2> QED BY Zenon, <1>1, <2>1, <2>2 DEF DiskInv, MountsRight
<1> QED BY Zenon, <1>1, <1>5, <1>6, <1>7, <1>8, <1>9, DiskUntouched DEF DiskInv

LEMMA PublishMountsStep == ASSUME DiskInv, V!PublishMounts PROVE DiskInv' /\ KeepsDisk /\ KeepsOurs
<1>1. /\ v_mpc = "busy" /\ v_mtodo = {} /\ v_mpc' = "idle"
      /\ v_ms' = {l \in V!LABELS : v_seen[l] # V!Absent}
      /\ UNCHANGED <<v_scene, v_stage, v_boots, v_found, v_gpt, v_part, v_nodes, v_scan, v_dpc, v_dv,
                     v_ds, v_ppc, v_todo, v_statuses, v_wakeP, v_vs, v_seen, v_mtodo, v_wakeM, v_mnt>>
  BY Zenon DEF V!PublishMounts, V!power, V!disk, V!discovery, V!provisioner
<1>2. DiskPlaces'
  BY <1>1 DEF DiskInv, DiskPlaces
<1>3. Contents' /\ Statuses' /\ v_boots' \in 0..MaxBoots /\ Owning' /\ MountsRight'
  BY Zenon, <1>1 DEF DiskInv, Contents, Statuses, Owning, MountsRight
<1>4. Discovering' /\ Deciding'
  BY Zenon, <1>1 DEF DiskInv, Discovering, Discovered, Deciding, Readable
<1>5. Provisioned'
  BY Zenon, <1>1 DEF DiskInv, Provisioned, Formatting
<1> QED BY Zenon, <1>1, <1>2, <1>3, <1>4, <1>5, DiskUntouched DEF DiskInv

LEMMA DiskStep == ASSUME DiskInv, V!Next PROVE DiskInv' /\ KeepsDisk /\ KeepsOurs
<1>1. CASE V!PowerUp \/ V!mount_boot \/ V!PowerCut \/ V!Reset
  BY Zenon, <1>1, PowerUpStep, MountBootStep, PowerCutStep, ResetStep
<1>2. ASSUME NEW l \in V!LABELS, V!UseVolume(l) PROVE DiskInv' /\ KeepsDisk /\ KeepsOurs
  BY Zenon, <1>2, UseVolumeStep
<1>3. CASE V!Provisioning
  BY Zenon, <1>3, WakeStep, DecideStep, WipeStep, CreateStep, AddStep, FormatStep, PublishStatusStep
     DEF V!Provisioning
<1>4. CASE V!Mounting
  BY Zenon, <1>4, MountBeginStep, MountVolumeStep, PublishMountsStep DEF V!Mounting
<1> QED BY Zenon, <1>1, <1>2, <1>3, <1>4, DiscoveryStep DEF V!Next

LEMMA DiskSuffices == ASSUME DiskInv PROVE V!TypeOK /\ V!AttestedDevice /\ V!MountStatusTrue
<1>1. V!MountStatusTrue
  BY TableFacts DEF DiskInv, MountsRight, Mountable, Contents, V!MountStatusTrue, Dev, V!Other
<1>2. V!AttestedDevice
  <2> SUFFICES ASSUME ~v_scene.wipe, NEW l \in V!LABELS, v_vs[l] # V!Absent
               PROVE  v_vs[l].dev \in DOMAIN v_gpt /\ v_gpt[v_vs[l].dev] = l
    BY Zenon DEF V!AttestedDevice, V!Wipe
  <2>1. v_vs[l].dev = Dev(l) /\ v_gpt = Laid
    BY Zenon DEF DiskInv, Provisioned, V!NoStatus
  <2> QED BY <2>1, TableFacts
<1>3. V!TypeOK
  <2>1. v_scene \in V!Scene
    BY Zenon, DiskAssumption DEF V!VolumesAssumption, DiskInv, DiskPlaces
  <2>2. /\ v_gpt \in Seq(V!LABELS \cup {"none", "DATA"}) /\ Len(v_gpt) <= 3
        /\ v_found \in Seq(V!LABELS \cup {"none", "DATA"})
    BY Zenon, TableFacts DEF DiskInv, Deciding
  <2>3. {v_wakeP, v_wakeM} \subseteq BOOLEAN
    BY Zenon DEF DiskInv, DiskPlaces
  <2>4. DiskPlaces /\ Contents /\ Statuses /\ v_boots \in 0..MaxBoots
    BY Zenon DEF DiskInv
  <2> QED BY Zenon, <2>1, <2>2, <2>3, <2>4 DEF DiskPlaces, Contents, Statuses, V!TypeOK
<1> QED BY Zenon, <1>1, <1>2, <1>3

LEMMA DiskGoesOn ==
  ASSUME DiskInv, [V!Next]_V!vars
  PROVE  DiskInv' /\ (V!vars' = V!vars \/ (KeepsDisk /\ KeepsOurs))
<1>1. CASE V!Next
  BY Zenon, <1>1, DiskStep
<1>2. CASE V!vars' = V!vars
  <2>1. UNCHANGED <<v_scene, v_stage, v_boots, v_gpt, v_part, v_nodes, v_found,
          v_scan, v_dpc, v_dv, v_ds, v_ppc, v_todo, v_statuses, v_wakeP, v_vs, v_mpc,
          v_seen, v_mtodo, v_wakeM, v_mnt, v_ms>>
    BY Zenon, <1>2 DEF V!vars, V!power, V!disk, V!discovery, V!provisioner, V!mounter
  <2>2. DiskPlaces' /\ Contents' /\ Statuses'
    BY <2>1 DEF DiskInv, DiskPlaces, Contents, Statuses
  <2>3. Discovering' /\ Deciding'
    BY Zenon, <2>1 DEF DiskInv, Discovering, Discovered, Deciding, Readable
  <2>4. Provisioned' /\ MountsRight' /\ Owning'
    BY Zenon, <2>1 DEF DiskInv, Provisioned, Formatting, MountsRight, Owning
  <2> QED BY Zenon, <1>2, <2>1, <2>2, <2>3, <2>4 DEF DiskInv
<1> QED BY Zenon, <1>1, <1>2

(* Without install.wipe nothing on the disk is lost (provision.rs:73-79).  *)
LEMMA KeptAlways == V!Spec => V!KeptWithoutWipe
<1>1. DiskInv /\ [V!Next]_V!vars => DiskInv' /\
        [~V!Wipe =>
           /\ \A i \in DOMAIN v_gpt : i \in DOMAIN v_gpt' /\ v_gpt'[i] = v_gpt[i]
           /\ \A d \in V!Device :
                v_part[d].data \in {"foreign", "image"} \/ (v_part[d].data = "node" /\ v_stage' = v_stage)
                  => v_part'[d] = v_part[d]]_V!vars
  BY Zenon, DiskGoesOn DEF KeepsDisk, V!Wipe
<1> QED BY <1>1, DiskInit, PTL DEF V!Spec, V!KeptWithoutWipe

(* In a boot that finds the fixed layout nothing is laid out or formatted  *)
(* again, also with install.wipe (provision.rs:356-366).                   *)
LEMMA OursKeptAlways == V!Spec => V!OursKept
<1>1. DiskInv /\ [V!Next]_V!vars => DiskInv' /\
        [v_found = V!Ours /\ (V!Wipe => "read" \notin V!Faults) /\ v_stage = "up" /\ v_stage' = "up" =>
           v_gpt' = v_gpt /\ \A d \in V!Device : v_part'[d].fs = v_part[d].fs]_V!vars
  BY Zenon, DiskGoesOn, Layout DEF KeepsOurs, Readable, V!Wipe, V!Faults
<1> QED BY <1>1, DiskInit, PTL DEF V!Spec, V!OursKept

(* A VolumeStatus names the partition with its label and a MountStatus a   *)
(* volume that is mounted from it, or the EFI volume where early boot took *)
(* the boot partition of another disk: on every disk, under every          *)
(* configuration and wherever calls fail and the power is cut              *)
(* (provision.rs:340-420, mount.rs:57-96, imageboot.rs:49-77).             *)
THEOREM VolumesStayAttested == V!Spec => []VolumesAttested
<1>1. DiskInv => VolumesAttested
  BY Zenon, DiskSuffices DEF VolumesAttested
<1>2. DiskInv /\ [V!Next]_V!vars => DiskInv'
  BY Zenon, DiskGoesOn
<1> QED BY <1>1, <1>2, DiskInit, PTL DEF V!Spec

(* Nothing on the disk is lost without install.wipe, and nothing is laid   *)
(* out again in a boot that finds the fixed layout, for any disk,          *)
(* configuration, number of boots and place where the power is cut         *)
(* (provision.rs:73-79 and 356-366).                                       *)
THEOREM NothingIsLost == V!Spec => NothingLost
BY Zenon, KeptAlways, OursKeptAlways DEF NothingLost

=============================================================================
