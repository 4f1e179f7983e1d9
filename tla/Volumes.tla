------------------------------ MODULE Volumes ------------------------------
(***************************************************************************)
(* The install disk from power-up to mounted volumes: the boot-partition   *)
(* mount of early boot (crates/machined/src/imageboot.rs), the discovery,  *)
(* provisioning and mount controllers (crates/controllers/src/block) and   *)
(* the disk backend under them (crates/block/src/sysfs.rs), over power     *)
(* cuts and resets.  The store and the mount table die with the power; the *)
(* partition table and the partitions stay.                                *)
(*                                                                         *)
(* A partition is its filesystem and whose data it holds.  The layout is   *)
(* fixed, so laying it out again finds the old partitions in their places. *)
(* Of the node's other disks only the partition early boot may take for    *)
(* the boot partition counts; the provisioner leaves them alone.           *)
(***************************************************************************)
EXTENDS Naturals, Sequences

CONSTANTS
  Kinds,   \* what may be on the disk at first
  Scenes,  \* the configurations, each with what may fail under it
  MaxBoots \* how often the node is powered up

Scene == [wipe : BOOLEAN, other : {"nothing", "EFI", "none"},
          faults : SUBSET {"scan", "read", "write", "format", "mount", "power"}]

(* What the constants are.                                                 *)
VolumesAssumption ==
  /\ Kinds \subseteq {"blank", "foreign", "mbr", "image", "ours"}
  /\ Scenes \subseteq Scene /\ MaxBoots \in Nat

VARIABLES
  scene,      \* install.wipe; the label of a vfat partition on another disk;
              \* which of scans, reads of a table, writes, formats, mounts and
              \* the power may fail; it never changes
  stage,      \* off, early boot, or up: the controllers run
  boots,      \* power-ups so far
  gpt,        \* labels in the partition table, by partition number
  part,       \* the partitions' contents
  nodes,      \* partitions the kernel has device nodes for
  found,      \* the table as this boot found it
  scan, dpc,  \* the discovery: what it read, where it is
  dv, ds,     \* DiscoveredVolume and DiskStatus in the store
  ppc, todo, statuses, \* the provisioner: where it is, what it formats, publishes
  wakeP,      \* an event for the provisioner is unread
  vs,         \* VolumeStatus, by label
  mpc, seen, mtodo,    \* the mounter: where it is, what it listed, has to do
  wakeM,      \* an event for the mounter is unread
  mnt,        \* partition mounted at each label's mountpoint, 0 for none
  ms          \* labels with a MountStatus

disk == <<gpt, part, nodes>>
power == <<scene, stage, boots, found>>
discovery == <<scan, dpc, dv, ds>>
provisioner == <<ppc, todo, statuses>>
mounter == <<mpc, seen, mtodo>>
vars == <<power, disk, discovery, provisioner, wakeP, vs, mounter, wakeM, mnt, ms>>

Wipe == scene.wipe
Faults == scene.faults

LABELS == {"EFI", "STATE", "EPHEMERAL"}
Device == 1..3
Other == 4   \* the partition on another disk
Content == [fs : {"none", "vfat", "ext4"}, data : {"none", "foreign", "image", "node"}]
Status == [dev : 0..3, fs : {"none", "vfat", "ext4"}]
Empty == [fs |-> "none", data |-> "none"]
Absent == [dev |-> 0, fs |-> "none"]
NoStatus == [l \in LABELS |-> Absent]

fixed_layout ==
  << [label |-> "EFI", fs |-> "vfat"], [label |-> "STATE", fs |-> "ext4"],
     [label |-> "EPHEMERAL", fs |-> "ext4"] >>
Labelled(plan) == [i \in DOMAIN plan |-> plan[i].label]
Ours == Labelled(fixed_layout)

(* The layout without its EFI partition, which is the first one.           *)
AppendLayout == Tail(fixed_layout)

(* What is on the disk at first.                                           *)
TableOf(kind) ==
  CASE kind = "blank"   -> <<>>
    [] kind = "foreign" -> <<"EFI", "DATA">>
    [] kind = "mbr"     -> <<"none">>
    [] kind = "image"   -> <<"EFI">>
    [] kind = "ours"    -> Ours
PartsOf(kind) ==
  [i \in Device |->
     CASE kind = "foreign" /\ i < 3 ->
            [fs |-> IF i = 1 THEN "vfat" ELSE "ext4", data |-> "foreign"]
       [] kind = "mbr" /\ i = 1 -> [fs |-> "vfat", data |-> "foreign"]
       [] kind \in {"image", "ours"} /\ i = 1 -> [fs |-> "vfat", data |-> "image"]
       [] kind = "ours" /\ i > 1 -> [fs |-> "ext4", data |-> "node"]
       [] OTHER -> Empty]

Fresh ==
  /\ scan = <<>> /\ dpc = "new" /\ dv = <<>> /\ ds = FALSE
  /\ ppc = "new" /\ todo = <<>> /\ statuses = NoStatus /\ wakeP = FALSE
  /\ vs = NoStatus
  /\ mpc = "new" /\ seen = NoStatus /\ mtodo = {} /\ wakeM = FALSE
  /\ mnt = [l \in LABELS |-> 0] /\ ms = {}

Init ==
  /\ scene \in Scenes /\ stage = "off" /\ boots = 0 /\ found = <<>> /\ nodes = {}
  /\ \E k \in Kinds : gpt = TableOf(k) /\ part = PartsOf(k)
  /\ Fresh

TypeOK ==
  /\ scene \in Scene /\ stage \in {"off", "early", "up"} /\ boots \in 0..MaxBoots
  /\ gpt \in Seq(LABELS \cup {"none", "DATA"}) /\ Len(gpt) <= 3
  /\ found \in Seq(LABELS \cup {"none", "DATA"})
  /\ part \in [Device -> Content] /\ nodes \subseteq Device
  /\ dpc \in {"new", "scanned", "volumes", "done"} /\ ds \in BOOLEAN
  /\ ppc \in {"new", "Decide", "Wipe", "Create", "Add", "Format", "Publish", "idle"}
  /\ \A i \in DOMAIN todo : todo[i].dev \in Device
  /\ {vs, statuses, seen} \subseteq [LABELS -> Status]
  /\ mpc \in {"new", "busy", "idle"} /\ mtodo \subseteq LABELS /\ ms \subseteq LABELS
  /\ {wakeP, wakeM} \subseteq BOOLEAN
  /\ mnt \in [LABELS -> 0..Other]

Mounted(d) == \E l \in LABELS : mnt[l] = d
Busy == \E l \in LABELS : mnt[l] \in Device

-----------------------------------------------------------------------------
(* sysfs.rs, fsprobe.rs: the partitions of the table with the filesystem   *)
(* their first bytes show; a table that is not GPT has no labels.          *)
list_volumes == [i \in DOMAIN gpt |-> [label |-> gpt[i], fs |-> part[i].fs]]

(* What a failed read makes of it: the kernel's partitions without their   *)
(* labels, partitions without their filesystem, or no partitions.          *)
Misread ==
  IF "read" \notin Faults THEN {}
  ELSE { <<>>, [i \in DOMAIN gpt |-> [label |-> "none", fs |-> part[i].fs]],
         [i \in DOMAIN gpt |-> [label |-> gpt[i], fs |-> "none"]] }

(* The power comes; the kernel reads the table.                            *)
PowerUp ==
  /\ stage = "off" /\ boots < MaxBoots
  /\ stage' = "early" /\ boots' = boots + 1
  /\ found' = gpt /\ nodes' = DOMAIN gpt
  /\ UNCHANGED <<scene, gpt, part, discovery, provisioner, wakeP, vs, mounter, wakeM, mnt, ms>>

(* mount_boot: of the volumes of every disk the first with the EFI label,  *)
(* else the first with vfat.  Which disk's name sorts first is the         *)
(* kernel's doing, in every boot anew.                                     *)
AllVolumes(vols) ==
  {[dev |-> i, label |-> vols[i].label, fs |-> vols[i].fs] : i \in DOMAIN vols}
    \cup {v \in {[dev |-> Other, label |-> scene.other, fs |-> "vfat"]} : v.label # "nothing"}

BootPartition(vols) ==
  LET all == AllVolumes(vols)
      efi == {v \in all : v.label = "EFI"}
      c == IF efi # {} THEN efi ELSE {v \in all : v.fs = "vfat"}
  IN {v.dev : v \in {w \in c : w.dev = Other \/ \A u \in c : w.dev <= u.dev}}

IsVfat(d) == d \in Device => part[d].fs = "vfat"

(* It is mounted as vfat; an error is logged and the boot goes on.         *)
mount_boot ==
  /\ stage = "early" /\ stage' = "up"
  /\ \E vols \in {list_volumes} \cup Misread :
       \/ \E d \in BootPartition(vols) : IsVfat(d) /\ mnt' = [mnt EXCEPT !["EFI"] = d]
       \/ /\ \/ BootPartition(vols) = {} \/ \E d \in BootPartition(vols) : ~IsVfat(d)
             \/ "scan" \in Faults \/ "mount" \in Faults
          /\ UNCHANGED mnt
  /\ UNCHANGED <<scene, boots, found, disk, discovery, provisioner, wakeP, vs, mounter, wakeM, ms>>

(* The power goes, at any step.                                            *)
Off ==
  /\ stage' = "off"
  /\ scan' = <<>> /\ dpc' = "new" /\ dv' = <<>> /\ ds' = FALSE
  /\ ppc' = "new" /\ todo' = <<>> /\ statuses' = NoStatus /\ wakeP' = FALSE
  /\ vs' = NoStatus
  /\ mpc' = "new" /\ seen' = NoStatus /\ mtodo' = {} /\ wakeM' = FALSE
  /\ mnt' = [l \in LABELS |-> 0] /\ ms' = {}
  /\ UNCHANGED <<scene, boots, found>>

PowerCut == "power" \in Faults /\ stage # "off" /\ Off /\ UNCHANGED disk

(* machinectl reset: with the controllers stopped and the volumes          *)
(* unmounted, main formats STATE and EPHEMERAL as VolumeStatus names them. *)
Reset ==
  /\ stage = "up" /\ ppc = "idle" /\ mpc = "idle"
  /\ \E done \in SUBSET {"STATE", "EPHEMERAL"} :
       part' = [d \in Device |-> IF \E l \in done : vs[l].dev = d
                                 THEN [fs |-> "ext4", data |-> "none"] ELSE part[d]]
  /\ Off /\ UNCHANGED <<gpt, nodes>>

(* What the node's services keep on its volumes.                           *)
UseVolume(l) ==
  /\ stage = "up" /\ l \in ms \ {"EFI"}
  /\ part' = [part EXCEPT ![mnt[l]].data = "node"]
  /\ UNCHANGED <<power, gpt, nodes, discovery, provisioner, wakeP, vs, mounter, wakeM, mnt, ms>>

-----------------------------------------------------------------------------
(* DiskDiscoveryController: reconciles once.  An event reaches the         *)
(* provisioner once it has subscribed.                                     *)

Notify == wakeP' = (wakeP \/ ppc # "new")

Discover ==
  /\ stage = "up" /\ dpc = "new"
  /\ \/ scan' \in {list_volumes} \cup Misread /\ dpc' = "scanned"
     \/ "scan" \in Faults /\ UNCHANGED scan /\ dpc' = "done"
  /\ UNCHANGED <<power, disk, dv, ds, provisioner, wakeP, vs, mounter, wakeM, mnt, ms>>

PublishVolumes ==
  /\ stage = "up" /\ dpc = "scanned"
  /\ dv' = scan /\ dpc' = "volumes"
  /\ IF scan # <<>> THEN Notify ELSE UNCHANGED wakeP
  /\ UNCHANGED <<power, disk, scan, ds, provisioner, vs, mounter, wakeM, mnt, ms>>

(* Mutant: the provisioner does not watch DiskStatus.                      *)
PublishDisksUnheard ==
  /\ stage = "up" /\ dpc = "volumes"
  /\ ds' = TRUE /\ dpc' = "done"
  /\ UNCHANGED <<power, disk, scan, dv, provisioner, wakeP, vs, mounter, wakeM, mnt, ms>>

PublishDisks ==
  /\ stage = "up" /\ dpc = "volumes"
  /\ ds' = TRUE /\ dpc' = "done" /\ Notify
  /\ UNCHANGED <<power, disk, scan, dv, provisioner, vs, mounter, wakeM, mnt, ms>>

-----------------------------------------------------------------------------
(* VolumeProvisionerController.                                            *)

plan_provisioning(wipe, vols) ==
  LET labels == {vols[i].label : i \in DOMAIN vols}
  IN IF vols # <<>> /\ labels = LABELS THEN "Skip"
     ELSE IF wipe THEN "Provision"
     ELSE IF Len(vols) = 1 /\ labels = {"EFI"} THEN "CompleteLayout"
     ELSE "RefuseForeign"

provisioned_status_from_discovered(vols) ==
  [l \in LABELS |->
     IF \E i \in DOMAIN vols : vols[i].label = l
     THEN LET d == CHOOSE i \in DOMAIN vols : vols[i].label = l
          IN [dev |-> d, fs |-> vols[d].fs]
     ELSE Absent]

(* The loop: subscribed before the first reconcile; later ones drain the   *)
(* events first.  A failed reconcile is not run again by itself.           *)
Wake ==
  /\ stage = "up" /\ (ppc = "new" \/ (ppc = "idle" /\ wakeP))
  /\ ppc' = "Decide" /\ wakeP' = FALSE /\ todo' = <<>> /\ statuses' = NoStatus
  /\ UNCHANGED <<power, disk, discovery, vs, mounter, wakeM, mnt, ms>>

Step(where) == ppc' = where /\ UNCHANGED <<power, discovery, wakeP, vs, mounter, wakeM, mnt, ms>>

(* Mutant: the provisioner does not wait for DiskStatus.                   *)
DecideUngated ==
  /\ ppc = "Decide"
  /\ LET decision == plan_provisioning(Wipe, dv)
     IN CASE decision = "RefuseForeign"  -> Step("idle") /\ UNCHANGED statuses
          [] decision = "Skip"           -> Step("Publish")
               /\ statuses' = provisioned_status_from_discovered(dv)
          [] decision = "CompleteLayout" -> Step("Add")
               /\ statuses' = provisioned_status_from_discovered(dv)
          [] OTHER -> UNCHANGED statuses
               /\ (Step("Wipe") \/ (dv = <<>> /\ Step("Create")))
  /\ UNCHANGED <<disk, todo>>

(* Volumes of other disks, also in the store, count in the test for them.  *)
Decide ==
  /\ ppc = "Decide"
  /\ LET decision == IF ds THEN plan_provisioning(Wipe, dv) ELSE "Wait"
     IN CASE decision \in {"Wait", "RefuseForeign"} -> Step("idle") /\ UNCHANGED statuses
          [] decision = "Skip"           -> Step("Publish")
               /\ statuses' = provisioned_status_from_discovered(dv)
          [] decision = "CompleteLayout" -> Step("Add")
               /\ statuses' = provisioned_status_from_discovered(dv)
          [] OTHER -> UNCHANGED statuses
               /\ (Step("Wipe") \/ (dv = <<>> /\ Step("Create")))
  /\ UNCHANGED <<disk, todo>>

(* The kernel re-reads the table unless one of its partitions is mounted.  *)
reread(ds_) == nodes' = IF Busy THEN nodes ELSE ds_

wipe ==
  /\ ppc = "Wipe"
  /\ \/ gpt' = <<>> /\ reread({}) /\ Step("Create")
     \/ "write" \in Faults /\ UNCHANGED <<gpt, nodes>> /\ Step("idle")
  /\ UNCHANGED <<part, todo, statuses>>

ToFormat(plan, first) ==
  [i \in DOMAIN plan |-> [label |-> plan[i].label, fs |-> plan[i].fs, dev |-> first + i - 1]]

(* The new partitions: what was there before in the same place, or in      *)
(* another one.                                                            *)
create_partitions ==
  /\ ppc = "Create"
  /\ \/ /\ gpt' = Ours /\ reread(Device)
        /\ \E gone \in SUBSET {d \in Device : part[d].data = "foreign"} :
             part' = [d \in Device |-> IF d \in gone THEN Empty ELSE part[d]]
        /\ todo' = ToFormat(fixed_layout, 1) /\ Step("Format")
     \/ "write" \in Faults /\ UNCHANGED <<disk, todo>> /\ Step("idle")
  /\ UNCHANGED statuses

Has(label) == \E i \in DOMAIN gpt : gpt[i] = label

AddToTable(plan) ==
  /\ gpt' = gpt \o Labelled(plan)
  /\ todo' = ToFormat(plan, Len(gpt) + 1)
  /\ nodes' = nodes \cup {todo'[i].dev : i \in DOMAIN plan}

(* A label that is there already is refused before anything is written.    *)
(* The ioctl for a single partition works beside mounted ones.             *)
add_partitions ==
  /\ ppc = "Add"
  /\ \/ /\ \A i \in DOMAIN AppendLayout : ~Has(AppendLayout[i].label)
        /\ AddToTable(AppendLayout)
        /\ Step("Format") \/ ("write" \in Faults /\ Step("idle"))
     \/ /\ \/ \E i \in DOMAIN AppendLayout : Has(AppendLayout[i].label)
           \/ "write" \in Faults
        /\ UNCHANGED <<gpt, nodes, todo>> /\ Step("idle")
  /\ UNCHANGED <<part, statuses>>

(* mkfs needs the node and refuses a mounted device.                       *)
format ==
  /\ ppc = "Format" /\ todo # <<>>
  /\ LET p == Head(todo)
     IN \/ /\ p.dev \in nodes /\ ~Mounted(p.dev)
           /\ part' = [part EXCEPT ![p.dev] = [fs |-> p.fs, data |-> "none"]]
           /\ statuses' = [statuses EXCEPT ![p.label] = [dev |-> p.dev, fs |-> p.fs]]
           /\ todo' = Tail(todo)
           /\ Step(IF todo' = <<>> THEN "Publish" ELSE "Format")
        \/ /\ p.dev \notin nodes \/ Mounted(p.dev) \/ "format" \in Faults
           /\ Step("idle") /\ UNCHANGED <<part, todo, statuses>>
  /\ UNCHANGED <<gpt, nodes>>

(* reconcile_owned(VolumeStatus): all are upserted, the others collected.  *)
PublishStatus ==
  /\ ppc = "Publish" /\ ppc' = "idle"
  /\ vs' = statuses
  /\ wakeM' = (wakeM \/ (mpc # "new" /\ vs' # vs))
  /\ UNCHANGED <<power, disk, discovery, todo, statuses, wakeP, mounter, mnt, ms>>

-----------------------------------------------------------------------------
(* VolumeMountController.                                                  *)

MountBegin ==
  /\ stage = "up" /\ (mpc = "new" \/ (mpc = "idle" /\ wakeM))
  /\ mpc' = "busy" /\ wakeM' = FALSE
  /\ seen' = vs /\ mtodo' = {l \in LABELS : vs[l] # Absent}
  /\ UNCHANGED <<power, disk, discovery, provisioner, wakeP, vs, mnt, ms>>

MountRest == UNCHANGED <<power, disk, discovery, provisioner, wakeP, vs, seen, wakeM, ms>>

(* A mount that fails ends the reconcile with nothing published.           *)
MountVolume(l) ==
  /\ mpc = "busy" /\ l \in mtodo
  /\ LET s == seen[l]
         able == s.fs # "none" /\ part[s.dev].fs = s.fs /\ s.dev \in nodes
     IN \/ /\ mnt[l] # 0 \/ able
           /\ mnt' = IF mnt[l] # 0 THEN mnt ELSE [mnt EXCEPT ![l] = s.dev]
           /\ mtodo' = mtodo \ {l} /\ UNCHANGED mpc
        \/ /\ mnt[l] = 0 /\ (~able \/ "mount" \in Faults)
           /\ mpc' = "idle" /\ mtodo' = {} /\ UNCHANGED mnt
  /\ MountRest

(* Mutant: the statuses are published before all volumes are mounted.      *)
PublishUnmounted ==
  /\ mpc = "busy" /\ mpc' = "idle"
  /\ ms' = {l \in LABELS : seen[l] # Absent} /\ mtodo' = {}
  /\ UNCHANGED <<power, disk, discovery, provisioner, wakeP, vs, seen, wakeM, mnt>>

PublishMounts ==
  /\ mpc = "busy" /\ mtodo = {} /\ mpc' = "idle"
  /\ ms' = {l \in LABELS : seen[l] # Absent}
  /\ UNCHANGED <<power, disk, discovery, provisioner, wakeP, vs, seen, mtodo, wakeM, mnt>>

-----------------------------------------------------------------------------
Provisioning ==
  Wake \/ Decide \/ wipe \/ create_partitions \/ add_partitions \/ format \/ PublishStatus
Mounting == MountBegin \/ (\E l \in LABELS : MountVolume(l)) \/ PublishMounts
Discovery == Discover \/ PublishVolumes \/ PublishDisks

Next ==
  \/ PowerUp \/ mount_boot \/ PowerCut \/ Reset
  \/ \E l \in LABELS : UseVolume(l)
  \/ Discovery \/ Provisioning \/ Mounting

Spec == Init /\ [][Next]_vars

(* Every controller is a task of its own and never waits for another.      *)
Fairness ==
  WF_vars(PowerUp \/ mount_boot) /\ WF_vars(Discovery) /\ WF_vars(Provisioning) /\ WF_vars(Mounting)
LiveSpec == Spec /\ Fairness
-----------------------------------------------------------------------------
(* Without install.wipe nothing on the disk is lost, whatever it holds and *)
(* wherever the power goes: no table entry changes, no foreign or boot     *)
(* partition is written, and the node's own data goes only in a reset      *)
(* (provision.rs:73-79: wipe == false is NEVER destructive).               *)
KeptWithoutWipe ==
  [][~Wipe =>
       /\ \A i \in DOMAIN gpt : i \in DOMAIN gpt' /\ gpt'[i] = gpt[i]
       /\ \A d \in Device :
            part[d].data \in {"foreign", "image"} \/ (part[d].data = "node" /\ stage' = stage)
              => part'[d] = part[d]]_vars

(* In a boot that finds the fixed layout on the disk nothing is laid out   *)
(* or formatted again, also with install.wipe set: DiskStatus, published   *)
(* last, keeps the provisioner from a store without volumes                *)
(* (discovery.rs:48-51, provision.rs:356-366).  With install.wipe it takes *)
(* that the table can be read: the discovery takes one it cannot read for  *)
(* none.                                                                   *)
OursKept ==
  [][found = Ours /\ (Wipe => "read" \notin Faults) /\ stage = "up" /\ stage' = "up" =>
       gpt' = gpt /\ \A d \in Device : part'[d].fs = part[d].fs]_vars

(* Without install.wipe every VolumeStatus names the partition with its    *)
(* label, the device a reset formats (main.rs:172-208).                    *)
AttestedDevice ==
  ~Wipe => \A l \in LABELS : vs[l] # Absent => vs[l].dev \in DOMAIN gpt /\ gpt[vs[l].dev] = l

(* A MountStatus is there only for a volume that is mounted, from the      *)
(* device VolumeStatus names (mount.rs:57-96).  For EFI it can also stand  *)
(* for what early boot mounted at /boot from another disk: the mounter     *)
(* takes a target that is mounted for its own and never looks from where   *)
(* (mount.rs:70).  STATE and EPHEMERAL have no such way in.                *)
MountStatusTrue ==
  \A l \in ms : mnt[l] # 0 /\ (mnt[l] = vs[l].dev \/ (l = "EFI" /\ mnt[l] = Other))

(* A flashed image or a provisioned disk ends up with STATE mounted in     *)
(* every boot without faults, in whatever order the three controllers run, *)
(* unless the node is reset first.  It takes that install.wipe is not set: *)
(* with it the mounted EFI of an image cannot be formatted, and a table    *)
(* written before that is not completed later.                             *)
StateComesUp ==
  (stage = "early" /\ Faults = {} /\ ~Wipe /\ found \in {<<"EFI">>, Ours})
    ~> ("STATE" \in ms \/ stage = "off")
=============================================================================
