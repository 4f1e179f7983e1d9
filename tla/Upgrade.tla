------------------------------ MODULE Upgrade ------------------------------
(***************************************************************************)
(* An A/B upgrade (crates/machined/src/upgrade.rs) over the boot partition *)
(* (crates/machined/src/bootloader.rs, both backends), with power cuts at  *)
(* every step.  A bundle is downloaded, verified and unpacked, its kernel  *)
(* and initramfs are copied into the slot the node does not run from, and  *)
(* the boot pointer (loader.conf's default, config.txt's os_prefix) is     *)
(* flipped; then the node reboots.                                         *)
(*                                                                         *)
(* A file is its content: an image, or "torn" (cut short, a file that is   *)
(* missing included).  What a program writes is in the page cache first;   *)
(* the kernel writes a dirty file back whenever it likes, in pieces; an    *)
(* fsync writes one file, a read-only remount writes all; a power cut      *)
(* keeps what the disk has.                                                *)
(***************************************************************************)
CONSTANTS
  Images,       \* what upgrades are asked for, and the image first installed
  Installed,    \* the image slot A holds at first
  Lacking,      \* images whose bundle lacks the initramfs
  Pi,           \* PiBootBackend, else SdBootBackend
  MishapSets    \* the mishaps a node may have

(* The remount back to read-only fails, the write or the sync of the boot  *)
(* pointer fails, the power is cut while the pointer is written.           *)
Mishap == {"seal", "write", "fsync", "cut"}

ASSUME UpgradeAssumption ==
  /\ Installed \in Images /\ Lacking \subseteq Images
  /\ Pi \in BOOLEAN /\ MishapSets \subseteq SUBSET Mishap
  /\ "torn" \notin Images /\ "none" \notin Images

Slot == {"A", "B"}
other(s) == IF s = "A" THEN "B" ELSE "A"
Part == {"vmlinuz", "initramfs"}
Content == Images \cup {"torn"}
Pointer == Slot \cup {"torn"}

VARIABLES
  pc,       \* where the upgrade is
  res,      \* the result kept across the remount back to read-only
  phase,    \* the UpgradeStatus published
  current,  \* the slot the running kernel says it was booted from
  want,     \* the image whose sha256 was asked for
  got,      \* what was downloaded
  stage,    \* the unpacked files
  files,    \* the slots' files, as programs see them
  ptr,      \* the boot pointer, as programs see it
  diskFiles, diskPtr, \* the same, as a power cut leaves them
  asked,    \* images asked for so far
  mishaps   \* what this node may meet; it never changes

request == <<want, got, asked, stage, mishaps>>
disk == <<diskFiles, diskPtr>>
vars == <<pc, res, phase, current, request, files, ptr, disk>>

Working == {"Download", "Verify", "Extract", "StageRw", "CopyKernel", "CopyInitrd",
            "StageRo", "ActivateRw", "Truncate", "WritePtr", "FsyncPtr", "ActivateRo"}
PtrOpen == {"WritePtr", "FsyncPtr"}
Phase == {"None", "Downloading", "Verifying", "Staged", "Failed"}

TypeOK ==
  /\ pc \in Working \cup {"Idle", "Staged", "Off", "Dead"}
  /\ res \in {"ok", "err"}
  /\ phase \in Phase
  /\ current \in Slot
  /\ want \in Images /\ got \in Content
  /\ stage \in [Part -> Content]
  /\ files \in [Slot -> [Part -> Content]] /\ diskFiles \in [Slot -> [Part -> Content]]
  /\ ptr \in Pointer /\ diskPtr \in Pointer
  /\ asked \subseteq Images /\ mishaps \in SUBSET Mishap

Whole(fs, s) == \E v \in Images : \A p \in Part : fs[s][p] = v

(* The imager fills slot A and selects it.                                 *)
Init ==
  /\ pc = "Off" /\ res = "ok" /\ phase = "None" /\ current = "A"
  /\ want = Installed /\ got = "torn" /\ asked = {}
  /\ stage = [p \in Part |-> "torn"]
  /\ files = [s \in Slot |-> [p \in Part |-> IF s = "A" THEN Installed ELSE "torn"]]
  /\ ptr = "A" /\ diskFiles = files /\ diskPtr = ptr
  /\ mishaps \in MishapSets

-----------------------------------------------------------------------------
(* upgrade.rs.  A failure publishes Failed and leaves the node up.         *)

Goto(where) == pc' = where
Publish(p) == phase' = p
Abort == Goto("Idle") /\ Publish("Failed")

(* prepare_disk, called for an Upgrade action with a url and a sha256.     *)
Ask(v) ==
  /\ pc = "Idle"
  /\ want' = v /\ asked' = asked \cup {v} /\ res' = "ok"
  /\ Publish("Downloading") /\ Goto("Download")
  /\ UNCHANGED <<current, got, stage, mishaps, files, ptr, disk>>

(* http_get: any bytes, or an error.                                       *)
Download ==
  /\ pc = "Download"
  /\ \/ got' \in Content /\ Publish("Verifying") /\ Goto("Verify")
     \/ UNCHANGED got /\ Abort
  /\ UNCHANGED <<res, current, want, asked, stage, mishaps, files, ptr, disk>>

(* A download task that panics returns its error without a status.         *)
DownloadPanics ==
  /\ pc = "Download"
  /\ Goto("Idle")
  /\ UNCHANGED <<res, phase, current, request, files, ptr, disk>>

Verify ==
  /\ pc = "Verify"
  /\ IF got = want THEN Goto("Extract") /\ UNCHANGED phase ELSE Abort
  /\ UNCHANGED <<res, current, request, files, ptr, disk>>

(* extract_bundle writes the entries it finds, both or an error.           *)
Extract ==
  /\ pc = "Extract"
  /\ \/ stage' = [p \in Part |-> got] /\ got \notin Lacking
        /\ Goto("StageRw") /\ UNCHANGED phase
     \/ \E ps \in {Part, {"vmlinuz"}, {}} :
          stage' = [p \in Part |-> IF p \in ps THEN got ELSE stage[p]]
        /\ Abort
  /\ UNCHANGED <<res, current, want, got, asked, mishaps, files, ptr, disk>>

-----------------------------------------------------------------------------
(* stage_inactive: write_inactive_slot within a read-write window.         *)

StageRw ==
  /\ pc = "StageRw"
  /\ (Goto("CopyKernel") /\ UNCHANGED phase) \/ Abort
  /\ UNCHANGED <<res, current, request, files, ptr, disk>>

stage_inactive == other(current)

(* Mutant: an error of the copy is dropped.                                *)
CopyUnchecked(from, part, next) ==
  /\ pc = from
  /\ \/ files' = [files EXCEPT ![stage_inactive][part] = "torn"] /\ UNCHANGED <<pc, res>>
     \/ files' = [files EXCEPT ![stage_inactive][part] = stage[part]]
        /\ Goto(next) /\ UNCHANGED res
     \/ UNCHANGED files /\ Goto(next) /\ UNCHANGED res
  /\ UNCHANGED <<phase, current, request, ptr, disk>>

(* fs::copy truncates the file and fills it; it may fail at any point.     *)
Copy(from, part, next) ==
  /\ pc = from
  /\ \/ files' = [files EXCEPT ![stage_inactive][part] = "torn"] /\ UNCHANGED <<pc, res>>
     \/ files' = [files EXCEPT ![stage_inactive][part] = stage[part]]
        /\ Goto(next) /\ UNCHANGED res
     \/ UNCHANGED files /\ Goto("StageRo") /\ res' = "err"
  /\ UNCHANGED <<phase, current, request, ptr, disk>>

CopyKernel == Copy("CopyKernel", "vmlinuz", "CopyInitrd")
CopyInitrd == Copy("CopyInitrd", "initramfs", "StageRo")

(* Mutant: the remount does not write the pages back.                      *)
remount_unsynced == UNCHANGED disk

(* Sealing the partition writes everything back; a failure is a warning.   *)
remount_ro ==
  \/ diskFiles' = files /\ diskPtr' = ptr
  \/ "seal" \in mishaps /\ UNCHANGED disk

StageRo ==
  /\ pc = "StageRo"
  /\ remount_ro
  /\ IF res = "ok" THEN Goto("ActivateRw") /\ UNCHANGED phase ELSE Abort
  /\ UNCHANGED <<res, current, request, files, ptr>>

-----------------------------------------------------------------------------
(* set_active: the pointer is rewritten in place and synced.               *)

ActivateRw ==
  /\ pc = "ActivateRw"
  /\ (Goto("Truncate") /\ UNCHANGED phase) \/ Abort
  /\ UNCHANGED <<res, current, request, files, ptr, disk>>

(* config.txt cannot be read, or has no os_prefix line.                    *)
PointerUnreadable ==
  /\ pc = "Truncate" /\ Pi
  /\ res' = "err" /\ Goto("ActivateRo")
  /\ UNCHANGED <<phase, current, request, files, ptr, disk>>

Truncate ==
  /\ pc = "Truncate"
  /\ ptr' = "torn" /\ Goto("WritePtr")
  /\ UNCHANGED <<res, phase, current, request, files, disk>>

WritePtr ==
  /\ pc = "WritePtr"
  /\ \/ ptr' = stage_inactive /\ Goto("FsyncPtr") /\ UNCHANGED res
     \/ "write" \in mishaps /\ UNCHANGED ptr /\ Goto("ActivateRo") /\ res' = "err"
  /\ UNCHANGED <<phase, current, request, files, disk>>

(* An error of the sync is dropped: the upgrade goes on as if it had not   *)
(* happened.                                                               *)
FsyncPtr ==
  /\ pc = "FsyncPtr"
  /\ diskPtr' = ptr \/ ("fsync" \in mishaps /\ UNCHANGED diskPtr)
  /\ Goto("ActivateRo")
  /\ UNCHANGED <<res, phase, current, request, files, ptr, diskFiles>>

ActivateRo ==
  /\ pc = "ActivateRo"
  /\ remount_ro
  /\ IF res = "ok" THEN Goto("Staged") /\ Publish("Staged") ELSE Abort
  /\ UNCHANGED <<res, current, request, files, ptr>>

-----------------------------------------------------------------------------
(* The kernel, the power supply and the firmware.                          *)

WritebackFile(s, p) ==
  /\ files[s][p] # diskFiles[s][p]
  /\ \E c \in {"torn", files[s][p]} : diskFiles' = [diskFiles EXCEPT ![s][p] = c]
  /\ UNCHANGED <<res, pc, phase, current, request, files, ptr, diskPtr>>

WritebackPtr ==
  /\ ptr # diskPtr
  /\ diskPtr' \in {"torn", ptr}
  /\ UNCHANGED <<res, pc, phase, current, request, files, ptr, diskFiles>>

(* The shutdown sequence syncs and unmounts: after a staged upgrade, or    *)
(* because the node was told to.                                           *)
Reboot ==
  /\ pc \in {"Idle", "Staged"}
  /\ diskFiles' = files /\ diskPtr' = ptr
  /\ Goto("Off")
  /\ UNCHANGED <<res, phase, current, request, files, ptr>>

PowerCut ==
  /\ pc \in Working \cup {"Idle", "Staged"}
  /\ pc \in PtrOpen => "cut" \in mishaps
  /\ files' = diskFiles /\ ptr' = diskPtr
  /\ Goto("Off")
  /\ UNCHANGED <<res, phase, current, request, disk>>

(* The boot loader starts the selected slot, whose command line names it.  *)
PowerUp ==
  /\ pc = "Off"
  /\ IF diskPtr \in Slot /\ Whole(diskFiles, diskPtr)
     THEN Goto("Idle") /\ current' = diskPtr /\ Publish("None")
     ELSE Goto("Dead") /\ UNCHANGED <<current, phase>>
  /\ UNCHANGED <<res, request, files, ptr, disk>>

-----------------------------------------------------------------------------
Next ==
  \/ \E v \in Images : Ask(v)
  \/ Download \/ DownloadPanics \/ Verify \/ Extract
  \/ StageRw \/ CopyKernel \/ CopyInitrd \/ StageRo
  \/ ActivateRw \/ PointerUnreadable \/ Truncate \/ WritePtr \/ FsyncPtr \/ ActivateRo
  \/ \E s \in Slot, p \in Part : WritebackFile(s, p)
  \/ WritebackPtr \/ Reboot \/ PowerCut \/ PowerUp

Spec == Init /\ [][Next]_vars

-----------------------------------------------------------------------------
(* The slot the node runs from is whole, on disk and in memory, whatever   *)
(* an upgrade does and wherever it stops: the way back is never written    *)
(* to (bootloader.rs:123-127, 204-208).                                    *)
RunningSlotWhole ==
  pc \notin {"Off", "Dead"} =>
    Whole(diskFiles, current) /\ files[current] = diskFiles[current]

(* Nothing reaches a slot that some upgrade did not ask for by its sha256, *)
(* leftovers of earlier attempts included (upgrade.rs:93-106).             *)
VerifiedOnly ==
  \A s \in Slot, p \in Part :
    {files[s][p], diskFiles[s][p]} \subseteq asked \cup {Installed, "torn"}

(* An upgrade that reports Staged has selected the other slot and filled   *)
(* it with the image asked for (upgrade.rs:107-123).                       *)
StagedIsWanted ==
  pc = "Staged" => /\ ptr = other(current)
                   /\ \A p \in Part : files[ptr][p] = want

(* An upgrade that failed has not changed what the next boot runs          *)
(* (upgrade.rs:1-4, main.rs:469-471), unless it was the write of the       *)
(* pointer that failed.                                                    *)
FailedKeepsSlot ==
  "write" \notin mishaps /\ pc = "Idle" /\ phase = "Failed" =>
    ptr = current /\ diskPtr = current

(* What an upgrade never does to the slots, whatever fails in it.          *)
SlotsSafe == TypeOK /\ RunningSlotWhole /\ VerifiedOnly /\ StagedIsWanted /\ FailedKeepsSlot

(* The boot partition implements the A/B promise on a node without those   *)
(* mishaps: as long as no power is cut while the pointer is open, the      *)
(* pointer's write and sync succeed and the partition can be sealed        *)
(* (bootloader.rs:63-93, 129-152).  Of any other node nothing is promised: *)
(* the mapping leaves it switched off.                                     *)
ImageOf(s) == IF Whole(diskFiles, s) THEN diskFiles[s]["vmlinuz"] ELSE "torn"
NextImage == IF mishaps # {} THEN Installed
             ELSE IF diskPtr = "torn" THEN ImageOf(current) ELSE ImageOf(diskPtr)
RunningImage == IF mishaps # {} \/ pc \in {"Off", "Dead"} THEN "none" ELSE ImageOf(current)
Promise == INSTANCE BootSlots WITH next <- NextImage, running <- RunningImage
KeepsPromise == Promise!Spec

(* Some slot can be booted at any time (raspberry-pi-3a-plus.md:41,        *)
(* bootloader.rs:137-140).                                                 *)
AlwaysBootable == pc # "Dead"
=============================================================================
