------------------------------- MODULE Imager -------------------------------
(* The image builder's pipeline (imager/src/build.rs and the steps it calls): *)
(* pinned artifacts become a root filesystem and a staging tree, these become *)
(* an initramfs and a FAT tree, and the tree is written into a disk image.    *)
(*                                                                            *)
(* A path is the sequence of its components, an archive the set of the paths  *)
(* it holds, and a step of the build one action.  While it runs, the operator *)
(* may edit the configuration or remove a key file, and any step may fail.    *)
(* Downloads are in module Fetch, the module closure in module Modules.       *)
EXTENDS Naturals, Sequences, Functions, TLC

CONSTANTS
    Artifacts,   \* what a manifest may pin: a name, a rename, a kind, the contents
    Manifests,   \* the artifact lists
    Declared,    \* the modules a kernel's modules.dep has lines for
    MaxFaults

VARIABLES
    arch, pki, size,   \* the options of the build: pki is {} without --pki-dir
    file,              \* the configuration file, as it is now
    arts,              \* the manifest's list for the architecture
    at,                \* the next step
    n,                 \* the next artifact
    text,              \* the configuration as it was read
    rootfs, staging,   \* the scratch trees
    embedded,          \* what config.yaml holds
    mods,              \* modules.load
    initrd,            \* what the initramfs holds
    out,               \* the image file
    faults

scratch == <<rootfs, staging, embedded, mods, initrd>>
options == <<arch, pki, size, arts>>
vars == <<arch, pki, size, file, arts, at, n, text, rootfs, staging, embedded,
          mods, initrd, out, faults>>

PKI_FILES == {"ca.pem", "ca.key", "server.pem", "server.key"}

Texts == {"one", "two", "broken"}
Valid == {"one", "two"}          \* what load_from_str accepts

\* The kernel, the module roots, the partition scheme and the firmware of an
\* architecture; one that is not in the match has none.
arch_config ==
    [a \in {"x86_64", "aarch64", "aarch64-mbr"} |->
        [kernel |-> "vmlinuz-virt", roots |-> {"virtio.ko"},
         scheme |-> IF a = "aarch64-mbr" THEN "Mbr" ELSE "Gpt", pi |-> FALSE]]
    @@ [a \in {"aarch64-rpi"} |->
        [kernel |-> "vmlinuz-rpi", roots |-> {}, scheme |-> "Mbr", pi |-> TRUE]]

\* The steps in the order of build, and the order the comment on the firmware
\* step warns of, for the mutant.
StepsPrunedFirst ==
    <<"config", "pki", "manifest", "fetch", "kernel", "prune", "firmware",
      "initramfs", "stage", "keys", "slots", "write", "copy", "emit", "done">>

Steps ==
    <<"config", "pki", "manifest", "fetch", "kernel", "firmware", "prune",
      "initramfs", "stage", "keys", "slots", "write", "copy", "emit", "done">>

\* The step at hand succeeds, or ends the build in error.
Succeed(s) ==
    at = s /\ at' = Steps[1 + CHOOSE k \in DOMAIN Steps : Steps[k] = s]

Refuse(s) == at = s /\ at' = "failed"

Init ==
    /\ arch \in DOMAIN arch_config /\ arts \in Manifests
    /\ pki \in {{}, PKI_FILES, PKI_FILES \ {"ca.key"}}
    /\ size \in {"large", "medium", "scant", "small"} /\ file \in {"one", "broken"}
    /\ at = "config" /\ n = 1 /\ text = "none" /\ rootfs = {} /\ staging = {}
    /\ embedded = "none" /\ mods = {} /\ initrd = {} /\ out = "before" /\ faults = 0

\* The configuration is read once and must parse and validate.
ReadConfig ==
    /\ IF file \in Valid THEN Succeed("config") ELSE Refuse("config")
    /\ text' = file
    /\ UNCHANGED <<options, file, n, scratch, out, faults>>

\* All four key files are looked for before any work is done.
CheckPki ==
    /\ IF pki \in {{}, PKI_FILES} THEN Succeed("pki") ELSE Refuse("pki")
    /\ UNCHANGED <<options, file, n, text, scratch, out, faults>>

LoadManifest ==
    /\ IF arts # <<>> THEN Succeed("manifest") ELSE Refuse("manifest")
    /\ UNCHANGED <<options, file, n, text, scratch, out, faults>>

file_name(p) == p[Len(p)]

strip_gz(p) == CASE file_name(p) = "virtio.ko.gz" -> [p EXCEPT ![Len(p)] = "virtio.ko"]
                 [] file_name(p) = "spare.ko.gz" -> [p EXCEPT ![Len(p)] = "spare.ko"]
                 [] OTHER -> p

Contained(p) == ".." \notin Range(p)
Metadata(p) == Head(p) = ".PKGINFO"

\* The payload of an apk: no metadata, and modules decompressed.
extract_apk(holds) == {strip_gz(p) : p \in {q \in holds : ~Metadata(q)}}

\* The files under bin/ of a boot tarball.
extract_boot_tarball(holds) == {p \in holds : Head(p) = "bin"}

\* The plugins the default network configuration names, wherever they are.
extract_cni_plugins(holds) ==
    {<<"cni", "bin", f>> :
       f \in {"bridge", "host-local", "loopback"} \cap {file_name(p) : p \in holds}}

\* The name a single file is staged under.
Name(a) == IF a.rename = "" THEN a.name ELSE a.rename

\* The removable-media path the firmware of the architecture loads.
EfiName == IF arch = "aarch64" THEN "BOOTAA64.EFI" ELSE "BOOTX64.EFI"

\* One artifact: verified, then extracted or copied to where its kind goes.
Extract ==
    LET a == Artifacts[arts[n]] IN
    /\ at = "fetch" /\ n <= Len(arts)
    /\ IF a.kind = "unknown" \/ \E p \in a.holds : ~Contained(p)
       THEN at' = "failed" /\ UNCHANGED <<n, rootfs, staging>>
       ELSE /\ rootfs' = IF a.kind = "apk" THEN rootfs \cup extract_apk(a.holds) ELSE rootfs
            /\ staging' = staging \cup
                 CASE a.kind = "apk" -> {}
                   [] a.kind = "boot-tarball" -> extract_boot_tarball(a.holds)
                   [] a.kind = "boot-binary" -> {<<"bin", Name(a)>>}
                   [] a.kind = "oci-image" -> {<<"images", Name(a)>>}
                   [] a.kind = "cni-plugins" -> extract_cni_plugins(a.holds)
                   [] a.kind = "sd-boot-efi" -> {<<"EFI", "BOOT", EfiName>>}
            /\ n' = n + 1 /\ UNCHANGED at
    /\ UNCHANGED <<options, file, text, embedded, mods, initrd, out, faults>>

Extracted ==
    /\ n > Len(arts) /\ Succeed("fetch")
    /\ UNCHANGED <<options, file, n, text, scratch, out, faults>>

\* The kernel versions under lib/modules, of which there must be one.
find_kver == {p[3] : p \in {q \in rootfs : Head(q) = "lib"}}

\* The roots must have lines in modules.dep; the closure has the paths of the
\* decompressed files.
Kernel ==
    LET cfg == arch_config[arch]
        Found == \E v \in find_kver : find_kver = {v} /\ cfg.roots \subseteq Declared[v]
    IN
    /\ IF Found /\ <<"boot", cfg.kernel>> \in rootfs
       THEN /\ Succeed("kernel")
            /\ mods' = {<<"lib", "modules", v, m>> : v \in find_kver, m \in cfg.roots}
       ELSE Refuse("kernel") /\ UNCHANGED mods
    /\ UNCHANGED <<options, file, n, text, rootfs, staging, embedded, initrd, out, faults>>

PiFiles == {<<"boot", "blobs">>, <<"boot", "dtb">>, <<"boot", "overlay">>}

\* The blobs and config.txt at the root, and in each slot what os_prefix
\* redirects to it.
stage_pi_firmware ==
    {<<"blobs">>, <<"config.txt">>}
    \cup {<<slot, f>> : slot \in {"A", "B"}, f \in {"dtb", "overlay", "cmdline.txt"}}

Firmware ==
    /\ \/ arch_config[arch].pi /\ PiFiles \subseteq rootfs
          /\ Succeed("firmware") /\ staging' = staging \cup stage_pi_firmware
       \/ arch_config[arch].pi /\ ~(PiFiles \subseteq rootfs)
          /\ Refuse("firmware") /\ UNCHANGED staging
       \/ ~arch_config[arch].pi /\ Succeed("firmware") /\ UNCHANGED staging
    /\ UNCHANGED <<options, file, n, text, rootfs, embedded, mods, initrd, out, faults>>

\* /boot goes, and of the modules all but the closure.
prune_for_initramfs ==
    /\ Succeed("prune")
    /\ rootfs' = {p \in rootfs : Head(p) # "boot" /\ (Head(p) = "lib" => p \in mods)}
    /\ UNCHANGED <<options, file, n, text, staging, embedded, mods, initrd, out, faults>>

\* machined as /init, the lists it reads at boot, and the tree.
build_initramfs ==
    /\ IF <<"init">> \in rootfs THEN Refuse("initramfs") /\ UNCHANGED initrd
       ELSE Succeed("initramfs")
            /\ initrd' = rootfs \cup {<<"init">>}
                 \cup {<<"bootloader", IF arch_config[arch].pi THEN "pi" ELSE "sdboot">>}
    /\ UNCHANGED <<options, file, n, text, rootfs, staging, embedded, mods, out, faults>>

\* Kernel, initramfs and the configuration as it was read: the file may be
\* another one by now.
Stage ==
    /\ Succeed("stage")
    /\ staging' = staging \cup {<<"vmlinuz">>, <<"initramfs.img">>, <<"config.yaml">>,
                                <<"cni", "conf", "10-machined-bridge.conflist">>}
    /\ embedded' = text
    /\ UNCHANGED <<options, file, n, text, rootfs, mods, initrd, out, faults>>

\* The key files are copied; one that is gone by now fails the build.
CopyKeys ==
    /\ IF pki \in {{}, PKI_FILES} THEN Succeed("keys") ELSE Refuse("keys")
    /\ staging' = staging \cup {<<"pki", f>> : f \in pki}
    /\ UNCHANGED <<options, file, n, text, rootfs, embedded, mods, initrd, out, faults>>

MovedToA == (staging \ {<<"vmlinuz">>, <<"initramfs.img">>})
            \cup {<<"A", "vmlinuz">>, <<"A", "initramfs.img">>}

\* systemd-boot's layout, its loader.conf naming slot A.
assemble == MovedToA \cup {<<"loader", "loader.conf">>}
            \cup {<<"loader", "entries", slot>> : slot \in {"A", "B"}}

Slots ==
    /\ Succeed("slots")
    /\ staging' = CASE arch_config[arch].scheme = "Gpt" -> assemble
                    [] arch_config[arch].pi -> MovedToA
                    [] OTHER -> staging
    /\ UNCHANGED <<options, file, n, text, rootfs, embedded, mods, initrd, out, faults>>

\* Each scheme has a least size: the GPT the EFI partition and both tables,
\* the MBR its alignment gap and as much again.  What is left in a scant image
\* is too small for a FAT32.
write_image_gpt == size = "large"
write_image_mbr == size # "small"

\* The size is checked, then the file is truncated and the table written ...
write_image ==
    /\ IF IF arch_config[arch].scheme = "Gpt" THEN write_image_gpt ELSE write_image_mbr
       THEN Succeed("write") /\ out' = "partial"
       ELSE Refuse("write") /\ UNCHANGED out
    /\ UNCHANGED <<options, file, n, text, scratch, faults>>

\* ... the FAT is made, and the tree copied into it.
copy_tree ==
    /\ IF size # "scant" THEN Succeed("copy") /\ out' = "image"
       ELSE Refuse("copy") /\ UNCHANGED out
    /\ UNCHANGED <<options, file, n, text, scratch, faults>>

\* The kernel and the initramfs beside the image, for a boot without a disk.
EmitBoot ==
    /\ Succeed("emit")
    /\ UNCHANGED <<options, file, n, text, scratch, out, faults>>

Fault == faults < MaxFaults /\ faults' = faults + 1

\* Any step can fail on an I/O error.
StepFails ==
    /\ Fault /\ at \notin {"done", "failed"} /\ at' = "failed"
    /\ out' = IF at = "copy" THEN "partial" ELSE out
    /\ UNCHANGED <<options, file, n, text, scratch>>

EditConfig ==
    /\ Fault /\ at # "config" /\ file' \in Texts \ {file}
    /\ UNCHANGED <<options, at, n, text, scratch, out>>

RemoveKey ==
    /\ Fault /\ pki = PKI_FILES /\ pki' = PKI_FILES \ {"ca.key"}
    /\ UNCHANGED <<arch, size, arts, file, at, n, text, scratch, out>>

Next ==
    \/ ReadConfig \/ CheckPki \/ LoadManifest \/ Extract \/ Extracted \/ Kernel
    \/ Firmware \/ prune_for_initramfs \/ build_initramfs \/ Stage \/ CopyKeys
    \/ Slots \/ write_image \/ copy_tree \/ EmitBoot \/ StepFails \/ EditConfig \/ RemoveKey

Spec == Init /\ [][Next]_vars

-----------------------------------------------------------------------------
TypeOK ==
    /\ arch \in DOMAIN arch_config /\ pki \subseteq PKI_FILES
    /\ file \in Texts /\ {text, embedded} \subseteq Texts \cup {"none"}
    /\ at \in Range(Steps) \cup {"failed"} /\ n \in 1 .. Len(arts) + 1
    /\ out \in {"before", "partial", "image"} /\ faults \in 0 .. MaxFaults
    /\ \A p \in rootfs \cup staging \cup initrd : Contained(p)

\* "Nothing is written until the config parses", and what an image embeds is
\* a text that was validated, however the file changes during the build.
EmbeddedIsValidated == out # "before" => embedded \in Valid

\* Every file modules.load names is in the initramfs, under the name it has
\* there: extraction, closure and pruning agree on the paths.
ModulesShipped == at = "done" => mods \subseteq initrd

\* What the firmware and the bootloader of a layout read to boot a slot.
Boots(files, pi, slot) ==
    {<<slot, "vmlinuz">>, <<slot, "initramfs.img">>} \cup
    (IF pi THEN {<<"blobs">>, <<"config.txt">>, <<slot, "dtb">>, <<slot, "overlay">>,
                 <<slot, "cmdline.txt">>}
     ELSE {<<"EFI", "BOOT", IF arch = "x86_64" THEN "BOOTX64.EFI" ELSE "BOOTAA64.EFI">>,
           <<"loader", "loader.conf">>, <<"loader", "entries", slot>>}) \subseteq files

\* The boot loader of a GPT image is an artifact like the others: nothing asks
\* for it, and an image without it is finished and boots nothing.
HasLoader ==
    arch_config[arch].scheme = "Gpt"
        => "sd-boot-efi" \in {Artifacts[a].kind : a \in Range(arts)}

\* An image the builder finished is where module Upgrade starts: slot A boots,
\* slot B does not, and it will once an upgrade has put a kernel and an
\* initramfs there, which is all write_inactive_slot does; provided that the
\* manifest pins the boot loader.  ("aarch64-mbr" is a test vehicle that is
\* booted with -kernel.)
ImageBoots ==
    at = "done" /\ arch # "aarch64-mbr" /\ HasLoader =>
        LET pi == <<"bootloader", "pi">> \in initrd
            staged == {<<"B", "vmlinuz">>, <<"B", "initramfs.img">>}
        IN /\ Boots(staging, pi, "A")
           /\ ~Boots(staging, pi, "B")
           /\ Boots(staging \cup staged, pi, "B")

\* What the node's generated containerd configuration and its image import look
\* for on /boot (runtime_svc.rs, runtime_images.rs).
RuntimePaths ==
    {<<"bin", "runc">>, <<"cni", "conf", "10-machined-bridge.conflist">>, <<"images", "pause.tar">>}
    \cup {<<"cni", "bin", p>> : p \in {"bridge", "host-local", "loopback"}}

\* An image built with the runtime's artifacts has each of them at the path
\* the node looks for it: the builder's and the node's names agree.
RuntimeFindsItsFiles ==
    at = "done" /\ {"boot-binary", "oci-image", "cni-plugins"}
                       \subseteq {Artifacts[a].kind : a \in Range(arts)}
        => RuntimePaths \subseteq staging

\* The inputs from which an image can be built, as a whole.
Buildable ==
    LET used == {Artifacts[a] : a \in Range(arts)}
        held == UNION {a.holds : a \in {u \in used : u.kind = "apk"}}
        vers == {p[3] : p \in {q \in held : Head(q) = "lib"}}
        pi == arch = "aarch64-rpi"
    IN /\ arts # <<>>
       /\ size \in {"large"} \cup IF arch \in {"aarch64-rpi", "aarch64-mbr"} THEN {"medium"} ELSE {}
       /\ \A a \in used : a.kind # "unknown" /\ \A p \in a.holds : Contained(p)
       /\ vers = {IF pi THEN "rpi" ELSE "virt"} /\ <<"init">> \notin held
       /\ pi => PiFiles \subseteq held

\* A build that meets no I/O error and no edit ends with an image exactly when
\* its inputs allow one: no step takes away what a later step needs.
FailsForCause ==
    faults = 0 =>
        /\ at = "failed" => ~Buildable \/ file \notin Valid \/ pki \notin {{}, PKI_FILES}
        /\ at = "done" => Buildable
=============================================================================
