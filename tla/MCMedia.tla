------------------------------ MODULE MCMedia -------------------------------
(***************************************************************************)
(* What a node boots from: the image builder with its download cache, its  *)
(* archive writer and its module closure, and the A/B upgrade that         *)
(* replaces the image later.  They meet only in the files they leave, so   *)
(* they are checked side by side: which says what a behaviour is about.    *)
(***************************************************************************)
EXTENDS Upgrade, Media, Sequences, Functions, TLC

CONSTANTS m1, m2, m3, Artifacts, Manifests, Declared

VARIABLES
  which,  \* the part the behaviour is about
  i_arch, i_pki, i_size, i_file, i_arts, i_at, i_n, i_text, i_rootfs,
  i_staging, i_embedded, i_mods, i_initrd, i_out, i_faults,
  c_len, c_ino, c_entries, c_headers, c_done

(* Every modules.dep over three modules with at most two dependencies      *)
(* each, the cyclic ones included, and those in which one has no line.     *)
Lists == {<<>>} \cup {<<x>> : x \in All} \cup {<<x, y>> : x, y \in All}
MCTables == LET deps == {l \in Lists : IsInjective(l)}
            IN [All -> deps] \cup [All \ {m3} -> deps]
MCRoots == {<<m2, m1>>, <<m1, m3>>}

(* The two kernels, the Pi's firmware, a package that brings its own init, *)
(* one with an entry outside the tree, one of a kind the builder does not  *)
(* know, the container runtime's files and the boot loader.  A manifest is *)
(* any selection of these, the last five together or not at all.           *)
Art(kind, name, rename, holds) ==
  [kind |-> kind, name |-> name, rename |-> rename, holds |-> holds]
Apk(holds) == Art("apk", "a package", "", holds)
MCArtifacts ==
  <<Apk({<<".PKGINFO">>, <<"boot", "vmlinuz-virt">>,
         <<"lib", "modules", "virt", "modules.dep">>,
         <<"lib", "modules", "virt", "virtio.ko.gz">>,
         <<"lib", "modules", "virt", "spare.ko.gz">>}),
    Apk({<<"boot", "vmlinuz-rpi">>, <<"boot", "dtb">>, <<"boot", "overlay">>,
         <<"lib", "modules", "rpi", "modules.dep">>}),
    Apk({<<"boot", "blobs">>}), Apk({<<"init">>}), Apk({<<"..", "outside">>}),
    Art("unknown", "something", "", {}),
    Art("boot-tarball", "containerd", "", {<<"bin", "containerd">>, <<"LICENSE">>}),
    Art("boot-binary", "runc.amd64", "runc", {}),
    Art("oci-image", "pause.tar", "", {}),
    Art("cni-plugins", "cni", "", {<<"bridge">>, <<"host-local">>, <<"loopback">>, <<"vlan">>}),
    Art("sd-boot-efi", "systemd-boot", "", {})>>
MCDeclared ==
  [v \in {"virt", "rpi"} |-> IF v = "virt" THEN {"virtio.ko", "spare.ko"} ELSE {}]
MCManifests ==
  LET every == [k \in DOMAIN MCArtifacts |-> k]
  IN {SelectSeq(every, LAMBDA k : k \in S \cup R) : S \in SUBSET (1..6), R \in {{}, 7..11}}

I == INSTANCE Imager WITH
  MaxFaults <- 1, arch <- i_arch, pki <- i_pki, size <- i_size,
  file <- i_file, arts <- i_arts, at <- i_at, n <- i_n, text <- i_text,
  rootfs <- i_rootfs, staging <- i_staging, embedded <- i_embedded, mods <- i_mods,
  initrd <- i_initrd, out <- i_out, faults <- i_faults

C == INSTANCE Cpio WITH
  NameLens <- 1..4, DataLens <- {0, 1, 3, 4, 255, 256}, MaxEntries <- 3,
  Width <- 2, len <- c_len, ino <- c_ino, entries <- c_entries,
  headers <- c_headers, done <- c_done

-----------------------------------------------------------------------------
upgradeState == <<pc, res, phase, current, want, got, stage, files, ptr,
  diskFiles, diskPtr, asked, mishaps>>
imagerState == <<i_arch, i_pki, i_size, i_file, i_arts, i_at, i_n, i_text,
  i_rootfs, i_staging, i_embedded, i_mods, i_initrd, i_out, i_faults>>
fetchState == <<f_at, f_fd, f_tmp, f_cached, f_data, f_got, f_faults>>
cpioState == <<c_len, c_ino, c_entries, c_headers, c_done>>
modulesState == <<m_deps, m_roots, m_bad, m_phase, m_k, m_stack, m_seen,
  m_out, m_files, m_loaded, m_failed>>

(* A part that a behaviour is not about rests in an initial state.         *)
UpgradeRests == mishaps = {} /\ Init
ImagerRests ==
  /\ i_arch = "x86_64" /\ i_arts = <<>> /\ i_pki = {} /\ i_size = "large"
  /\ i_file = "one" /\ I!Init
FetchRests == F!Init
CpioRests == C!Init
ModulesRests ==
  /\ m_deps = [m \in All \ {m3} |-> <<>>] /\ m_roots = <<m2, m1>> /\ m_bad = {} /\ M!Init

MCInit ==
  \/ which = "upgrade" /\ Init /\ ImagerRests /\ FetchRests /\ CpioRests
     /\ ModulesRests
  \/ which = "imager" /\ I!Init /\ UpgradeRests /\ FetchRests /\ CpioRests
     /\ ModulesRests
  \/ which = "fetch" /\ F!Init /\ UpgradeRests /\ ImagerRests /\ CpioRests
     /\ ModulesRests
  \/ which = "cpio" /\ C!Init /\ UpgradeRests /\ ImagerRests /\ FetchRests
     /\ ModulesRests
  \/ which = "modules" /\ M!Init /\ UpgradeRests /\ ImagerRests
     /\ FetchRests /\ CpioRests

MCNext ==
  \/ /\ which = "upgrade" /\ Next
     /\ UNCHANGED <<which, imagerState, fetchState, cpioState, modulesState>>
  \/ /\ which = "imager" /\ I!Next
     /\ UNCHANGED <<which, upgradeState, fetchState, cpioState, modulesState>>
  \/ /\ which = "fetch" /\ F!Next
     /\ UNCHANGED <<which, upgradeState, imagerState, cpioState, modulesState>>
  \/ /\ which = "cpio" /\ C!Next
     /\ UNCHANGED <<which, upgradeState, imagerState, fetchState, modulesState>>
  \/ /\ which = "modules" /\ M!Next
     /\ UNCHANGED <<which, upgradeState, imagerState, fetchState, cpioState>>

state == <<which, upgradeState, imagerState, fetchState, cpioState, modulesState>>

(* Nothing here has to happen but in the download cache: a build goes on   *)
(* while it runs, the operator builds again, and the server that is asked  *)
(* again and again answers at some time.                                   *)
Fetching(A) == which = "fetch" /\ A

MCSpec ==
  /\ MCInit /\ [][MCNext]_state
  /\ \A b \in Builds : /\ WF_fetchState(Fetching(F!Step(b)))
                         /\ SF_fetchState(Fetching(F!Start(b)))
                         /\ SF_fetchState(Fetching(F!Get(b)))
  /\ WF_fetchState(Fetching(\E b \in Builds : F!GetFails(b)))

-----------------------------------------------------------------------------
(* Imager: a build ends with an image exactly when its inputs allow one;   *)
(* the image embeds the configuration that was validated and boots slot A, *)
(* and slot B once an upgrade has filled it, when its boot loader is       *)
(* pinned; every file that modules.load names and every one the runtime    *)
(* needs is where the node looks for it.  Cpio: what the writer wrote      *)
(* reads back as the entries it was given, up to one too long for newc.    *)
ImageRight ==
  /\ which = "imager" =>
       /\ I!TypeOK /\ I!FailsForCause /\ I!EmbeddedIsValidated /\ I!ImageBoots
       /\ I!ModulesShipped /\ I!RuntimeFindsItsFiles
  /\ which = "cpio" => C!ReadsBack

(* Fetch: a build that is tried again gets its artifact in the end.        *)
EveryBuildFetches == which = "fetch" => F!EveryBuildFetches
=============================================================================
