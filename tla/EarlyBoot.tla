------------------------------ MODULE EarlyBoot ------------------------------
(* What machined does as PID 1 before it has a configuration, and the first   *)
(* task of the boot sequence, which repeats part of it.                       *)
(*                                                                            *)
(* run_daemon mounts the essential pseudo filesystems, loads the modules the  *)
(* image lists, mounts the boot partition, delegates the cgroup controllers   *)
(* and picks a configuration; every one of these steps only logs its error.   *)
(* The boot sequence then calls mount_essential a second time, and there an   *)
(* error fails the boot.  mounts is the kernel's mount table in the order of  *)
(* the mounts: a filesystem mounted on an ancestor later hides what was       *)
(* mounted below it before, while /proc/self/mountinfo goes on listing it.    *)
EXTENDS Naturals, Sequences, Functions

CONSTANTS
    MaxFaults     \* system calls that fail in one boot

EarlyAssumption == MaxFaults \in Nat

VARIABLES
    media,     \* what the boot disk holds: {"partition", "config", "valid"}
    disk,      \* the configuration at DEFAULT_CONFIG_PATH
    blind,     \* TRUE: reading mountinfo may fail; it never changes
    at,        \* the next step
    i,         \* the next essential mount
    again,     \* TRUE in the boot sequence's mount_essential
    mounts,    \* the mount table, oldest first
    drivers,   \* TRUE when the disk's modules are loaded
    cgroup,    \* where PID 1 is and what the root's children may use
    config,    \* the configuration the daemon runs with
    faults

vars == <<media, disk, blind, at, i, again, mounts, drivers, cgroup, config, faults>>

\* The pseudo filesystems, in the order of the vector.
essential_mounts == <<"/proc", "/sys", "/dev", "/run", "/tmp", "/sys/fs/cgroup">>

Targets == Range(essential_mounts) \cup {"/boot"}

Above(t) == IF t = "/sys/fs/cgroup" THEN {"/sys"} ELSE {}

\* t can be reached through its path: it is mounted, and nothing above it was
\* mounted after it.
Visible(t) ==
    \E n \in DOMAIN mounts : mounts[n] = t
        /\ \A k \in n + 1 .. Len(mounts) : mounts[k] \notin Above(t)

Init ==
    /\ media \in SUBSET {"partition", "config", "valid"}
    /\ disk \in {"absent", "bad", "good"} /\ blind \in BOOLEAN
    /\ at = "mount" /\ i = 1 /\ again = FALSE /\ mounts = <<>>
    /\ drivers = FALSE /\ cgroup = "root" /\ config = "none" /\ faults = 0

Fault == faults < MaxFaults /\ faults' = faults + 1

\* The answers is_mounted can give the callers that take an error for "no".
is_mounted(t) ==
    {Visible("/proc") /\ t \in Range(mounts)}
        \cup IF blind /\ Visible("/proc") THEN {FALSE} ELSE {}

\* mount_essential ends, in error or not: only the boot sequence minds.
Leave(ok) ==
    /\ i' = 1
    /\ at' = IF ~again THEN "modules" ELSE IF ok THEN "up" ELSE "failed"

Mount(t) == mounts' = Append(mounts, t)

\* Mutant: a mount that fails does not end the loop.
EssentialCarriesOn ==
    LET t == essential_mounts[i]
        Onwards == IF i = Len(essential_mounts)
                   THEN Leave(TRUE) ELSE i' = i + 1 /\ UNCHANGED at
    IN
    /\ at = "mount"
    /\ \/ TRUE \in is_mounted(t) /\ Onwards /\ UNCHANGED <<mounts, faults>>
       \/ FALSE \in is_mounted(t) /\ Mount(t) /\ Onwards /\ UNCHANGED faults
       \/ FALSE \in is_mounted(t) /\ Fault /\ Onwards /\ UNCHANGED mounts
    /\ UNCHANGED <<media, disk, blind, again, drivers, cgroup, config>>

\* One round of mount_essential's loop; the first mount that fails ends it.
Essential ==
    LET t == essential_mounts[i]
        Onwards == IF i = Len(essential_mounts)
                   THEN Leave(TRUE) ELSE i' = i + 1 /\ UNCHANGED at
    IN
    /\ at = "mount"
    /\ \/ TRUE \in is_mounted(t) /\ Onwards /\ UNCHANGED <<mounts, faults>>
       \/ FALSE \in is_mounted(t) /\ Mount(t) /\ Onwards /\ UNCHANGED faults
       \/ FALSE \in is_mounted(t) /\ Fault /\ Leave(FALSE) /\ UNCHANGED mounts
    /\ UNCHANGED <<media, disk, blind, again, drivers, cgroup, config>>

Goto(here, there) == at = here /\ at' = there /\ UNCHANGED <<i, again, media, disk, blind>>

\* The modules, best effort (module Modules has the list and its order).
load_modules ==
    /\ Goto("modules", "boot")
    /\ \/ drivers' = TRUE /\ UNCHANGED faults
       \/ Fault /\ UNCHANGED drivers
    /\ UNCHANGED <<mounts, cgroup, config>>

\* The partitions are found under /sys/block and read through /dev.
Found == "partition" \in media /\ drivers /\ Visible("/sys") /\ Visible("/dev")

mount_boot ==
    /\ Goto("boot", "leaf")
    /\ \/ Found /\ Mount("/boot") /\ UNCHANGED faults
       \/ Found /\ Fault /\ UNCHANGED mounts
       \/ ~Found /\ UNCHANGED <<mounts, faults>>
    /\ UNCHANGED <<drivers, cgroup, config>>

\* delegate_cgroups, first half: without a cgroup2 mount it is a no-op, and an
\* error leaves PID 1 where it is.
MoveToLeaf ==
    /\ \/ Goto("leaf", "subtree") /\ Visible("/sys/fs/cgroup")
          /\ cgroup' = "leaf" /\ UNCHANGED faults
       \/ Goto("leaf", "config") /\ Visible("/sys/fs/cgroup")
          /\ Fault /\ UNCHANGED cgroup
       \/ Goto("leaf", "config") /\ ~Visible("/sys/fs/cgroup")
          /\ UNCHANGED <<cgroup, faults>>
    /\ UNCHANGED <<mounts, drivers, config>>

\* Second half: the controllers are enabled for the root's children.
SubtreeControl ==
    /\ Goto("subtree", "config")
    /\ \/ cgroup' = "delegated" /\ UNCHANGED faults
       \/ Fault /\ UNCHANGED cgroup
    /\ UNCHANGED <<mounts, drivers, config>>

\* The boot partition's configuration wins when the file exists.
pick_config_path == IF "config" \in media /\ Visible("/boot") THEN "boot" ELSE "disk"

\* A file that is absent, or does not parse or validate, means the defaults;
\* the boot sequence then starts with its mounts.
LoadConfig ==
    LET path == pick_config_path
        loads == IF path = "boot" THEN "valid" \in media ELSE disk = "good"
    IN
    /\ at = "config"
    /\ config' = IF loads THEN path ELSE "default"
    /\ at' = "mount" /\ again' = TRUE
    /\ UNCHANGED <<i, media, disk, blind, mounts, drivers, cgroup, faults>>

Next == Essential \/ load_modules \/ mount_boot \/ MoveToLeaf \/ SubtreeControl
        \/ LoadConfig

Spec == Init /\ [][Next]_vars

-----------------------------------------------------------------------------
TypeOK ==
    /\ media \subseteq {"partition", "config", "valid"}
    /\ disk \in {"absent", "bad", "good"}
    /\ at \in {"mount", "modules", "boot", "leaf", "subtree", "config", "up", "failed"}
    /\ i \in DOMAIN essential_mounts
    /\ blind \in BOOLEAN /\ again \in BOOLEAN /\ drivers \in BOOLEAN
    /\ mounts \in Seq(Targets)
    /\ cgroup \in {"root", "leaf", "delegated"}
    /\ config \in {"none", "boot", "disk", "default"}
    /\ (config = "none") = ~again
    /\ faults \in 0 .. MaxFaults

\* A node that reaches the services has every essential filesystem in reach,
\* whatever failed in the early pass: mount_essential stops at the first
\* failure, so the second pass never mounts a parent over a child.
EssentialsVisible ==
    at = "up" /\ ~blind => \A n \in DOMAIN essential_mounts : Visible(essential_mounts[n])

\* "Idempotent: re-running (e.g. the sequencer's MountFilesystems after an
\* early image-boot mount) is a no-op for already-present mounts."
MountedOnce == IsInjective(mounts) \/ blind

\* A boot without a failed call has the boot partition mounted, the cgroup
\* controllers delegated, and the configuration with the highest precedence:
\* the order of run_daemon's steps gives each what the one before provides.
CleanBoot ==
    at = "up" /\ faults = 0 /\ ~blind =>
        /\ cgroup = "delegated"
        /\ ("/boot" \in Range(mounts)) = ("partition" \in media)
        /\ config = IF {"partition", "config"} \subseteq media
                    THEN IF "valid" \in media THEN "boot" ELSE "default"
                    ELSE IF disk = "good" THEN "disk" ELSE "default"
=============================================================================
