# machined-rs in TLA+

A verification development for `machined`, a PID-1 machine daemon built around
a typed resource store, level-triggered controllers and a service supervisor,
with the tools that build its image and talk to it. Source paths below are
relative to `crates/`.

## 1. Parts and modules

| Part | Source | What makes it hard | Modules |
|---|---|---|---|
| Resource store | `runtime-core/src/{state,watch,error}.rs`, `resources/src/metadata.rs` | every task holds a clone; events leave after the unlock | `StateOps`, `Store`, `SharedStore` |
| Controller runtime | `runtime-core/src/runtime.rs` | bounded channel, debounce, resync tick, shutdown token | `ControllerLoop`, `LevelTrigger` |
| Owner cascade | `runtime-core/src/owned.rs` | producer and consumer on stale reads | `Cascade` |
| Service supervisor, reaper | `supervisor/src`, `machined/src/pid1.rs` | one task per service, the manager, processes, `waitpid(-1)` | `Supervisor`, `StartOrder`, `Backoff`, `Startup` |
| Early boot | `machined/src/{main,imageboot}.rs`, `platform/src` | steps that need each other and only log errors | `EarlyBoot`, `Daemon` |
| Main task, sequences, API actions | `machined/src/{main,emergency}.rs`, `sequencer/src`, `apiserver/src` | select loop, one-slot channel, joins, failures on the way down | `Lifecycle`, `Daemon` |
| Disk: discovery, provisioning, mounts | `controllers/src/block`, `block/src/sysfs.rs` | three controllers, a crash between any two writes | `Volumes`, `Disk` |
| Identity | `machined/src/imageboot.rs`, `pki/src` | a timeout against a late mount; files written one by one | `Identity`, `NodeKeys` |
| A/B upgrade | `machined/src/{upgrade,bootloader}.rs` | page cache, failing remounts, power cuts | `Upgrade`, `BootSlots` |
| Network | `controllers/src/network`, `netlink/src` | six loops against a kernel that refuses | `Network` |
| Runtime health, pods, image import | `controllers/src/runtime`, `cri/src`, `machined/src/runtime_images.rs` | a runtime that crashes, hangs and loses replies | `Pods` |
| Time sync | `controllers/src/time`, `time/src` | server fallback, arithmetic on a wrapping field | `TimeSync` |
| Image builder | `imager/src` | a pipeline of minutes, a shared cache, an archive format | `Imager`, `Fetch`, `Modules`, `Cpio`, `Media` |
| CLI | `machinectl/src`, `apiserver/src/service.rs` | timeouts against answers still to come | `Machinectl`, `Daemon` |

How they meet. The store is the only thing the controllers share, and a
controller sees it through its loop. `ControllerLoop` shows what a loop
guarantees, and the modules with several controllers (`Cascade`, `Network`,
`Volumes`) use that as a wake flag instead of the channel. `Lifecycle` has
every controller as a loop that is idle, busy or stopped. It takes from
`Volumes` that volumes are published and mounted by two of them, and from
`Upgrade` that preparing one succeeds or fails. `Machinectl` takes from
`Lifecycle` that the main task receives from the channel. `Supervisor` takes
its start order from `StartOrder`. `Imager` takes its artifacts from `Fetch`
and its module list from `Modules`.

State and actions keep the code's names where TLA+ allows it. `pc` or `at` is
where a task is, one action is what happens between two awaits or two system
calls, and the files, tables and processes outside the daemon are variables
with actions of their own. What a data type adds beyond what the control looks
at is left out: a spec is a value, a bundle is the image it holds, a file is
its content or "torn".

`SharedStore`, `Startup`, `Disk`, `NodeKeys`, `Daemon` and `Media` put
components side by side under names of their own (`V!Spec`, `v_gpt`), with the
assumptions on their constants and the properties that the runs check and the
theorems state. The MC modules and the proof modules both extend them, so a
theorem is about the very definition a run checks.

**StateOps, Store.** A store operation is a function from the object map to a
result code, a new map and the event to send, atomic under the mutex. Clients
read objects, keep the copies and later call with what they remember. `gen`
numbers the incarnations of a key and `held` records which one a client's
finalizer was placed on; the code has neither, they only serve the properties.

**ControllerLoop, LevelTrigger.** A write and its event are two steps; the
channel drops its oldest event when full and reports the lag once; a drain ends
at an empty channel or a lag; a reconcile reads its inputs one after the other,
then writes. `LevelTrigger` is the contract: an input that stays changed is seen.

**Cascade.** `reconcile_owned` and `reconcile_finalized` as two loops over one
type, one store call per step, with applies and reverts that fail with or
without effect.

**Supervisor.** One task per service (`run_supervised`, `run_service`,
`ProcessRunner::run`), the processes, the reaper and `stop_all`. An abort takes
effect only at an await. Each spawn is a group leader and the tree it may fork.

**StartOrder, Backoff.** `start_order` and `backoff_step`, against reference
definitions.

**EarlyBoot.** The PID-1 steps before the configuration and the boot
sequence's repetition of the mounts, over a mount table in which a later mount
hides what is below it.

**Lifecycle.** `run_daemon` from the start of the controllers to the final
system call, the sequences task by task, the API handlers and the signals. The
receiver of a signal exists only while a select waits, as in the code.

**Volumes.** The install disk over several boots: partition table, contents,
the kernel's device nodes, the scan, the plan (`Decide`), the writes and the
mounts, with the store's resources that carry them from one controller to the
next. What may fail is part of the initial state (`scene`).

**Identity.** `/system/state/pki` on the volume and below it, the seeding with
its staging directory, and `load_or_generate` file by file; files that are not
synced are what a power cut makes of them.

**Upgrade, BootSlots.** Download to pointer flip, each file twice: as programs
see it and as the disk has it. Writeback happens at any time and in pieces; an
fsync orders one file, a read-only remount all. `BootSlots` is the A/B promise.

**Network.** The config controller and the link, address and route controllers
item by item, hostname and resolver, against a kernel with its own rules: no
address on a missing link, no route over a link that is down or to a gateway
out of reach.

**Pods.** The probe, the pod controller call by call, the one-shot import, and
containerd, which may do what it is asked and lose the reply.

**TimeSync.** The servers in order, the four-timestamp arithmetic with Rust's
division and the 32-bit field, the step and its failure.

**Imager, Fetch, Modules, Cpio.** The build step by step over path sets, the
download cache by inode, the depth-first closure frame by frame together with
the node that loads its result, and the archive's offsets in fields of their
real kind of width.

**Machinectl.** One invocation per client: connect, call, timeout, and the
handler on the node that outlives the call.

The definitions marked "Mutant" are plausible bugs, used to show that each
property can fail; no specification uses them.

## 2. Runs

Parts that share no state are checked side by side in one run: `which` says
what a behaviour is about and never changes, and the other parts rest in an
initial state. A property of a part is then one of the conjuncts below.

| Run | Instance | What it shows |
|---|---|---|
| `store` | 1 key, 2 clients, 2 specs, versions to 4, 2 incarnations | equal versions of an incarnation are equal objects, so an accepted write acts on what its client read; a finalizer holds its incarnation; a one-way lifecycle |
| `loop` | 2 inputs and 1 other key, 1 writer and the controller, capacity 1, 3 writes | no lost wakeup; refinement of `LevelTrigger` with its fairness; a cancelled loop returns |
| `cascade` | 1 key, 2 owners, 3 changes, 2 failures | no orphaned effect; nothing foreign collected; convergence on the store's events alone when nothing fails and a withdrawn key is gone before it is desired again |
| `supervisor_safety` | 2 dependent services, 2 spawns each, forks | at most one spawn after the stop intent; no child left; a final status; dependents first |
| `services` | the same with 1 spawn; every list of up to 3 services over 9 dependency lists; attempts of 0, 59, 60 and 61 s | `stop_all` ends and an `Always` service comes back; `OrderRight`: an order exactly when there is one, dependencies first, whatever the listing; `RestartsPaced`: no seven starts within a minute, and a second's delay after a healthy run |
| `node` | 2 requests, 2 controllers; 5 kinds of disks, with and without another one that has a boot partition, 2 boots, everything failing, or nothing; 2 authorities and a baked one; 3 failing calls of early boot; 4 clients | see below |
| `controllers` | 6 network configs, 1 pod with 2 faults, 2 pool servers, 6 ticks, 2 boot times | see below |
| `media` | 2 images and 3 sets of mishaps; 128 manifests; 2 builds, 3 faults; archives of 3 entries; every `modules.dep` over 3 modules | see below |
| `cascade_again`, `reaper_outcome`, `tree_survives`, `upgrade_torn` | one service, one key, two images | violated, see section 5 |

`node`:

- `GoesDownRight`: a reset formats a mounted volume only where both ways to
  unmount it failed, and reboots only after calling format for every published
  volume it is to erase; nothing is mounted once the controllers are joined.
  `RequestsEnd`: the way down ends, whatever clients hold, unless a reconcile
  never returns, and a request is received unless the loop has been left or an
  upgrade before it never ends.
- `VolumesAttested`: without `install.wipe` a `VolumeStatus` names the partition
  with its label, and a `MountStatus` stands for a mount from that device, or,
  for EFI alone, from another disk's partition that early boot put at `/boot`.
  `StateComesUp`: a flashed image or a provisioned disk ends with STATE mounted
  in a boot without faults.
- `NothingLost`: nothing on the disk is lost without `install.wipe`; with it,
  nothing is laid out again in a boot that found the layout and could read it.
- `IdentityKept`: a whole baked identity is the one served, wherever earlier
  boots were cut and whenever STATE was mounted, until a boot fails to seed it;
  no identity file on STATE is replaced, unless STATE is mounted while the files
  are written.
- `BootsRight`: a node that reaches its services has every essential filesystem
  in reach and mounted once, and after a clean boot the boot partition, the
  cgroup controllers and the right configuration too.
- `ReportedIsQueued`, `CommandsEnd`: what a client reports was in the channel,
  and every command ends.

`controllers`:

- `StatusesTrue`, `NetworkConverges`: published means applied, and the loops
  come to rest; where the kernel can take them, the links and addresses are in
  force by then, and a route over a link that is up by itself. What it refuses
  keeps neither the hostname nor the nameservers back.
- `ReportTrue`, `PodsRun`: Running and Failed are true of the container;
  `RuntimeStatus` follows containerd; once it stays up with the images, every
  pod gets to run from wherever an attempt was cut off, except one whose sandbox
  is left not ready: that one stays Pending.
- `SyncedIsClose`, `ClockSet`: synced means within threshold plus half the
  longest accepted trip, also at the end of the NTP era; a step lands within
  half a trip; one server that answers is enough.

`media`:

- `SlotsSafe`: the running slot is never touched, only images asked for reach a
  slot, what is called staged is what was asked for, a failed upgrade has not
  changed the next boot. `KeepsPromise`: without mishaps this is `BootSlots`.
- `ImageRight`: a build ends with an image exactly when its inputs allow one; it
  embeds the configuration that was validated, whatever becomes of the file in
  the meantime; both slots, the modules and the runtime's files are where the
  node looks, and so is the boot loader if the manifest pins it; an archive
  whose lengths fit its fields reads back.
- `UsedIsPinned`, `EveryBuildFetches`: a build uses only what its hash says,
  wherever an earlier one was killed, and gets its artifact when it is repeated.
- `ModulesLoad`: the closure ends on every table, dependencies first, and the
  node loads exactly what the kernel accepts with all it needs.

## 3. Bounds and fairness

Calls on different keys share nothing but the mutex, so one key is enough for
the store and the cascade. Version 4 leaves room for a finalizer, a teardown and
an update in one incarnation; two incarnations make a version recur. Three
writes overflow a channel of one and leave one pending. Two spawns give a
restart and one more spawn racing the stop intent. Two boots give a boot that
finds what the first one left half done. Two requests fill the channel and leave
one blocked in send. Two images are the one that runs and the one asked for, and
repeating an upgrade finds the leftovers of the first. A threshold of 1 with a
timeout of 4 separates the two terms of the clock's error. The network configs
are a link with entries that do not parse, one the config has down, one with two
routes, one that comes up after its address, one whose driver refuses the MTU
with a route of mixed families, and one that is missing. Fields of two
hexadecimal digits hold a length of 255 in the archive and overflow at 256; the
code's eight do so at 4 GiB.

What may go wrong in a behaviour is part of its initial state where the
properties tell these behaviours apart, so that one run covers them: `scene`
(`Volumes`), `mishaps` (`Upgrade`), `blind` (`EarlyBoot`: the mount table cannot
be read), `unset` (`TimeSync`: the clock may not be set). In `Identity` every
call may fail and STATE may be mounted at any step; `mishap` only remembers
which kind of it has happened: "seed" when the seeding failed, or STATE was
mounted between it and the end of the load; "write" when it was mounted while
files were written; "load" when the load failed. The properties that do not hold
under one of them say so.

`CHECK_DEADLOCK FALSE` is used where the system really stops: a cancelled loop,
a daemon that is down, a finished build, a bounded environment.

Fairness. Weak fairness of a loop, of a task and of the manager: the executor
polls what is ready, and timers fire. Of the network's loops the run asks less,
that one of those not at rest moves. Strong fairness of a loop's shutdown arm:
`tokio::select!` picks among ready arms at random. Strong fairness of a blocked
send: the channel's permits are given out in turn. Weak fairness of a pending
event: it is sent after the unlock in the same call. In `Lifecycle` neither a
reconcile nor the preparation of an upgrade has to end: CRI calls, netlink
calls and downloads have no deadline. `RequestsEnd` names them as what can hold
the node up. A node without power is switched on again (`Volumes`). A time
server's answer that is neither lost nor late arrives (`TimeSync`). In `Fetch`,
an operator builds again and a server that is asked again and again answers at
some time. Nothing else has to happen: no process exits, no client calls, no
fault, no tick, and containerd neither comes back nor answers; `PodsRun` says
what it needs of it.

## 4. Proofs

TLAPS proves the following for every value of the constants that satisfies the
assumptions listed below; the bounds on counters are constants like the others.
Every safety property that a run checks is proved, with one exception named at
the end. Each proof has the same shape: an inductive invariant that says where
each task can be and what it has established by then, one step per action, and
the property as a consequence.

- `StoreProofs`: the store's operations as lemmas on the object map (each
  mutates, creates, removes or does nothing), then what is built on them.
  - `StoreTypeCorrect`, `VersionsIdentifyContent`, `FinalizersHold`,
    `LifecycleRespected`. The version property is not inductive by itself: a
    memory ahead of the store could be caught up with. `SnapBehind` adds that no
    memory is ahead, in incarnation or in version.
  - `NoOrphanedEffect`. The strengthening covers the two windows of the
    consumer: finalizer placed and not yet applied, reverted and not yet
    released.
  - `ForeignNeverCollected`. `reconcile_owned` works through a list that may be
    stale. `GcInv` says that what it listed as its own is still its own or gone,
    because no call changes an owner and nobody else creates under these keys.
- `ControllerLoopProofs`: `NoWakeupLost` (inductive together with the types)
  and `LoopRefines`, the safety part of the refinement of `LevelTrigger`.
- `ServicesProofs`:
  - `TypeCorrect`, `StopPreventsRestart`, `StopKillsLeaders`, `StopIsReported`,
    `StopRespectsDependencies` of the supervisor. The invariant ties a living
    child to the latest spawn and to the two places its task can be in
    (`AliveInv`), and what is told to stop to the tail of the start order
    (`OrderInv`).
  - `OrderStaysRight`: `start_order` returns an order exactly when there is one.
    `StartInv` says that an in-degree counts the dependencies that have not
    started and that the queue is what has none left. When the queue runs empty
    early, everything left waits for something left, and a finite set of such
    services has a cycle (a least counterexample by inclusion).
  - `RestartsStayPaced`: `PaceInv` says how far, one to six restarts back, the
    delay must have doubled unless a minute has passed.
- `ControllersProofs`:
  - `StatusesStayTrue`: a finalizer stands on a stored spec and a status on a
    finalizer (`Owned`); what a reconcile holds is in the store (`Reconciling`);
    a route is on a link that is up (`Kernel`).
  - `ReportsStayTrue`: what a reconcile has gathered of each pod is still true
    when it is published, for a container only moves forward (`Gathered`).
  - `SyncedStaysClose`, `StepsImprove`: an answer was stamped between being
    asked and being received, in this era or the one before (`InFlight`), and
    halving is off by at most half a tick.
- `DiskProofs`: `VolumesStayAttested`, `NothingIsLost`. `DiskInv` lists the
  tables a disk can have; in each a label has its place. The provisioner acts on
  a published discovery only (`Discovering`), so where it can be follows from
  the table found (`Deciding`), and what is left to format holds nothing of the
  node's unless it wipes (`Provisioned`, `Owning`). What is mounted as a label
  is its partition or, for EFI, the other disk's (`Mountable`): STATE and
  EPHEMERAL never hold a vfat that early boot could take for the boot partition.
- `DaemonProofs`:
  - `GoesDownAsItShould`: every loop has stopped past the join (`Joined`), what
    the unmounting has passed is unmounted or stuck (`Unmounted`), and what the
    formatting has passed is wiped (`Formatted`). The published volumes cannot
    change any more, which is why a reset that reboots is complete.
  - `BootsStayRight`: a pass has mounted what it has gone through, and a cgroup
    mount is not hidden because `/sys` came before it and is mounted once
    (`Sighted`); where a boot without a failed call has got to (`Undisturbed`).
  - `ReportsAreQueued`: a handler that answers ok has queued (`Promised`).
- `DurableProofs`:
  - `IdentityIsKept`: the directory that is renamed into place is whole and
    synced before; until a seeding fails STATE holds either nothing or the
    whole baked set; and what the daemon has not written yet is missing, below
    the mount or, if it was there from the start, on STATE.
  - `SlotsStaySafe` for any mishaps, and `UpgradeKeepsPromise`, the whole
    refinement of `BootSlots`. An upgrade is a straight line, so `SlotInv` says
    what holds from one place of it to another: the request in hand (`InHand`),
    the copied slot (`Copied`), the pointer before and after the flip
    (`Unflipped`, `Flipped`). For the refinement `Durable` adds that, without
    mishaps, the slot is on disk before the pointer is opened, and that the
    pointer on disk is torn only while it is open. The step of `BootSlots` that
    selects an image is the fsync of the pointer or a writeback before it.
- `MediaProofs`:
  - `FetchesThePinned`: builds that use a cache one after the other have at most
    one file open, the temporary one (`OneBuild`, `Writes`), and what is renamed
    or used was written to the end or hashed (`Written`, `Hashed`).
  - `ModulesAlwaysLoad`, for every finite table, also a cyclic one. What `visit`
    has seen is listed or on its stack (`Split`), and each call on the stack is
    for something the calls below it need (`Chain`). So a dependency that is
    still on the stack when its dependent is listed closes a cycle, and the
    stack, which repeats nothing, is never deeper than there are modules. The
    boot then loads exactly what needs nothing bad (`Boots`).

Assumptions, each evaluated by TLC on the runs:

- `None` and `Unseen` are no objects; clients have distinct finalizers (in the
  code, distinct names); producer and other owner differ.
- The start order of `Supervisor` lists every service once with dependencies
  first, which is what `OrderStaysRight` proves of `start_order`.
- No interface and no route is twice in a configuration with a difference
  (`NetworkAssumption`); `StatusTrue` leaves out what hangs on a link that the
  configuration itself has down.
- The node runs before the seconds since 1970 outgrow 32 bits, in 2106
  (`Before2106`); the end of the NTP era in 2036 is not excluded.
- The disks are of the five kinds of `Volumes`, the kinds of requests those of
  `NodeAction`, the commands those of `machinectl`; "torn" and "none" are no
  images and no authorities.
- A module table is finite and no larger than the recursion may be deep.
- The rest says that bounds are numbers and lists are lists.

Only model-checked:

- Everything with liveness, which the prover does not reach: `LevelTriggered`'s
  fairness, `CancelStopsLoop`, `Converges`, `StopCompletes`, `AlwaysComesBack`,
  `RequestsEnd`, `StateComesUp`, `CommandsEnd`, `NetworkConverges`, `PodsRun`,
  the end of `ClockSet`, `EveryBuildFetches`.
- `ImageRight`. What an archive reads back as is defined by recursion over
  its headers, and which images are right depends on what the packages of a
  manifest hold.

## 5. Disagreements between the code and what it says

With a run each:

- `cascade_again`: a key withdrawn and desired again while it is torn down, with
  an equal spec, is left `TearingDown` for ever (`runtime-core/src/owned.rs:40`).
  The configuration the network specs come from is fixed at start, so the daemon
  as it is does not do this; the helper does not exclude it.
- `reaper_outcome`: `waitpid(-1)` can collect a supervised child; a service that
  exited 0 is then reported `Failed` and, under `OnFailure`, run again. The pid
  slot is not cleared in that case either.
- `tree_survives`: a process forked by a leader outlives `stop_all` when the
  leader drains within the grace and it did not die of SIGTERM, or when SIGTERM
  was skipped because the slot was empty.
- `upgrade_torn`: the boot pointer is rewritten in place; a power cut between
  its truncation and its sync leaves no slot selected.

The models also show the following, which the properties of section 2 exclude
by a condition; each names where the model lets it happen.

- A boot task that fails ends the process, which as PID 1 panics the kernel
  (`machined/src/main.rs:452`, against the comment at 159). `Lifecycle.BootFails`.
- An action acknowledged after the main loop has left its select is dropped
  (`main.rs:459`), and a signal sent while an upgrade is prepared is seen by
  nobody (`main.rs:458`). `Lifecycle.Send`, `Terminate`: the reason for
  `final # "None"` in `ActionsServed`.
- A read-only remount that fails is only logged, so the pointer can be on disk
  before the slot it names (`machined/src/bootloader.rs:89`). `AlwaysBootable`
  of `Upgrade` fails with the mishap "seal" alone.
- An error of the pointer's fsync is swallowed (`bootloader.rs:141`, 223), so an
  upgrade counts as staged with a pointer that a power cut can still lose.
  `Upgrade.FsyncPtr`, mishap "fsync": `KeepsPromise` is about nodes without it.
- The shutdown waits for the controllers without a timeout (`main.rs:495`), and
  a loop does not look at its token during a reconcile: one that hangs in a CRI
  or netlink call keeps the node from going down. A download that hangs
  (`machined/src/upgrade.rs:72`) keeps the main loop from its select.
  `Lifecycle.Return`, `Upgrading`: the second disjuncts of `FinalCompletes` and
  `ActionsServed`.
- `/boot` is the first EFI partition of all disks by device name
  (`machined/src/imageboot.rs:57`). When that is another disk's, the mounter
  finds its EFI target mounted and publishes a `MountStatus` with the install
  disk's device as the source (`controllers/src/block/mount.rs:70`, as its test
  at 106 has it). `Volumes`, `other`: the exception in `MountStatusTrue`.
- A power cut between partitioning and formatting leaves volumes without a
  filesystem that every later boot skips and reports as provisioned
  (`controllers/src/block/provision.rs:400`). `Volumes`, fault "power": the
  reason `StateComesUp` speaks of boots without faults.
- Discovery runs once, so with `wipe` a second reconcile of the provisioner
  plans from what the disk was before the first one (`provision.rs:392`); and on
  the disk the node booted from, the kernel refuses the new table while `/boot`
  is mounted, so no volume comes up (`block/src/sysfs.rs:376`). `Volumes` with
  `wipe`.
- A failed mount is not tried again: no event follows it
  (`runtime-core/src/runtime.rs:216`). `Volumes`, fault "mount".
- When the seeding fails, or the boot partition is not mounted, the error is
  logged and the load goes on (`machined/src/main.rs:374`): `load_or_generate`
  makes an authority of its own, and because its directory exists the baked one
  is never seeded again (`imageboot.rs:114`). `Identity.SeedFails`: the condition
  of `BakedServed`.
- When the wait for STATE gives up, identity files written by path can land on a
  volume mounted between two of them (`imageboot.rs:183`). `Identity.Mount`: the
  condition of `NoRekey`.
- A generated authority is served before it is durable, so a power cut can make
  the next boot generate another (`pki/src/lib.rs:182`). `Identity.Fsync` is
  part of the seeding only.
- A route refused because its link is down is not tried again when the link
  comes up after the address (`controllers/src/network/route.rs:43`). A route
  that is already there is an error, unlike an address, and ends the reconcile
  (`netlink/src/rtnetlink_backend.rs:182`, against "All methods are idempotent"
  at `netlink/src/lib.rs:46`), so of two routes the second may never be tried.
  Both are configs of the run: `RoutesAppliable`, and "one is promised" in
  `Converges`. Two routes that differ only in their metric share an id and wake
  the config controller for ever (`config_controller.rs:126`);
  `NetworkAssumption` excludes these.
- A sandbox that is not ready is filtered out by `find_sandbox`
  (`cri/src/grpc.rs:187`), keeps its name, and is not removed by anyone, so
  `run_pod_sandbox` with the same name, uid and attempt (`grpc.rs:147`) is
  refused for ever. A pause process that dies leaves one, a crash while it is
  made does, and a reboot with the kept root of containerd
  (`config/src/runtime_svc.rs:41`). `Pods.SandboxDies`, `run_pod_sandbox`,
  `Init`: the second disjunct of `PodsRun`.
- A CRI call has no deadline, so a hung containerd keeps `RuntimeStatus` ready
  (`cri/src/grpc.rs:80`); an image whose import failed is not imported again
  (`machined/src/runtime_images.rs:39`). `Pods.Hangs`, `MaxFaults`: the premises
  of `PodsRun`.
- A clock that cannot be set leaves the last `TimeStatus` in place
  (`controllers/src/time/sync.rs:97`), and from 2036 on an answer's offset is
  off by an era (`time/src/sntp.rs:19`). `TimeSync`, `unset` and `Era`: the
  exceptions in `Syncs`.
- When the mounts cannot be listed, mounting everything again hides what is
  mounted below (`platform/src/lib.rs:133`). `EarlyBoot`, `blind`.
- Two builds with one cache directory share the temporary file's name
  (`imager/src/fetch.rs:67`). `Fetch.Shared`.
- Nothing asks for the boot loader of a GPT image: a manifest without an
  `sd-boot-efi` artifact builds an image that boots nothing
  (`imager/src/build.rs:105`). `Imager.HasLoader`: the condition of `ImageBoots`.
- The MBR writer looks only at the size of the partition, so an image too small
  for its files fails in `copy_tree`, after the old file was truncated
  (`imager/src/image.rs:127`). `Imager`, size "scant".

## 6. Not modelled

- Encodings and rendering: the grammar of the configuration (serde), X.509, GPT,
  MBR and FAT structures, compression, gzip and tar contents, the tables
  `machinectl` prints, `apiserver/src/mapping.rs` beyond whether a type is
  known. They are functions without state; what a property needs of them is a
  predicate on a text or a set of paths.
- `pki::write_client_bundle`, which only writes copies for the operator;
  `ProcessRunner::stop`, `pull_image` and kexec, which have no caller;
  `set_sysctl`, which writes one value; `list_links`, which no decision uses.
- The netlink `del_*` calls as such: no spec is withdrawn while the daemon runs.
  Withdrawal in general is `Cascade`.
- The recording fakes of the unit tests (`*/src/fake.rs`): the modules model the
  real backends.
- A configuration without `install`: the provisioner returns at once
  (`provision.rs:350`), so no volume is published or mounted, and the rest is
  `Lifecycle` without volumes.
- The drift of a clock between two synchronisations: `skew` changes only when
  the clock is set.
- The CRI readiness rule for containerd, which only opens a gate later than the
  `DefaultReadiness` of `Supervisor`.
