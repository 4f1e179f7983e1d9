-------------------------------- MODULE Pods --------------------------------
(***************************************************************************)
(* Running the configured pods: RuntimeHealthController probes the CRI     *)
(* socket and publishes RuntimeStatus, PodController drives each pod to a  *)
(* running container and publishes PodStatus, and import_boot_images loads *)
(* the pre-baked images once (crates/controllers/src/runtime, crates/cri,  *)
(* crates/machined/src/runtime_images.rs).                                 *)
(*                                                                         *)
(* Every call goes to containerd, which may be down, may stop answering,   *)
(* and may do what it is asked and lose the reply: the calls are separate  *)
(* steps.  Both controllers resync on a timer, so a reconcile may begin    *)
(* whenever the last one is over and an event adds nothing to that.        *)
(* Containers outlive containerd (their shims do not stop with it).  Its   *)
(* metadata and images outlive a reboot when /var does (root =             *)
(* "/var/lib/containerd"): the sandboxes of an earlier boot come back not  *)
(* ready, and keep their names.                                            *)
(***************************************************************************)
EXTENDS Naturals, Sequences, FiniteSets

CONSTANTS
  PodSeq,     \* machine.pods, in order
  Image,      \* the image of each pod
  Pause,      \* the sandbox image
  Hangs,      \* may containerd stop answering?
  MaxFaults   \* bound: lost calls, containerd crashes, exits of containers and sandboxes

Pods == {PodSeq[n] : n \in DOMAIN PodSeq}
Images == {Image[p] : p \in Pods} \cup {Pause}

PodsAssumption == PodSeq \in Seq(Pods) /\ Hangs \in BOOLEAN /\ MaxFaults \in Nat

VARIABLES
  disabled,   \* machine.runtime.disabled
  serving,    \* containerd: down, starting (answers, not ready), up or hung
  sock,       \* does the socket file exist?
  images,     \* the images it has
  sandbox,    \* its sandbox of each pod: none, ready or notready
  container,  \* the container of each pod
  importer,   \* import_boot_images: waiting, importing or done
  tars,       \* the archives it has left
  hpc, hready,        \* RuntimeHealthController and the answer of ready()
  status,             \* RuntimeStatus.ready, FALSE when there is none
  pc, pod, desired,   \* PodController: where it is, for which pod, the statuses so far
  podStatus,          \* the PodStatus of each pod
  faults

daemon == <<disabled, importer, tars, hpc, hready, status, pc, pod, desired, podStatus>>
containerd == <<serving, sock, images, sandbox, container>>
vars == <<daemon, containerd, faults>>

Answering == serving \in {"starting", "up"}

Status(phase, message) == [phase |-> phase, message |-> message]
Phases == {"Pending", "Running", "Failed"}

Init ==
  /\ disabled \in BOOLEAN
  /\ serving = "down" /\ sock = FALSE /\ images \in SUBSET Images
  /\ sandbox \in [Pods -> {"none"} \cup IF Pause \in images THEN {"notready"} ELSE {}]
  /\ container = [q \in Pods |-> "none"]
  /\ importer = (IF disabled THEN "done" ELSE "wait") /\ tars = Images
  /\ hpc = "idle" /\ hready = FALSE /\ status = FALSE
  /\ pc = "idle" /\ pod = 1 /\ desired = <<>>
  /\ podStatus = [p \in Pods |-> Status("none", "")]
  /\ faults = 0

-----------------------------------------------------------------------------
(* containerd, and the containers it started.                              *)

Serves(how) ==
  /\ ~disabled
  /\ \/ serving = "down" /\ how = "starting"
     \/ serving = "starting" /\ how = "up"
  /\ serving' = how /\ sock' = TRUE
  /\ UNCHANGED <<images, sandbox, container, faults, daemon>>

(* It crashes, and leaves its socket file behind.                          *)
Crash ==
  /\ serving # "down" /\ faults < MaxFaults
  /\ serving' = "down" /\ faults' = faults + 1
  /\ UNCHANGED <<sock, images, sandbox, container, daemon>>

Hang ==
  /\ Hangs /\ Answering
  /\ serving' = "hung"
  /\ UNCHANGED <<sock, images, sandbox, container, faults, daemon>>

Exits(q) ==
  /\ container[q] = "running" /\ faults < MaxFaults
  /\ container' = [container EXCEPT ![q] = "exited"]
  /\ faults' = faults + 1
  /\ UNCHANGED <<serving, sock, images, sandbox, daemon>>

(* The pause process of a sandbox is gone; nothing removes the sandbox.    *)
SandboxDies(q) ==
  /\ sandbox[q] = "ready" /\ faults < MaxFaults
  /\ sandbox' = [sandbox EXCEPT ![q] = "notready"]
  /\ faults' = faults + 1
  /\ UNCHANGED <<serving, sock, images, container, daemon>>

(* A call to containerd: it answers; it is down; or the reply is lost with *)
(* what was asked done or not.  A hung one never returns.                  *)
Answered == Answering /\ UNCHANGED faults

Lost == \/ serving = "down" /\ UNCHANGED faults
        \/ Answering /\ faults < MaxFaults /\ faults' = faults + 1

-----------------------------------------------------------------------------
(* import_boot_images: waits for the socket for a minute, then tries every *)
(* archive once.                                                           *)

WaitForSocket ==
  /\ importer = "wait"
  /\ importer' = "import"
  /\ UNCHANGED <<disabled, tars, hpc, hready, status, pc, pod, desired, podStatus,
                 containerd, faults>>

ImportTar(t) ==
  /\ importer = "import" /\ t \in tars
  /\ tars' = tars \ {t}
  /\ importer' = IF tars' = {} THEN "done" ELSE importer
  /\ \/ Answered /\ images' = images \cup {t}
     \/ Lost /\ images' \in {images} \cup (IF Answering THEN {images \cup {t}} ELSE {})
  /\ UNCHANGED <<disabled, hpc, hready, status, pc, pod, desired, podStatus,
                 serving, sock, sandbox, container>>

-----------------------------------------------------------------------------
(* RuntimeHealthController.                                                *)

HealthGoes(place, ready, published) ==
  /\ hpc' = place /\ hready' = ready /\ status' = published
  /\ UNCHANGED <<disabled, importer, tars, pc, pod, desired, podStatus, containerd>>

HealthDisabled ==
  /\ hpc = "idle" /\ disabled
  /\ HealthGoes("idle", FALSE, FALSE) /\ UNCHANGED faults

(* ready(): the RuntimeReady condition alone.                              *)
Probe ==
  /\ hpc = "idle" /\ ~disabled
  /\ \/ Answered /\ HealthGoes("version", serving = "up", status)
     \/ Lost /\ HealthGoes("version", FALSE, status)

(* version(), asked whatever ready() said; either failing is not ready.    *)
Version ==
  /\ hpc = "version"
  /\ \/ Answered /\ HealthGoes("idle", FALSE, hready)
     \/ Lost /\ HealthGoes("idle", FALSE, FALSE)

Health == HealthDisabled \/ Probe \/ Version

-----------------------------------------------------------------------------
(* PodController: the statuses are gathered pod by pod and published       *)
(* together.                                                               *)

p == PodSeq[pod]

PodGoes(place) ==
  /\ pc' = place
  /\ UNCHANGED <<disabled, importer, tars, hpc, hready, status, pod, desired, podStatus>>

(* The pod is done with, and the next one is up.                           *)
Report(s) ==
  /\ desired' = Append(desired, s)
  /\ pod' = pod + 1
  /\ pc' = IF pod = Len(PodSeq) THEN "publish" ELSE "image"
  /\ UNCHANGED <<disabled, importer, tars, hpc, hready, status, podStatus>>

(* The runtime's readiness is read once, for all the pods.                 *)
Reconcile ==
  /\ pc = "idle"
  /\ IF status
     THEN pc' = (IF PodSeq = <<>> THEN "publish" ELSE "image") /\ UNCHANGED desired
     ELSE /\ pc' = "publish"
          /\ desired' = [n \in DOMAIN PodSeq |-> Status("Pending", "runtime not ready")]
  /\ pod' = 1
  /\ UNCHANGED <<disabled, importer, tars, hpc, hready, status, podStatus, containerd, faults>>

image_present ==
  /\ pc = "image"
  /\ \/ /\ Answered
        /\ IF Image[p] \in images THEN PodGoes("find_sandbox")
           ELSE Report(Status("Pending", "image not present"))
     \/ Lost /\ Report(Status("Pending", "cri unreachable"))
  /\ UNCHANGED containerd

Refused == Report(Status("Pending", "cri error"))
Fails == Lost /\ Refused

(* Only a ready sandbox is found.                                          *)
find_sandbox ==
  /\ pc = "find_sandbox"
  /\ \/ /\ Answered
        /\ PodGoes(IF sandbox[p] = "ready" THEN "find_container" ELSE "run_pod_sandbox")
     \/ Fails
  /\ UNCHANGED containerd

(* containerd needs the pause image, and has one sandbox of a name, which  *)
(* is the same at every try (attempt 0).  One that is cut off leaves no    *)
(* sandbox, a ready one or one that never became ready.                    *)
run_pod_sandbox ==
  LET runs == sandbox[p] = "none" /\ Pause \in images
      leaves(made) == [sandbox EXCEPT ![p] = made]
  IN /\ pc = "run_pod_sandbox"
     /\ \/ Answered /\ runs /\ sandbox' = leaves("ready") /\ PodGoes("find_container")
        \/ Answered /\ ~runs /\ Refused /\ UNCHANGED sandbox
        \/ /\ Fails
           /\ sandbox' \in {sandbox} \cup (IF runs /\ Answering
                                          THEN {leaves("ready"), leaves("notready")} ELSE {})
     /\ UNCHANGED <<serving, sock, images, container>>

find_container ==
  /\ pc = "find_container"
  /\ \/ /\ Answered
        /\ PodGoes(IF container[p] = "none" THEN "create_container" ELSE "if_created")
     \/ Fails
  /\ UNCHANGED containerd

(* Mutant: a container that was found is taken to have been started.       *)
IfCreatedNot ==
  /\ pc = "if_created"
  /\ (Answered \/ Lost) /\ PodGoes("container_state")
  /\ UNCHANGED containerd

(* A container that was created and not started is started; when its state *)
(* cannot be read it is left for the next reconcile.                       *)
IfCreated ==
  /\ pc = "if_created"
  /\ \/ Answered /\ PodGoes(IF container[p] = "created" THEN "start_container"
                            ELSE "container_state")
     \/ Lost /\ PodGoes("container_state")
  /\ UNCHANGED containerd

(* Nothing is created or started in a sandbox that has died meanwhile.     *)
create_container ==
  LET after == [container EXCEPT ![p] = IF sandbox[p] = "ready" /\ @ = "none" THEN "created" ELSE @]
  IN /\ pc = "create_container"
     /\ \/ /\ Answered /\ container' = after
           /\ IF sandbox[p] = "ready" THEN PodGoes("start_container") ELSE Refused
        \/ Fails /\ container' \in {container} \cup (IF Answering THEN {after} ELSE {})
     /\ UNCHANGED <<serving, sock, images, sandbox>>

start_container ==
  LET after == [container EXCEPT ![p] = IF sandbox[p] = "ready" /\ @ = "created" THEN "running" ELSE @]
  IN /\ pc = "start_container"
     /\ \/ /\ Answered /\ container' = after
           /\ IF sandbox[p] = "ready" THEN PodGoes("container_state") ELSE Refused
        \/ Fails /\ container' \in {container} \cup (IF Answering THEN {after} ELSE {})
     /\ UNCHANGED <<serving, sock, images, sandbox>>

(* Mutant: a container that was started is reported running.               *)
ContainerStateAssumed ==
  /\ pc = "container_state"
  /\ (Answered \/ Lost) /\ Report(Status("Running", ""))
  /\ UNCHANGED containerd

(* What is reported is what is observed last.  The address, asked for when *)
(* it runs, is best effort.                                                *)
container_state ==
  /\ pc = "container_state"
  /\ \/ /\ Answered
        /\ Report(CASE container[p] = "running" -> Status("Running", "")
                    [] container[p] = "exited" -> Status("Failed", "container exited")
                    [] OTHER -> Status("Pending", "starting"))
     \/ Fails
  /\ UNCHANGED containerd

Publish ==
  /\ pc = "publish"
  /\ podStatus' = [q \in Pods |-> desired[CHOOSE n \in DOMAIN PodSeq : PodSeq[n] = q]]
  /\ pc' = "idle" /\ pod' = 1 /\ desired' = <<>>
  /\ UNCHANGED <<disabled, importer, tars, hpc, hready, status, containerd, faults>>

PodStep ==
  \/ Reconcile \/ image_present \/ find_sandbox \/ run_pod_sandbox \/ find_container
  \/ IfCreated \/ create_container \/ start_container \/ container_state \/ Publish

Import == WaitForSocket \/ \E t \in Images : ImportTar(t)

Next ==
  \/ \E how \in {"starting", "up"} : Serves(how)
  \/ Crash \/ Hang \/ \E q \in Pods : Exits(q) \/ SandboxDies(q)
  \/ Import \/ Health \/ PodStep

Spec == Init /\ [][Next]_vars

(* The daemon's tasks run; nothing is assumed of containerd.               *)
LiveSpec == Spec /\ WF_vars(Import) /\ WF_vars(Health) /\ WF_vars(PodStep)

-----------------------------------------------------------------------------
TypeOK ==
  /\ serving \in {"down", "starting", "up", "hung"} /\ (Answering => sock)
  /\ images \subseteq Images /\ tars \subseteq Images
  /\ importer \in {"wait", "import", "done"}
  /\ hpc \in {"idle", "version"} /\ status \in BOOLEAN /\ hready \in BOOLEAN
  /\ pod \in 1..(Len(PodSeq) + 1) /\ (pc = "publish" => Len(desired) = Len(PodSeq))
  /\ \A q \in Pods : /\ sandbox[q] \in {"none", "ready", "notready"}
                     /\ container[q] \in {"none", "created", "running", "exited"}
                     /\ podStatus[q].phase \in Phases \cup {"none"}
  /\ faults \in 0..MaxFaults

(* A pod is reported as Running only when its container was started, and   *)
(* as Failed only when it has exited, which it never recovers from: no     *)
(* lost reply, crash of containerd or half-made container is reported as   *)
(* either.                                                                 *)
ReportTrue ==
  \A q \in Pods :
    /\ podStatus[q].phase = "Running" => container[q] \in {"running", "exited"}
    /\ podStatus[q].phase = "Failed" => container[q] = "exited"

(* Idempotence across failures: once containerd stays up and has the       *)
(* images, every pod gets to run, wherever an earlier attempt was cut off. *)
(* One thing alone is in the way for good, and never passes for success: a *)
(* sandbox that is not ready is not found, cannot be made again under its  *)
(* name, and is removed by nobody; its pod is reported Pending for ever.   *)
PodsRun ==
  <>[](serving = "up" /\ images = Images)
    => \A q \in Pods :
         \/ <>[](podStatus[q].phase \in {"Running", "Failed"})
         \/ <>[](sandbox[q] = "notready" /\ podStatus[q].phase = "Pending")

(* RuntimeStatus follows containerd: not ready once it is gone for good,   *)
(* ready once it stays up, whatever call a crash of it cut short.          *)
StatusFollows ==
  /\ <>[](serving = "down") => <>[](~status)
  /\ <>[](serving = "up") => <>[](status \/ disabled)
=============================================================================
