------------------------------- MODULE Cascade -------------------------------
(***************************************************************************)
(* The owner cascade (crates/runtime-core/src/owned.rs): a producer that   *)
(* keeps the set of resources it owns equal to what it desires             *)
(* (reconcile_owned), and a consumer that applies each of them to the real *)
(* world under a finalizer and reverts it when it is torn down             *)
(* (reconcile_finalized).  The two run as separate reconcile loops, so     *)
(* each acts on what it read a few calls ago while the other one writes.   *)
(*                                                                         *)
(* A loop is woken by every event of the type (both watch it) and clears   *)
(* the wake when its reconcile begins: what ControllerLoop shows.          *)
(***************************************************************************)
EXTENDS StateOps

CONSTANTS
  Producer,   \* the owner the producer stamps on what it creates
  Other,      \* some other owner
  Finalizer,  \* the consumer's finalizer
  Patience,   \* the values patient may have
  MaxChanges, \* bound: changes of what is desired
  MaxFaults   \* bound: applies and reverts that fail

ASSUME CascadeAssumption ==
  /\ Producer \in Owners /\ Other \in Owners /\ Producer # Other
  /\ Finalizer \in Finalizers
  /\ Patience \subseteq BOOLEAN
  /\ None \notin Specs \cup Keys

VARIABLES
  objects,  \* the store
  desired,  \* the spec desired for each key, or None
  applied,  \* the spec in force in the real world for each key, or None
  ppc, pwake, pwant, ptodo, pkey, pread,  \* the producer's loop
  cpc, cwake, cin, ctodo, ckey,           \* the consumer's loop
  patient,  \* is a withdrawn resource desired again only once it is gone?
  changes, faults

producer == <<ppc, pwant, ptodo, pkey, pread>>
consumer == <<cpc, cin, ctodo, ckey>>
counters == <<changes, faults, patient>>
vars == <<objects, desired, applied, producer, pwake, consumer, cwake, counters>>

Option(S) == S \cup {None}

TypeOK ==
  /\ objects \in [Keys -> Option(Object)]
  /\ desired \in [Keys -> Option(Specs)]
  /\ applied \in [Keys -> Option(Specs)]
  /\ ppc \in {"Idle", "Upsert", "Write", "Gc", "Get", "Destroy"}
  /\ pwake \in BOOLEAN
  /\ pwant \in [Keys -> Option(Specs)]
  /\ ptodo \subseteq Keys
  /\ ppc \in {"Upsert", "Write"} => \A k \in ptodo : pwant[k] # None
  /\ pkey \in Option(Keys)
  /\ ppc \in {"Write", "Get", "Destroy"} => pkey \in ptodo
  /\ pread \in Option(Object) /\ (ppc = "Destroy" => pread # None)
  /\ cpc \in {"Idle", "Each", "Apply", "Release"}
  /\ cwake \in BOOLEAN
  /\ cin \in [Keys -> Option(Object)]
  /\ ctodo \subseteq Keys /\ \A k \in ctodo : cin[k] # None
  /\ ckey \in Option(Keys) /\ (cpc \in {"Apply", "Release"} => ckey \in ctodo)
  /\ changes \in Nat /\ faults \in Nat /\ patient \in BOOLEAN

(* The store may hold objects of another owner, or of none, to start with. *)
Init ==
  /\ objects \in [Keys -> {None} \cup
        {[version |-> 1, owner |-> o, finalizers |-> {},
          phase |-> "Running", spec |-> s] : o \in {Other, None}, s \in Specs}]
  /\ desired \in [Keys -> Option(Specs)]
  /\ applied = [k \in Keys |-> None]
  /\ ppc = "Idle" /\ pwake = TRUE
  /\ pwant = [k \in Keys |-> None] /\ ptodo = {} /\ pkey = None /\ pread = None
  /\ cpc = "Idle" /\ cwake = TRUE
  /\ cin = [k \in Keys |-> None] /\ ctodo = {} /\ ckey = None
  /\ changes = 0 /\ faults = 0 /\ patient \in Patience

-----------------------------------------------------------------------------
(* The world around the two loops.                                         *)

(* What is desired of one key changes, and the producer is woken.          *)
ChangeDesired(k, want) ==
  /\ changes < MaxChanges
  /\ want # desired[k]
  /\ patient /\ want # None /\ desired[k] = None => objects[k] = None
  /\ desired' = [desired EXCEPT ![k] = want]
  /\ pwake' = TRUE
  /\ changes' = changes + 1
  /\ UNCHANGED <<objects, applied, producer, consumer, cwake, faults, patient>>

(* A wake that carries no news: an event sent late, a lag, another         *)
(* resource of the type.                                                   *)
Nudge ==
  /\ \/ pwake' = TRUE /\ UNCHANGED cwake
     \/ cwake' = TRUE /\ UNCHANGED pwake
  /\ UNCHANGED <<objects, desired, applied, producer, consumer, counters>>

(* Mutant: the producer does not watch what it produces.                   *)
CallUnwatched(r) ==
  /\ objects' = r.objects
  /\ cwake' = (cwake \/ r.event # None)
  /\ UNCHANGED pwake

(* The store after a call, and the wakes its event causes: both loops have *)
(* the type among their inputs.                                            *)
Call(r) ==
  /\ objects' = r.objects
  /\ pwake' = (pwake \/ r.event # None)
  /\ cwake' = (cwake \/ r.event # None)

NoCall == UNCHANGED <<objects, pwake, cwake>>

-----------------------------------------------------------------------------
(* The producer: reconcile_owned.  Any error ends the reconcile.           *)

ProducerGoes(pc, todo, k, obj) ==
  /\ ppc' = pc /\ ptodo' = todo /\ pkey' = k /\ pread' = obj
  /\ UNCHANGED <<desired, applied, consumer, counters>>

ProducerStart ==
  /\ ppc = "Idle" /\ pwake
  /\ pwake' = FALSE
  /\ pwant' = desired
  /\ ProducerGoes("Upsert", {k \in Keys : desired[k] # None}, None, None)
  /\ UNCHANGED <<objects, cwake>>

(* An object that is there with the spec that is wanted is left alone,     *)
(* whatever its owner and its phase.                                       *)
UpsertGet(k) ==
  /\ ppc = "Upsert" /\ k \in ptodo
  /\ IF objects[k] # None /\ objects[k].spec = pwant[k]
     THEN ProducerGoes("Upsert", ptodo \ {k}, None, None)
     ELSE ProducerGoes("Write", ptodo, k, objects[k])
  /\ NoCall
  /\ UNCHANGED pwant

UpsertWrite ==
  LET r == IF pread = None
           THEN create(objects, pkey,
                       [version |-> 0, owner |-> Producer, finalizers |-> {},
                        phase |-> "Running", spec |-> pwant[pkey]])
           ELSE update(objects, pkey, pread.version, pwant[pkey])
  IN /\ ppc = "Write"
     /\ Call(r)
     /\ IF r.code = "Ok"
        THEN ProducerGoes("Upsert", ptodo \ {pkey}, None, None)
        ELSE ProducerGoes("Idle", {}, None, None)
     /\ UNCHANGED pwant

(* Mutant: everything of the type that is not desired is collected.        *)
Unowned(k) == objects[k] # None /\ pwant[k] = None

Garbage(k) ==
  /\ objects[k] # None /\ objects[k].owner = Producer
  /\ pwant[k] = None

GcList ==
  /\ ppc = "Upsert" /\ ptodo = {}
  /\ ProducerGoes("Gc", {k \in Keys : Garbage(k)}, None, None)
  /\ NoCall
  /\ UNCHANGED pwant

GcTeardown(k) ==
  LET r == teardown(objects, k)
  IN /\ ppc = "Gc" /\ k \in ptodo
     /\ Call(r)
     /\ CASE r.code = "Ready" -> ProducerGoes("Get", ptodo, k, None)
          [] r.code = "Ok" -> ProducerGoes("Gc", ptodo \ {k}, None, None)
          [] OTHER -> ProducerGoes("Idle", {}, None, None)
     /\ UNCHANGED pwant

GcGet ==
  /\ ppc = "Get"
  /\ IF objects[pkey] = None
     THEN ProducerGoes("Idle", {}, None, None)
     ELSE ProducerGoes("Destroy", ptodo, pkey, objects[pkey])
  /\ NoCall
  /\ UNCHANGED pwant

GcDestroy ==
  LET r == destroy(objects, pkey, pread.version)
  IN /\ ppc = "Destroy"
     /\ Call(r)
     /\ IF r.code = "Ok"
        THEN ProducerGoes("Gc", ptodo \ {pkey}, None, None)
        ELSE ProducerGoes("Idle", {}, None, None)
     /\ UNCHANGED pwant

ProducerEnd ==
  /\ ppc = "Gc" /\ ptodo = {}
  /\ ProducerGoes("Idle", {}, None, None)
  /\ NoCall
  /\ UNCHANGED pwant

ProducerStep ==
  \/ ProducerStart \/ UpsertWrite
  \/ GcList \/ GcGet \/ GcDestroy \/ ProducerEnd
  \/ \E k \in Keys : UpsertGet(k) \/ GcTeardown(k)

-----------------------------------------------------------------------------
(* The consumer: reconcile_finalized over the objects it listed.           *)

ConsumerGoes(pc, todo, k) ==
  /\ cpc' = pc /\ ctodo' = todo /\ ckey' = k
  /\ UNCHANGED <<desired, producer, changes, patient>>

ConsumerStart ==
  /\ cpc = "Idle" /\ cwake
  /\ cwake' = FALSE
  /\ cin' = objects
  /\ ConsumerGoes("Each", {k \in Keys : objects[k] # None}, None)
  /\ UNCHANGED <<objects, pwake, applied, faults>>

AddFinalizer(k) ==
  LET r == add_finalizer(objects, k, Finalizer)
  IN /\ cpc = "Each" /\ k \in ctodo /\ cin[k].phase = "Running"
     /\ Call(r)
     /\ IF r.code = "Ok" THEN ConsumerGoes("Apply", ctodo, k)
                         ELSE ConsumerGoes("Idle", {}, None)
     /\ UNCHANGED <<cin, applied, faults>>

(* apply puts the spec that was listed in force; one that fails may have   *)
(* done so or not, and ends the reconcile.                                 *)
Apply ==
  /\ cpc = "Apply"
  /\ applied' = [applied EXCEPT ![ckey] = cin[ckey].spec]
  /\ ConsumerGoes("Each", ctodo \ {ckey}, None)
  /\ NoCall
  /\ UNCHANGED <<cin, faults>>

ApplyFails ==
  /\ cpc = "Apply" /\ faults < MaxFaults
  /\ faults' = faults + 1
  /\ applied' \in {applied, [applied EXCEPT ![ckey] = cin[ckey].spec]}
  /\ ConsumerGoes("Idle", {}, None)
  /\ NoCall
  /\ UNCHANGED cin

(* Mutant: the finalizer is released before the revert.                    *)
ReleaseFirst(k) ==
  /\ cpc = "Each" /\ k \in ctodo /\ cin[k].phase = "TearingDown"
  /\ ConsumerGoes("Release", ctodo, k)
  /\ NoCall
  /\ UNCHANGED <<cin, applied, faults>>

(* revert comes before the finalizer is released.                          *)
Revert(k) ==
  /\ cpc = "Each" /\ k \in ctodo /\ cin[k].phase = "TearingDown"
  /\ applied' = [applied EXCEPT ![k] = None]
  /\ ConsumerGoes("Release", ctodo, k)
  /\ NoCall
  /\ UNCHANGED <<cin, faults>>

RevertFails(k) ==
  /\ cpc = "Each" /\ k \in ctodo /\ cin[k].phase = "TearingDown"
  /\ faults < MaxFaults
  /\ faults' = faults + 1
  /\ applied' \in {applied, [applied EXCEPT ![k] = None]}
  /\ ConsumerGoes("Idle", {}, None)
  /\ NoCall
  /\ UNCHANGED cin

RemoveFinalizer ==
  LET r == remove_finalizer(objects, ckey, Finalizer)
  IN /\ cpc = "Release"
     /\ Call(r)
     /\ IF r.code = "Ok" THEN ConsumerGoes("Each", ctodo \ {ckey}, None)
                         ELSE ConsumerGoes("Idle", {}, None)
     /\ UNCHANGED <<cin, applied, faults>>

ConsumerEnd ==
  /\ cpc = "Each" /\ ctodo = {}
  /\ ConsumerGoes("Idle", {}, None)
  /\ NoCall
  /\ UNCHANGED <<cin, applied, faults>>

ConsumerStep ==
  \/ ConsumerStart \/ Apply \/ RemoveFinalizer \/ ConsumerEnd
  \/ \E k \in Keys : AddFinalizer(k) \/ Revert(k)

-----------------------------------------------------------------------------

Next ==
  \/ ProducerStep \/ ConsumerStep \/ ApplyFails \/ Nudge
  \/ \E k \in Keys : RevertFails(k)
  \/ \E k \in Keys, want \in Option(Specs) : ChangeDesired(k, want)

(* A loop that has something to do goes on; nothing else has to happen.    *)
Fairness == WF_vars(ProducerStep) /\ WF_vars(ConsumerStep)

Spec == Init /\ [][Next]_vars /\ Fairness

-----------------------------------------------------------------------------

(* No orphaned effect: whatever is in force in the real world belongs to a *)
(* stored object that carries the consumer's finalizer, so that somebody   *)
(* is left to revert it, however the two loops' stale reads interleave and *)
(* whichever applies and reverts fail.                                     *)
EffectHeld ==
  \A k \in Keys :
    applied[k] # None =>
      objects[k] # None /\ Finalizer \in objects[k].finalizers

Foreign(obj) == obj # None /\ obj.owner # Producer

(* The producer's garbage collection never tears down or removes what it   *)
(* does not own.                                                           *)
ForeignSurvives ==
  [][\A k \in Keys : Foreign(objects[k]) =>
       /\ objects'[k] # None
       /\ objects'[k].owner = objects[k].owner
       /\ objects'[k].phase = objects[k].phase]_vars

Converged(k) ==
  IF desired[k] = None
  THEN objects[k] = None /\ applied[k] = None
  ELSE /\ objects[k] # None /\ objects[k].phase = "Running"
       /\ applied[k] = desired[k]

(* The cascade converges: once what is desired stops changing, each key of *)
(* the producer is either gone with its effect reverted, or running with   *)
(* the desired spec in force, without any wake but the store's own events. *)
(* It takes that no apply or revert fails, for a reconcile that fails is   *)
(* not run again, and that a withdrawn key is gone before it is desired    *)
(* again (DesiredRuns is about that).                                      *)
Converges ==
  \A k \in Keys :
    <>[](Foreign(objects[k]) \/ Converged(k) \/ faults > 0 \/ ~patient)

(* reconcile_owned gives an owner the resources it should have, upserting  *)
(* each desired one: once what is desired stops changing, a desired key is *)
(* there and running.                                                      *)
DesiredRuns ==
  \A k \in Keys :
    <>[](desired[k] # None => objects[k] # None /\ objects[k].phase = "Running")
=============================================================================
