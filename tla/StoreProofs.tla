----------------------------- MODULE StoreProofs -----------------------------
(***************************************************************************)
(* The store, for every set of keys, clients, finalizers and specs and for *)
(* unbounded versions and incarnations.  First what each operation does to *)
(* the object map, then the invariant of the owner cascade on top of it,   *)
(* and those of a store with concurrent clients.                           *)
(***************************************************************************)
EXTENDS Cascade, SharedStore, TLAPS

(* The provers get more time than by default, not every machine is fast.   *)
USE SMTT(30), ZenonT(20)

ObjectMap == [Keys -> Object \cup {None}]

(* A mutation of the object at k: a new version, its owner kept, a         *)
(* teardown never taken back.                                              *)
Mutated(objs, k, new) ==
  /\ objs[k] # None
  /\ new \in Object
  /\ new.version = objs[k].version + 1
  /\ new.owner = objs[k].owner
  /\ objs[k].phase = "TearingDown" => new.phase = "TearingDown"

(* The map after such a mutation, which leaves the given finalizers.       *)
Mutation(objs, k, after, fins) ==
  \E new \in Object :
    /\ Mutated(objs, k, new)
    /\ new.finalizers = fins
    /\ after = [objs EXCEPT ![k] = new]

-----------------------------------------------------------------------------
(* What each operation of the store does to the map.                       *)

(* None is no object.                                                      *)
LEMMA NoneIsNotAnObject == None \notin Object
  BY Zenon, NoneAssumption

(* Bump turns an object that keeps the owner, and a teardown, into a       *)
(* mutation.                                                               *)
LEMMA BumpShape ==
  ASSUME NEW objs \in ObjectMap, NEW k \in Keys, NEW code,
         NEW obj \in Object, objs[k] # None, obj.owner = objs[k].owner,
         objs[k].phase = "TearingDown" => obj.phase = "TearingDown"
  PROVE  Mutation(objs, k, Bump(objs, k, code, obj).objects, obj.finalizers)
<1> DEFINE v   == objs[k].version + 1
           new == [obj EXCEPT !.version = v]
<1>1. v \in Nat \ {0}
  BY DEF ObjectMap, Object
<1> HIDE DEF v
<1>2. new \in Object
  BY Zenon, <1>1 DEF Object
<1>3. new.version = v /\ new.owner = obj.owner /\ new.phase = obj.phase
      /\ new.finalizers = obj.finalizers
  BY Zenon DEF Object
<1> HIDE DEF new
<1>4. Mutated(objs, k, new)
  BY Zenon, <1>2, <1>3 DEF Mutated, v
<1>5. Bump(objs, k, code, obj).objects = [objs EXCEPT ![k] = new]
  BY Zenon DEF Bump, new, v
<1> QED BY Zenon, <1>2, <1>3, <1>4, <1>5 DEF Mutation

(* update changes nothing, or replaces the spec under the version given.   *)
LEMMA UpdateShape ==
  ASSUME NEW objs \in ObjectMap, NEW k \in Keys, NEW v \in Nat,
         NEW s \in Specs
  PROVE  \/ update(objs, k, v, s).objects = objs
         \/ Mutation(objs, k, update(objs, k, v, s).objects, objs[k].finalizers)
<1>1. CASE objs[k] = None \/ objs[k].version # v
  BY Zenon, <1>1 DEF update, Same
<1>2. CASE objs[k] # None /\ objs[k].version = v
  <2> DEFINE obj == [objs[k] EXCEPT !.spec = s]
  <2>1. objs[k] \in Object
    BY Zenon, <1>2 DEF ObjectMap
  <2>2. obj \in Object /\ obj.owner = objs[k].owner
        /\ obj.phase = objs[k].phase
        /\ obj.finalizers = objs[k].finalizers
    BY Zenon, <2>1 DEF Object, Phase
  <2>3. update(objs, k, v, s) = Bump(objs, k, "Ok", obj)
    BY Zenon, <1>2 DEF update
  <2> HIDE DEF obj
  <2>4. Mutation(objs, k, Bump(objs, k, "Ok", obj).objects, obj.finalizers)
    BY Zenon, <1>2, <2>2, BumpShape
  <2> QED BY Zenon, <2>2, <2>3, <2>4
<1> QED BY Zenon, <1>1, <1>2

(* add_finalizer answers Ok exactly when the object is there, and then the *)
(* name is on it; no other name is touched.                                *)
LEMMA AddFinalizerShape ==
  ASSUME NEW objs \in ObjectMap, NEW k \in Keys, NEW f \in Finalizers
  PROVE  LET r == add_finalizer(objs, k, f) IN
         \/ /\ r.objects = objs
            /\ r.code = "Ok" => objs[k] # None /\ f \in objs[k].finalizers
         \/ Mutation(objs, k, r.objects, objs[k].finalizers \cup {f})
<1>1. CASE objs[k] = None
  BY Zenon, <1>1 DEF add_finalizer, Same
<1>2. CASE objs[k] # None /\ f \in objs[k].finalizers
  BY Zenon, <1>2 DEF add_finalizer, Same
<1>3. CASE objs[k] # None /\ f \notin objs[k].finalizers
  <2> DEFINE obj == [objs[k] EXCEPT !.finalizers = @ \cup {f}]
  <2>1. objs[k] \in Object
    BY Zenon, <1>3 DEF ObjectMap
  <2>2. obj \in Object /\ obj.owner = objs[k].owner
        /\ obj.phase = objs[k].phase
        /\ obj.finalizers = objs[k].finalizers \cup {f}
    BY Zenon, <2>1 DEF Object, Phase
  <2>3. add_finalizer(objs, k, f) = Bump(objs, k, "Ok", obj)
    BY Zenon, <1>3 DEF add_finalizer
  <2> HIDE DEF obj
  <2>4. Mutation(objs, k, Bump(objs, k, "Ok", obj).objects, obj.finalizers)
    BY Zenon, <1>3, <2>2, BumpShape
  <2> QED BY Zenon, <2>2, <2>3, <2>4
<1> QED BY Zenon, <1>1, <1>2, <1>3

(* remove_finalizer takes away that name and no other.                     *)
LEMMA RemoveFinalizerShape ==
  ASSUME NEW objs \in ObjectMap, NEW k \in Keys, NEW f \in Finalizers
  PROVE  \/ remove_finalizer(objs, k, f).objects = objs
         \/ Mutation(objs, k, remove_finalizer(objs, k, f).objects,
                     objs[k].finalizers \ {f})
<1>1. CASE objs[k] = None
  BY Zenon, <1>1 DEF remove_finalizer, Same
<1>2. CASE objs[k] # None /\ f \notin objs[k].finalizers
  BY Zenon, <1>2 DEF remove_finalizer, Same
<1>3. CASE objs[k] # None /\ f \in objs[k].finalizers
  <2> DEFINE obj == [objs[k] EXCEPT !.finalizers = @ \ {f}]
  <2>1. objs[k] \in Object
    BY Zenon, <1>3 DEF ObjectMap
  <2>2. obj \in Object /\ obj.owner = objs[k].owner
        /\ obj.phase = objs[k].phase
        /\ obj.finalizers = objs[k].finalizers \ {f}
    BY Zenon, <2>1 DEF Object, Phase
  <2>3. remove_finalizer(objs, k, f) = Bump(objs, k, "Ok", obj)
    BY Zenon, <1>3 DEF remove_finalizer
  <2> HIDE DEF obj
  <2>4. Mutation(objs, k, Bump(objs, k, "Ok", obj).objects, obj.finalizers)
    BY Zenon, <1>3, <2>2, BumpShape
  <2> QED BY Zenon, <2>2, <2>3, <2>4
<1> QED BY Zenon, <1>1, <1>2, <1>3

(* teardown sets the phase at most once and leaves the finalizers.         *)
LEMMA TeardownShape ==
  ASSUME NEW objs \in ObjectMap, NEW k \in Keys
  PROVE  \/ teardown(objs, k).objects = objs
         \/ Mutation(objs, k, teardown(objs, k).objects, objs[k].finalizers)
<1>1. CASE objs[k] = None
  BY Zenon, <1>1 DEF teardown, Same
<1>2. CASE objs[k] # None /\ objs[k].phase = "TearingDown"
  BY Zenon, <1>2 DEF teardown, Same
<1>3. CASE objs[k] # None /\ objs[k].phase # "TearingDown"
  <2> DEFINE obj == [objs[k] EXCEPT !.phase = "TearingDown"]
             code == IF objs[k].finalizers = {} THEN "Ready" ELSE "Ok"
  <2>1. objs[k] \in Object
    BY Zenon, <1>3 DEF ObjectMap
  <2>2. obj \in Object /\ obj.owner = objs[k].owner
        /\ obj.phase = "TearingDown"
        /\ obj.finalizers = objs[k].finalizers
    BY Zenon, <2>1 DEF Object, Phase
  <2>3. teardown(objs, k) = Bump(objs, k, code, obj)
    BY Zenon, <1>3 DEF teardown
  <2> HIDE DEF obj, code
  <2>4. Mutation(objs, k, Bump(objs, k, code, obj).objects, obj.finalizers)
    BY Zenon, <1>3, <2>2, BumpShape
  <2> QED BY Zenon, <2>2, <2>3, <2>4
<1> QED BY Zenon, <1>1, <1>2, <1>3

(* destroy removes only an object without finalizers.                      *)
LEMMA DestroyShape ==
  ASSUME NEW objs \in ObjectMap, NEW k \in Keys, NEW v \in Nat
  PROVE  \/ destroy(objs, k, v).objects = objs
         \/ /\ objs[k] # None
            /\ objs[k].finalizers = {}
            /\ destroy(objs, k, v).objects = [objs EXCEPT ![k] = None]
<1>1. CASE objs[k] = None \/ objs[k].version # v \/ objs[k].finalizers # {}
  BY Zenon, <1>1 DEF destroy, Same
<1>2. CASE objs[k] # None /\ objs[k].version = v /\ objs[k].finalizers = {}
  BY Zenon, <1>2 DEF destroy
<1> QED BY Zenon, <1>1, <1>2

(* What create is handed, and the object it makes of it.                   *)
Draft ==
  [version : {0}, owner : Owners \cup {None}, finalizers : SUBSET Finalizers,
   phase : Phase, spec : Specs]

(* An object that create stores is an object with version 1.               *)
LEMMA NewObjectType ==
  ASSUME NEW obj \in Draft, NEW v \in Nat \ {0}, NEW p \in Phase
  PROVE  [obj EXCEPT !.version = v, !.phase = p] \in Object
  BY Zenon DEF Draft, Object

(* A mutation leaves a well-formed map.                                    *)
LEMMA MutationType ==
  ASSUME NEW objs \in ObjectMap, NEW k \in Keys, NEW after, NEW fins,
         Mutation(objs, k, after, fins)
  PROVE  after \in ObjectMap
  BY Zenon DEF Mutation, ObjectMap

(* create stores the object it is handed, with version 1, where none is.   *)
LEMMA CreateShape ==
  ASSUME NEW objs \in ObjectMap, NEW k \in Keys, NEW obj \in Draft
  PROVE  \/ create(objs, k, obj).objects = objs
         \/ /\ objs[k] = None
            /\ \E new \in Object : create(objs, k, obj).objects = [objs EXCEPT ![k] = new]
<1>1. CASE objs[k] # None
  BY Zenon, <1>1 DEF create, Same
<1>2. CASE objs[k] = None
  <2>1. 1 \in Nat \ {0} /\ "Running" \in Phase
    BY DEF Phase
  <2>2. [obj EXCEPT !.version = 1, !.phase = "Running"] \in Object
    BY <2>1, NewObjectType, Zenon
  <2>3. create(objs, k, obj).objects =
          [objs EXCEPT ![k] = [obj EXCEPT !.version = 1, !.phase = "Running"]]
    BY Zenon, <1>2 DEF create
  <2> QED BY Zenon, <1>2, <2>2, <2>3
<1> QED BY Zenon, <1>1, <1>2

-----------------------------------------------------------------------------
(***************************************************************************)
(* The owner cascade.                                                      *)
(***************************************************************************)

Held(k) == objects[k] # None /\ Finalizer \in objects[k].finalizers

(* What makes EffectHeld inductive: between placing the finalizer and      *)
(* applying, the object is held; between reverting and releasing, nothing  *)
(* is in force.                                                            *)
IInv ==
  /\ TypeOK
  /\ EffectHeld
  /\ cpc = "Apply" => Held(ckey)
  /\ cpc = "Release" => applied[ckey] = None

(* Whatever a call does, it does not take an object from the consumer.     *)
KeepsHeld(after) ==
  \A k \in Keys : Held(k) => after[k] # None /\ Finalizer \in after[k].finalizers

(* A mutation that leaves the finalizer where it was keeps what is held.   *)
LEMMA MutationHolds ==
  ASSUME TypeOK, NEW k \in Keys, NEW after, NEW fins,
         Mutation(objects, k, after, fins),
         Held(k) => Finalizer \in fins
  PROVE  KeepsHeld(after)
<1>1. PICK new \in Object : /\ new.finalizers = fins
                            /\ after = [objects EXCEPT ![k] = new]
  BY Zenon DEF Mutation
<1> QED BY Zenon, <1>1, NoneIsNotAnObject DEF KeepsHeld, Held, TypeOK, Option

(* The producer's four calls keep what is held.                            *)
LEMMA ProducerCallsHold ==
  ASSUME TypeOK, NEW k \in Keys
  PROVE  /\ \A d \in Draft : /\ create(objects, k, d).objects \in ObjectMap
                             /\ KeepsHeld(create(objects, k, d).objects)
         /\ \A v \in Nat, s \in Specs :
              /\ update(objects, k, v, s).objects \in ObjectMap
              /\ KeepsHeld(update(objects, k, v, s).objects)
         /\ teardown(objects, k).objects \in ObjectMap
         /\ KeepsHeld(teardown(objects, k).objects)
         /\ \A v \in Nat : /\ destroy(objects, k, v).objects \in ObjectMap
                           /\ KeepsHeld(destroy(objects, k, v).objects)
<1>1. objects \in ObjectMap
  BY Zenon DEF TypeOK, Option, ObjectMap
<1>2. KeepsHeld(objects)
  BY Zenon DEF KeepsHeld, Held
<1>3. ASSUME NEW d \in Draft
      PROVE  /\ create(objects, k, d).objects \in ObjectMap
             /\ KeepsHeld(create(objects, k, d).objects)
  <2> DEFINE after == create(objects, k, d).objects
  <2>1. \/ after = objects
        \/ objects[k] = None /\ \E new \in Object : after = [objects EXCEPT ![k] = new]
    BY <1>1, CreateShape
  <2> HIDE DEF after
  <2>2. after \in ObjectMap /\ KeepsHeld(after)
    BY Zenon, <1>1, <1>2, <2>1 DEF KeepsHeld, Held, ObjectMap
  <2> QED BY Zenon, <2>2 DEF after
<1>4. ASSUME objects[k] # None, NEW v \in Nat, NEW s \in Specs
      PROVE  /\ update(objects, k, v, s).objects \in ObjectMap
             /\ KeepsHeld(update(objects, k, v, s).objects)
  <2> DEFINE after == update(objects, k, v, s).objects
  <2>1. after = objects \/ Mutation(objects, k, after, objects[k].finalizers)
    BY Zenon, <1>1, UpdateShape
  <2> HIDE DEF after
  <2>2. after \in ObjectMap
    BY Zenon, <1>1, <2>1, MutationType
  <2>3. KeepsHeld(after)
    BY Zenon, <1>2, <2>1, MutationHolds DEF Held
  <2> QED BY Zenon, <2>2, <2>3 DEF after
<1>5. ASSUME objects[k] # None
      PROVE  /\ teardown(objects, k).objects \in ObjectMap
             /\ KeepsHeld(teardown(objects, k).objects)
  <2> DEFINE after == teardown(objects, k).objects
  <2>1. after = objects \/ Mutation(objects, k, after, objects[k].finalizers)
    BY Zenon, <1>1, TeardownShape
  <2> HIDE DEF after
  <2>2. after \in ObjectMap
    BY Zenon, <1>1, <2>1, MutationType
  <2>3. KeepsHeld(after)
    BY Zenon, <1>2, <2>1, MutationHolds DEF Held
  <2> QED BY Zenon, <2>2, <2>3 DEF after
<1>6. ASSUME objects[k] # None, NEW v \in Nat
      PROVE  /\ destroy(objects, k, v).objects \in ObjectMap
             /\ KeepsHeld(destroy(objects, k, v).objects)
  <2>1. \/ destroy(objects, k, v).objects = objects
        \/ /\ objects[k].finalizers = {}
           /\ destroy(objects, k, v).objects = [objects EXCEPT ![k] = None]
    BY Zenon, <1>1, DestroyShape
  <2> QED BY Zenon, <1>1, <1>2, <2>1 DEF KeepsHeld, Held, ObjectMap
<1>7. CASE objects[k] = None
  BY Zenon, <1>1, <1>2, <1>3, <1>7 DEF update, teardown, destroy, Same
<1> QED BY Zenon, <1>3, <1>4, <1>5, <1>6, <1>7

-----------------------------------------------------------------------------

(* The initial objects carry no finalizer and nothing is in force.         *)
LEMMA InitInv == Init => IInv
<1> SUFFICES ASSUME Init PROVE IInv
  BY Zenon
<1>1. ASSUME NEW o \in {Other, None}, NEW s \in Specs
      PROVE  [version |-> 1, owner |-> o, finalizers |-> {},
              phase |-> "Running", spec |-> s] \in Object
  <2>1. 1 \in Nat \ {0} /\ "Running" \in Phase /\ o \in Owners \cup {None}
    BY CascadeAssumption DEF Phase
  <2> QED BY Zenon, <2>1 DEF Object
<1>2. objects \in [Keys -> Option(Object)]
  BY <1>1 DEF Init, Option
<1>3. TypeOK
  BY <1>2, CascadeAssumption DEF Init, TypeOK, Option
<1> QED BY Zenon, <1>3 DEF Init, IInv, EffectHeld

(* A step of the producer: what is held stays held, and the consumer's     *)
(* state and the real world do not change.                                 *)
LEMMA ProducerFrame ==
  ASSUME IInv, TypeOK', KeepsHeld(objects'), UNCHANGED <<applied, consumer>>
  PROVE  IInv'
<1>1. UNCHANGED <<cpc, cin, ctodo, ckey>>
  BY Zenon DEF consumer
<1>2. EffectHeld'
  BY Zenon DEF IInv, EffectHeld, KeepsHeld, Held
<1>3. cpc = "Apply" => ckey \in Keys
  BY Zenon DEF IInv, TypeOK
<1> QED BY Zenon, <1>1, <1>2, <1>3 DEF IInv, KeepsHeld, Held

(* The producer's steps keep the invariant: what it writes leaves          *)
(* finalizers alone, and it destroys only what none is on.                 *)
LEMMA ProducerInv ==
  ASSUME IInv, ProducerStep
  PROVE  IInv'
<1> USE DEF ProducerGoes, consumer, counters, Option
<1>0. TypeOK /\ KeepsHeld(objects) /\ objects \in ObjectMap
  BY Zenon DEF IInv, TypeOK, KeepsHeld, Held, ObjectMap
<1>1. CASE ProducerStart
  <2>1. TypeOK'
    BY Zenon, <1>0, <1>1 DEF ProducerStart, TypeOK
  <2> QED BY Zenon, <1>0, <1>1, <2>1, ProducerFrame DEF ProducerStart
<1>2. ASSUME NEW k \in Keys, UpsertGet(k)
      PROVE  IInv'
  <2>1. TypeOK'
    BY <1>0, <1>2 DEF UpsertGet, NoCall, TypeOK
  <2> QED BY Zenon, <1>0, <1>2, <2>1, ProducerFrame DEF UpsertGet, NoCall
<1>3. CASE UpsertWrite
  <2> DEFINE d == [version |-> 0, owner |-> Producer, finalizers |-> {},
                   phase |-> "Running", spec |-> pwant[pkey]]
  <2>1. ppc = "Write" /\ pkey \in ptodo /\ pkey \in Keys /\ pwant[pkey] \in Specs
    BY Zenon, <1>0, <1>3 DEF UpsertWrite, TypeOK
  <2>2. d \in Draft
    BY Zenon, <2>1, CascadeAssumption DEF Draft, Phase
  <2> HIDE DEF d
  <2>3. pread # None => pread.version \in Nat
    BY Zenon, <1>0 DEF TypeOK, Object
  <2>4. \/ objects' = create(objects, pkey, d).objects
        \/ pread # None /\ objects' = update(objects, pkey, pread.version, pwant[pkey]).objects
    BY Zenon, <1>3 DEF UpsertWrite, Call, d
  <2>5. objects' \in ObjectMap /\ KeepsHeld(objects')
    BY Zenon, <1>0, <2>1, <2>2, <2>3, <2>4, ProducerCallsHold
  <2>6. /\ pwake' \in BOOLEAN /\ cwake' \in BOOLEAN
        /\ \/ ppc' = "Upsert" /\ ptodo' = ptodo \ {pkey}
           \/ ppc' = "Idle" /\ ptodo' = {}
        /\ pkey' = None /\ pread' = None
        /\ UNCHANGED <<pwant, desired, applied, consumer, counters>>
    BY Zenon, <1>3 DEF UpsertWrite, Call
  <2>7. TypeOK'
    BY Zenon, <1>0, <2>1, <2>5, <2>6 DEF TypeOK, ObjectMap
  <2> QED BY Zenon, <2>5, <2>6, <2>7, ProducerFrame
<1>4. CASE GcList \/ ProducerEnd
  <2>1. TypeOK'
    BY <1>0, <1>4 DEF GcList, ProducerEnd, NoCall, TypeOK
  <2> QED BY Zenon, <1>0, <1>4, <2>1, ProducerFrame DEF GcList, ProducerEnd, NoCall
<1>5. ASSUME NEW k \in Keys, GcTeardown(k)
      PROVE  IInv'
  <2>1. /\ objects' = teardown(objects, k).objects
        /\ pwake' \in BOOLEAN /\ cwake' \in BOOLEAN
        /\ ppc = "Gc" /\ k \in ptodo
        /\ \/ ppc' = "Get" /\ ptodo' = ptodo /\ pkey' = k
           \/ ppc' = "Gc" /\ ptodo' = ptodo \ {k} /\ pkey' = None
           \/ ppc' = "Idle" /\ ptodo' = {} /\ pkey' = None
        /\ pread' = None
        /\ UNCHANGED <<pwant, desired, applied, consumer, counters>>
    BY Zenon, <1>5 DEF GcTeardown, Call
  <2>2. objects' \in ObjectMap /\ KeepsHeld(objects')
    BY Zenon, <1>0, <2>1, ProducerCallsHold
  <2>3. TypeOK'
    BY Zenon, <1>0, <2>1, <2>2 DEF TypeOK, ObjectMap
  <2> QED BY Zenon, <2>1, <2>2, <2>3, ProducerFrame
<1>6. CASE GcGet
  <2>1. pkey \in ptodo /\ pkey \in Keys
    BY Zenon, <1>0, <1>6 DEF GcGet, TypeOK
  <2>2. TypeOK'
    BY <1>0, <1>6, <2>1 DEF GcGet, NoCall, TypeOK
  <2> QED BY Zenon, <1>0, <1>6, <2>2, ProducerFrame DEF GcGet, NoCall
<1>7. CASE GcDestroy
  <2>1. pkey \in Keys /\ pread.version \in Nat
    BY Zenon, <1>0, <1>7 DEF GcDestroy, TypeOK, Object
  <2>2. /\ objects' = destroy(objects, pkey, pread.version).objects
        /\ pwake' \in BOOLEAN /\ cwake' \in BOOLEAN
        /\ \/ ppc' = "Gc" /\ ptodo' = ptodo \ {pkey}
           \/ ppc' = "Idle" /\ ptodo' = {}
        /\ pkey' = None /\ pread' = None
        /\ UNCHANGED <<pwant, desired, applied, consumer, counters>>
    BY Zenon, <1>7 DEF GcDestroy, Call
  <2>3. objects' \in ObjectMap /\ KeepsHeld(objects')
    BY Zenon, <1>0, <2>1, <2>2, ProducerCallsHold
  <2>4. TypeOK'
    BY Zenon, <1>0, <2>2, <2>3 DEF TypeOK, ObjectMap
  <2> QED BY Zenon, <2>2, <2>3, <2>4, ProducerFrame
<1> QED BY Zenon, <1>1, <1>2, <1>3, <1>4, <1>5, <1>6, <1>7 DEF ProducerStep

(* The consumer applies only after its finalizer is on the stored object.  *)
LEMMA AddFinalizerInv ==
  ASSUME IInv, NEW k \in Keys, AddFinalizer(k)
  PROVE  IInv'
<1> DEFINE r == add_finalizer(objects, k, Finalizer)
<1>1. TypeOK /\ objects \in ObjectMap
  BY Zenon DEF IInv, TypeOK, ObjectMap, Option
<1>2. /\ k \in ctodo /\ objects' = r.objects
      /\ pwake' \in BOOLEAN /\ cwake' \in BOOLEAN
      /\ \/ r.code = "Ok" /\ cpc' = "Apply" /\ ctodo' = ctodo /\ ckey' = k
         \/ cpc' = "Idle" /\ ctodo' = {} /\ ckey' = None
      /\ UNCHANGED <<desired, applied, cin, ppc, pwant, ptodo, pkey, pread,
                     changes, faults, patient>>
  BY Zenon DEF AddFinalizer, Call, ConsumerGoes, producer
<1>3. \/ r.objects = objects /\ (r.code = "Ok" => Held(k))
      \/ Mutation(objects, k, r.objects, objects[k].finalizers \cup {Finalizer})
  BY Zenon, <1>1, AddFinalizerShape, CascadeAssumption DEF Held
<1> HIDE DEF r
<1>4. r.objects \in ObjectMap
  BY Zenon, <1>1, <1>3, MutationType
<1>5. KeepsHeld(objects') /\ (r.code = "Ok" => Held(k)')
  <2>1. CASE r.objects = objects /\ (r.code = "Ok" => Held(k))
    BY Zenon, <1>2, <2>1 DEF KeepsHeld, Held
  <2>2. CASE Mutation(objects, k, r.objects,
                      objects[k].finalizers \cup {Finalizer})
    <3>1. KeepsHeld(objects')
      BY Zenon, <1>1, <1>2, <2>2, MutationHolds
    <3>2. PICK new \in Object :
            /\ new.finalizers = objects[k].finalizers \cup {Finalizer}
            /\ r.objects = [objects EXCEPT ![k] = new]
      BY Zenon, <2>2 DEF Mutation
    <3>3. objects'[k] = new
      BY Zenon, <1>1, <1>2, <3>2 DEF ObjectMap
    <3> QED BY Zenon, <3>1, <3>2, <3>3, NoneIsNotAnObject DEF Held
  <2> QED BY Zenon, <1>3, <2>1, <2>2
<1>6. TypeOK'
  BY <1>1, <1>2, <1>4 DEF TypeOK, ObjectMap, Option
<1>7. EffectHeld'
  BY Zenon, <1>2, <1>5 DEF IInv, EffectHeld, KeepsHeld, Held
<1> QED BY Zenon, <1>2, <1>5, <1>6, <1>7 DEF IInv, Held

(* The name goes only from an object whose effect has been reverted.       *)
LEMMA RemoveFinalizerInv ==
  ASSUME IInv, RemoveFinalizer
  PROVE  IInv'
<1> DEFINE r == remove_finalizer(objects, ckey, Finalizer)
<1>1. /\ TypeOK /\ objects \in ObjectMap
      /\ ckey \in Keys /\ applied[ckey] = None
  BY Zenon DEF IInv, TypeOK, ObjectMap, Option, RemoveFinalizer
<1>2. /\ objects' = r.objects
      /\ pwake' \in BOOLEAN /\ cwake' \in BOOLEAN
      /\ \/ cpc' = "Each" /\ ctodo' = ctodo \ {ckey} /\ ckey' = None
         \/ cpc' = "Idle" /\ ctodo' = {} /\ ckey' = None
      /\ UNCHANGED <<desired, applied, cin, ppc, pwant, ptodo, pkey, pread,
                     changes, faults, patient>>
  BY Zenon DEF RemoveFinalizer, Call, ConsumerGoes, producer
<1>3. /\ r.objects \in ObjectMap
      /\ \A j \in Keys : j # ckey => r.objects[j] = objects[j]
  <2>1. r.objects = objects \/ Mutation(objects, ckey, r.objects, objects[ckey].finalizers \ {Finalizer})
    BY Zenon, <1>1, RemoveFinalizerShape, CascadeAssumption
  <2> HIDE DEF r
  <2>2. r.objects \in ObjectMap
    BY Zenon, <1>1, <2>1, MutationType
  <2>3. \A j \in Keys : j # ckey => r.objects[j] = objects[j]
    BY Zenon, <1>1, <2>1 DEF Mutation, ObjectMap
  <2> QED BY Zenon, <2>2, <2>3
<1> HIDE DEF r
<1>4. TypeOK'
  BY Zenon, <1>1, <1>2, <1>3 DEF TypeOK, ObjectMap, Option
<1>5. EffectHeld'
  BY Zenon, <1>1, <1>2, <1>3 DEF IInv, EffectHeld
<1> QED BY Zenon, <1>2, <1>4, <1>5 DEF IInv

(* The consumer's steps that make no call to the store.                    *)
LEMMA ConsumerInv ==
  ASSUME IInv,
         \/ ConsumerStart \/ Apply \/ ApplyFails \/ ConsumerEnd
         \/ \E k \in Keys : Revert(k) \/ RevertFails(k)
  PROVE  IInv'
<1> USE DEF ConsumerGoes, NoCall, producer, Option
<1>0. TypeOK
  BY Zenon DEF IInv
<1>1. CASE ConsumerStart
  <2>1. TypeOK'
    BY Zenon, <1>0, <1>1 DEF ConsumerStart, TypeOK
  <2> QED BY Zenon, <1>1, <2>1 DEF ConsumerStart, IInv, EffectHeld
<1>2. CASE Apply \/ ApplyFails
  <2>1. /\ ckey \in Keys /\ ckey \in ctodo /\ Held(ckey)
        /\ cin[ckey].spec \in Specs
    BY Zenon, <1>0, <1>2 DEF Apply, ApplyFails, IInv, TypeOK, Object
  <2>2. /\ UNCHANGED <<objects, pwake, cwake, desired, ppc, pwant, ptodo, pkey,
                       pread, cin, changes, patient>>
        /\ faults' \in Nat
        /\ applied' = applied \/ applied' = [applied EXCEPT ![ckey] = cin[ckey].spec]
        /\ cpc' \in {"Idle", "Each"} /\ ctodo' \subseteq ctodo /\ ckey' = None
    BY <1>0, <1>2 DEF Apply, ApplyFails, TypeOK
  <2>3. TypeOK'
    BY <1>0, <2>1, <2>2 DEF TypeOK
  <2>4. EffectHeld'
    BY Zenon, <1>0, <2>1, <2>2 DEF IInv, TypeOK, EffectHeld, Held
  <2> QED BY Zenon, <2>2, <2>3, <2>4 DEF IInv
<1>3. ASSUME NEW k \in Keys, Revert(k) \/ RevertFails(k)
      PROVE  IInv'
  <2>1. /\ UNCHANGED <<objects, pwake, cwake, desired, ppc, pwant, ptodo, pkey,
                       pread, cin, changes, patient>>
        /\ faults' \in Nat /\ k \in ctodo
        /\ \/ /\ cpc' = "Release" /\ ctodo' = ctodo /\ ckey' = k
              /\ applied' = [applied EXCEPT ![k] = None]
           \/ /\ cpc' = "Idle" /\ ctodo' = {} /\ ckey' = None
              /\ applied' \in {applied, [applied EXCEPT ![k] = None]}
    BY <1>0, <1>3 DEF Revert, RevertFails, TypeOK
  <2>2. TypeOK'
    BY <1>0, <2>1 DEF TypeOK
  <2>3. EffectHeld'
    BY Zenon, <1>0, <2>1 DEF IInv, TypeOK, EffectHeld
  <2>4. cpc' = "Release" => applied'[ckey'] = None
    BY <1>0, <2>1 DEF TypeOK
  <2> QED BY Zenon, <2>1, <2>2, <2>3, <2>4 DEF IInv
<1>4. CASE ConsumerEnd
  <2>1. TypeOK'
    BY <1>0, <1>4 DEF ConsumerEnd, TypeOK
  <2> QED BY Zenon, <1>4, <2>1 DEF ConsumerEnd, IInv, EffectHeld
<1> QED BY Zenon, <1>1, <1>2, <1>3, <1>4

(* The world's steps touch neither the store nor what is in force.         *)
LEMMA WorldInv ==
  ASSUME IInv,
         \/ Nudge \/ UNCHANGED vars
         \/ \E k \in Keys, want \in Option(Specs) : ChangeDesired(k, want)
  PROVE  IInv'
<1>1. /\ UNCHANGED <<objects, applied, producer, consumer>>
      /\ desired' \in [Keys -> Option(Specs)]
      /\ pwake' \in BOOLEAN /\ cwake' \in BOOLEAN
      /\ changes' \in Nat /\ faults' \in Nat /\ patient' \in BOOLEAN
  <2>0. TypeOK
    BY Zenon DEF IInv
  <2>1. CASE Nudge
    BY Zenon, <2>0, <2>1 DEF Nudge, counters, TypeOK
  <2>2. CASE UNCHANGED vars
    BY Zenon, <2>0, <2>2 DEF vars, counters, TypeOK
  <2>3. ASSUME NEW k \in Keys, NEW want \in Option(Specs),
               ChangeDesired(k, want)
        PROVE  /\ UNCHANGED <<objects, applied, producer, consumer>>
               /\ desired' \in [Keys -> Option(Specs)]
               /\ pwake' \in BOOLEAN /\ cwake' \in BOOLEAN
               /\ changes' \in Nat /\ faults' \in Nat /\ patient' \in BOOLEAN
    BY <2>0, <2>3 DEF ChangeDesired, TypeOK
  <2> QED BY Zenon, <2>1, <2>2, <2>3
<1>2. TypeOK'
  BY Zenon, <1>1 DEF IInv, TypeOK, producer, consumer
<1> QED BY Zenon, <1>1, <1>2 DEF IInv, EffectHeld, Held, consumer

(* Every step keeps the invariant.                                         *)
LEMMA NextInv == IInv /\ [Next]_vars => IInv'
<1> SUFFICES ASSUME IInv, [Next]_vars PROVE IInv'
  BY Zenon
<1> QED BY Zenon, ProducerInv, AddFinalizerInv, RemoveFinalizerInv, ConsumerInv,
           WorldInv DEF Next, ConsumerStep

(* Nothing that is in force in the real world is ever without a stored     *)
(* object that carries the consumer's finalizer (owned.rs,                 *)
(* reconcile_finalized against reconcile_owned).                           *)
THEOREM NoOrphanedEffect == Spec => []EffectHeld
<1>1. IInv => EffectHeld
  BY Zenon DEF IInv
<1> QED BY InitInv, NextInv, <1>1, PTL DEF Spec

-----------------------------------------------------------------------------
(* What the producer collects is its own.  Nobody but the producer creates *)
(* and no call changes an owner, so what it listed as its own stays its    *)
(* own, or goes, while it works through the list.                          *)

Collects(pc) == pc \in {"Gc", "Get", "Destroy"}

GcInv ==
  Collects(ppc) => \A k \in ptodo : objects[k] = None \/ objects[k].owner = Producer

ForeignKept ==
  \A k \in Keys : Foreign(objects[k]) =>
    /\ objects'[k] # None
    /\ objects'[k].owner = objects[k].owner
    /\ objects'[k].phase = objects[k].phase

(* The object at j is there or not as before, under its owner and in its   *)
(* phase.                                                                  *)
Stands(objs, after, j) ==
  /\ after[j] = None <=> objs[j] = None
  /\ objs[j] # None => /\ after[j].owner = objs[j].owner
                       /\ after[j].phase = objs[j].phase

LEMMA BumpStands ==
  ASSUME NEW objs \in ObjectMap, NEW k \in Keys, NEW obj \in Object, objs[k] # None,
         obj.owner = objs[k].owner, obj.phase = objs[k].phase
  PROVE  \A j \in Keys : Stands(objs, Bump(objs, k, "Ok", obj).objects, j)
<1> DEFINE v   == objs[k].version + 1
           new == [obj EXCEPT !.version = v]
<1>1. v \in Nat \ {0}
  BY DEF ObjectMap, Object
<1> HIDE DEF v
<1>2. new \in Object /\ new.owner = obj.owner /\ new.phase = obj.phase
  BY Zenon, <1>1 DEF Object
<1> HIDE DEF new
<1>3. Bump(objs, k, "Ok", obj).objects = [objs EXCEPT ![k] = new]
  BY Zenon DEF Bump, new, v
<1> QED BY Zenon, <1>2, <1>3, NoneIsNotAnObject DEF Stands, ObjectMap

(* update and the calls on finalizers leave owners and phases alone.       *)
LEMMA CallsStand ==
  ASSUME NEW objs \in ObjectMap, NEW k \in Keys, NEW f \in Finalizers,
         NEW j \in Keys
  PROVE  /\ \A v \in Nat, s \in Specs : Stands(objs, update(objs, k, v, s).objects, j)
         /\ Stands(objs, add_finalizer(objs, k, f).objects, j)
         /\ Stands(objs, remove_finalizer(objs, k, f).objects, j)
<1>0. Stands(objs, objs, j)
  BY Zenon DEF Stands
<1>1. CASE objs[k] = None
  BY Zenon, <1>0, <1>1 DEF update, add_finalizer, remove_finalizer, Same
<1>2. CASE objs[k] # None
  <2>1. objs[k] \in Object
    BY Zenon, <1>2 DEF ObjectMap
  <2>2. ASSUME NEW v \in Nat, NEW s \in Specs
        PROVE  Stands(objs, update(objs, k, v, s).objects, j)
    <3> DEFINE obj == [objs[k] EXCEPT !.spec = s]
    <3>1. obj \in Object /\ obj.owner = objs[k].owner /\ obj.phase = objs[k].phase
      BY Zenon, <2>1 DEF Object
    <3>2. \/ update(objs, k, v, s).objects = objs
          \/ update(objs, k, v, s) = Bump(objs, k, "Ok", obj)
      BY Zenon, <1>2 DEF update, Same
    <3> HIDE DEF obj
    <3> QED BY Zenon, <1>0, <1>2, <3>1, <3>2, BumpStands
  <2>3. Stands(objs, add_finalizer(objs, k, f).objects, j)
    <3> DEFINE obj == [objs[k] EXCEPT !.finalizers = @ \cup {f}]
    <3>1. obj \in Object /\ obj.owner = objs[k].owner /\ obj.phase = objs[k].phase
      BY Zenon, <2>1 DEF Object
    <3>2. \/ add_finalizer(objs, k, f).objects = objs
          \/ add_finalizer(objs, k, f) = Bump(objs, k, "Ok", obj)
      BY Zenon, <1>2 DEF add_finalizer, Same
    <3> HIDE DEF obj
    <3> QED BY Zenon, <1>0, <1>2, <3>1, <3>2, BumpStands
  <2>4. Stands(objs, remove_finalizer(objs, k, f).objects, j)
    <3> DEFINE obj == [objs[k] EXCEPT !.finalizers = @ \ {f}]
    <3>1. obj \in Object /\ obj.owner = objs[k].owner /\ obj.phase = objs[k].phase
      BY Zenon, <2>1 DEF Object
    <3>2. \/ remove_finalizer(objs, k, f).objects = objs
          \/ remove_finalizer(objs, k, f) = Bump(objs, k, "Ok", obj)
      BY Zenon, <1>2 DEF remove_finalizer, Same
    <3> HIDE DEF obj
    <3> QED BY Zenon, <1>0, <1>2, <3>1, <3>2, BumpStands
  <2> QED BY Zenon, <2>2, <2>3, <2>4
<1> QED BY Zenon, <1>1, <1>2

(* A step that leaves owners and phases alone, and the list too.           *)
LEMMA StandingKeeps ==
  ASSUME TypeOK, GcInv, \A j \in Keys : Stands(objects, objects', j),
         Collects(ppc') => Collects(ppc) /\ ptodo' \subseteq ptodo
  PROVE  GcInv' /\ ForeignKept
<1>1. ptodo \subseteq Keys
  BY Zenon DEF TypeOK
<1>2. GcInv'
  BY Zenon, <1>1 DEF GcInv, Stands
<1>3. ForeignKept
  BY Zenon DEF ForeignKept, Foreign, Stands
<1> QED BY Zenon, <1>2, <1>3

(* A step that only touches an object on the list the producer collects,   *)
(* and leaves its owner or removes it.                                     *)
LEMMA CollectingKeeps ==
  ASSUME TypeOK, GcInv, Collects(ppc), NEW k \in ptodo,
         \A j \in Keys : j # k => objects'[j] = objects[j],
         objects'[k] = None \/ objects'[k].owner = Producer,
         ptodo' \subseteq ptodo
  PROVE  GcInv' /\ ForeignKept
<1>1. ptodo \subseteq Keys
  BY Zenon DEF TypeOK
<1>2. GcInv'
  BY Zenon, <1>1 DEF GcInv
<1>3. ~Foreign(objects[k])
  BY Zenon DEF GcInv, Foreign
<1> QED BY Zenon, <1>1, <1>2, <1>3 DEF ForeignKept, Foreign

(* The producer's steps.                                                   *)
LEMMA ProducerCollects ==
  ASSUME TypeOK, GcInv, ProducerStep
  PROVE  GcInv' /\ ForeignKept
<1> USE DEF ProducerGoes, Option
<1>0. /\ objects \in ObjectMap /\ ptodo \subseteq Keys
      /\ \A j \in Keys : Stands(objects, objects, j)
  BY Zenon DEF TypeOK, ObjectMap, Stands
<1>1. CASE ProducerStart \/ ProducerEnd \/ \E k \in Keys : UpsertGet(k)
  <2>1. objects' = objects /\ ppc' \in {"Idle", "Upsert", "Write"}
    BY Zenon, <1>1 DEF ProducerStart, ProducerEnd, UpsertGet, NoCall
  <2>2. ~Collects(ppc')
    BY <2>1 DEF Collects
  <2> QED BY Zenon, <1>0, <2>1, <2>2, StandingKeeps
<1>2. CASE UpsertWrite
  <2>1. pkey \in Keys /\ pwant[pkey] \in Specs /\ ppc' \in {"Idle", "Upsert"}
    BY Zenon, <1>2 DEF UpsertWrite, TypeOK
  <2>2. ~Collects(ppc')
    BY <2>1 DEF Collects
  <2>3. CASE pread # None
    <3>1. pread.version \in Nat
      BY Zenon, <2>3 DEF TypeOK, Object
    <3>2. objects' = update(objects, pkey, pread.version, pwant[pkey]).objects
      BY Zenon, <1>2, <2>3 DEF UpsertWrite, Call
    <3>3. \A j \in Keys : Stands(objects, objects', j)
      BY Zenon, <1>0, <2>1, <3>1, <3>2, CallsStand, CascadeAssumption
    <3> QED BY Zenon, <2>2, <3>3, StandingKeeps
  <2>4. CASE pread = None
    <3> DEFINE d == [version |-> 0, owner |-> Producer, finalizers |-> {},
                     phase |-> "Running", spec |-> pwant[pkey]]
    <3>1. objects' = create(objects, pkey, d).objects
      BY Zenon, <1>2, <2>4 DEF UpsertWrite, Call
    <3> HIDE DEF d
    <3>2. \A j \in Keys : objects[j] # None => objects'[j] = objects[j]
      BY Zenon, <1>0, <2>1, <3>1 DEF create, Same, ObjectMap
    <3> QED BY Zenon, <2>2, <3>2 DEF GcInv, ForeignKept, Foreign
  <2> QED BY Zenon, <2>3, <2>4
<1>3. CASE GcList
  <2>1. objects' = objects /\ ptodo' = {k \in Keys : Garbage(k)}
    BY Zenon, <1>3 DEF GcList, NoCall
  <2>2. GcInv'
    BY Zenon, <2>1 DEF GcInv, Garbage
  <2> QED BY Zenon, <2>1, <2>2 DEF ForeignKept, Foreign
<1>4. CASE GcGet
  <2>1. objects' = objects /\ ptodo' \subseteq ptodo /\ Collects(ppc)
    BY Zenon, <1>4 DEF GcGet, NoCall, Collects
  <2> QED BY Zenon, <1>0, <2>1, StandingKeeps
<1>5. ASSUME NEW k \in Keys, GcTeardown(k)
      PROVE  GcInv' /\ ForeignKept
  <2>1. /\ objects' = teardown(objects, k).objects /\ Collects(ppc) /\ k \in ptodo
        /\ ptodo' \subseteq ptodo
    BY Zenon, <1>5 DEF GcTeardown, Call, Collects
  <2>2. objects' = objects \/ Mutation(objects, k, objects', objects[k].finalizers)
    BY Zenon, <1>0, <2>1, TeardownShape
  <2>3. objects[k] = None \/ objects[k].owner = Producer
    BY Zenon, <2>1 DEF GcInv
  <2>4. /\ \A j \in Keys : j # k => objects'[j] = objects[j]
        /\ objects'[k] = None \/ objects'[k].owner = Producer
    BY Zenon, <1>0, <2>2, <2>3 DEF Mutation, Mutated, ObjectMap
  <2> QED BY Zenon, <2>1, <2>4, CollectingKeeps
<1>6. CASE GcDestroy
  <2>1. /\ objects' = destroy(objects, pkey, pread.version).objects /\ Collects(ppc)
        /\ pkey \in ptodo /\ ptodo' \subseteq ptodo /\ pread.version \in Nat
    BY Zenon, <1>6 DEF GcDestroy, Call, Collects, TypeOK, Object
  <2>2. objects' = objects \/ objects' = [objects EXCEPT ![pkey] = None]
    BY Zenon, <1>0, <2>1, DestroyShape
  <2>3. objects[pkey] = None \/ objects[pkey].owner = Producer
    BY Zenon, <2>1 DEF GcInv
  <2>4. /\ \A j \in Keys : j # pkey => objects'[j] = objects[j]
        /\ objects'[pkey] = None \/ objects'[pkey].owner = Producer
    BY Zenon, <1>0, <2>1, <2>2, <2>3 DEF ObjectMap
  <2> QED BY Zenon, <2>1, <2>4, CollectingKeeps
<1> QED BY Zenon, <1>1, <1>2, <1>3, <1>4, <1>5, <1>6 DEF ProducerStep

(* All other steps leave owners, phases and the producer alone.            *)
LEMMA OthersCollectNothing ==
  ASSUME TypeOK, GcInv, [Next]_vars, ~ProducerStep
  PROVE  GcInv' /\ ForeignKept
<1> USE DEF ConsumerGoes, producer
<1>0. objects \in ObjectMap /\ \A j \in Keys : Stands(objects, objects, j)
  BY Zenon DEF TypeOK, ObjectMap, Stands, Option
<1>1. CASE \/ ConsumerStart \/ Apply \/ ApplyFails \/ ConsumerEnd \/ Nudge
           \/ UNCHANGED vars
           \/ \E k \in Keys : Revert(k) \/ RevertFails(k)
           \/ \E k \in Keys, want \in Option(Specs) : ChangeDesired(k, want)
  <2>1. UNCHANGED <<objects, ppc, ptodo>>
    BY Zenon, <1>1 DEF ConsumerStart, Apply, ApplyFails, ConsumerEnd, Nudge, vars,
         Revert, RevertFails, ChangeDesired, NoCall
  <2> QED BY Zenon, <1>0, <2>1, StandingKeeps
<1>2. CASE RemoveFinalizer \/ \E k \in Keys : AddFinalizer(k)
  <2>1. ckey \in Keys \/ cpc # "Release"
    BY Zenon DEF TypeOK
  <2>2. /\ UNCHANGED <<ppc, ptodo>>
        /\ \E k \in Keys : \/ objects' = add_finalizer(objects, k, Finalizer).objects
                           \/ objects' = remove_finalizer(objects, k, Finalizer).objects
    BY Zenon, <1>2, <2>1 DEF RemoveFinalizer, AddFinalizer, Call
  <2>3. \A j \in Keys : Stands(objects, objects', j)
    BY Zenon, <1>0, <2>2, CallsStand, CascadeAssumption
  <2> QED BY Zenon, <2>2, <2>3, StandingKeeps
<1> QED BY Zenon, <1>1, <1>2 DEF Next, ConsumerStep

(* reconcile_owned never tears down or removes what the producer does not  *)
(* own, whatever has happened since it made its list (owned.rs, the        *)
(* garbage collection).                                                    *)
THEOREM ForeignNeverCollected == Spec => ForeignSurvives
<1>1. Init => GcInv
  <2>1. Init => ~Collects(ppc)
    BY DEF Init, Collects
  <2> QED BY Zenon, <2>1 DEF GcInv
<1>2. IInv /\ GcInv /\ [Next]_vars => GcInv' /\ ForeignKept
  BY Zenon, ProducerCollects, OthersCollectNothing DEF IInv
<1>3. ForeignKept => [ForeignKept]_vars
  BY Zenon
<1> QED BY InitInv, NextInv, <1>1, <1>2, <1>3, PTL DEF Spec, ForeignSurvives, ForeignKept

-----------------------------------------------------------------------------
(* The store with its clients.  Its operations are those above.            *)
LEMMA SameOps ==
  /\ S!Object = Object
  /\ \A objs, k, obj : S!create(objs, k, obj) = create(objs, k, obj)
  /\ \A objs, k, v, s : S!update(objs, k, v, s) = update(objs, k, v, s)
  /\ \A objs, k, f : S!add_finalizer(objs, k, f) = add_finalizer(objs, k, f)
  /\ \A objs, k, f : S!remove_finalizer(objs, k, f) = remove_finalizer(objs, k, f)
  /\ \A objs, k : S!teardown(objs, k) = teardown(objs, k)
  /\ \A objs, k, v : S!destroy(objs, k, v) = destroy(objs, k, v)
<1> USE DEF S!Same, Same, S!Bump, Bump
<1>1. S!Object = Object
  BY Zenon DEF S!Object, Object, S!Phase, Phase
<1>2. \A objs, k, obj : S!create(objs, k, obj) = create(objs, k, obj)
  BY Zenon DEF S!create, create
<1>3. \A objs, k, v, s : S!update(objs, k, v, s) = update(objs, k, v, s)
  BY DEF S!update, update
<1>4. \A objs, k, f : S!add_finalizer(objs, k, f) = add_finalizer(objs, k, f)
  BY DEF S!add_finalizer, add_finalizer
<1>5. \A objs, k, f : S!remove_finalizer(objs, k, f) = remove_finalizer(objs, k, f)
  BY DEF S!remove_finalizer, remove_finalizer
<1>6. \A objs, k : S!teardown(objs, k) = teardown(objs, k)
  BY Zenon DEF S!teardown, teardown
<1>7. \A objs, k, v : S!destroy(objs, k, v) = destroy(objs, k, v)
  BY DEF S!destroy, destroy
<1> QED BY Zenon, <1>1, <1>2, <1>3, <1>4, <1>5, <1>6, <1>7

(* What makes VersionIdentifiesContent inductive: a remembered object is   *)
(* never ahead of the stored one, neither in incarnation nor in version.   *)
SnapBehind ==
  \A c \in Clients, k \in Keys :
    s_snap[c][k] # None =>
      /\ s_snap[c][k].gen <= s_gen[k]
      /\ (s_objects[k] # None /\ s_snap[c][k].gen = s_gen[k]) =>
           /\ s_snap[c][k].obj.version <= s_objects[k].version
           /\ s_snap[c][k].obj.version = s_objects[k].version =>
                s_snap[c][k].obj = s_objects[k]

StoreInv == S!TypeOK /\ SnapBehind /\ S!HeldAlive

-----------------------------------------------------------------------------
(* Steps that act on one key and leave the memories of the clients alone.  *)

(* The only two ways in which a step changes a stored object while its     *)
(* incarnation stays: both keep every memory behind the store.             *)
LEMMA MutationKeepsBehind ==
  ASSUME S!TypeOK, SnapBehind, NEW k \in Keys, NEW fins,
         Mutation(s_objects, k, s_objects', fins), UNCHANGED <<s_gen, s_snap>>
  PROVE  s_objects' \in ObjectMap /\ SnapBehind'
<1> USE NoneIsNotAnObject
<1>1. PICK new \in Object : /\ Mutated(s_objects, k, new)
                            /\ s_objects' = [s_objects EXCEPT ![k] = new]
  BY Zenon DEF Mutation
<1>2. s_objects' \in ObjectMap
  BY Zenon, SameOps, <1>1 DEF S!TypeOK, ObjectMap
<1>3. SnapBehind'
  <2> SUFFICES ASSUME NEW c \in Clients, NEW j \in Keys, s_snap[c][j] # None
               PROVE  /\ s_snap[c][j].gen <= s_gen[j]
                      /\ (s_objects'[j] # None /\ s_snap[c][j].gen = s_gen[j]) =>
                           /\ s_snap[c][j].obj.version <= s_objects'[j].version
                           /\ s_snap[c][j].obj.version = s_objects'[j].version =>
                                s_snap[c][j].obj = s_objects'[j]
    BY Zenon DEF SnapBehind
  <2>1. CASE j # k
    BY Zenon, <1>1, <2>1 DEF SnapBehind, S!TypeOK
  <2>2. CASE j = k
    <3>1. s_objects'[j] = new /\ s_objects[j] \in Object
      BY Zenon, SameOps, <1>1, <2>2 DEF S!TypeOK, Mutated
    <3>2. s_snap[c][j] \in S!Snapshot
      BY Zenon DEF S!TypeOK
    <3>3. new.version = s_objects[j].version + 1 /\ s_objects[j].version \in Nat
          /\ s_snap[c][j].obj.version \in Nat
      BY Zenon, SameOps, <1>1, <2>2, <3>1, <3>2 DEF Mutated, Object, S!Snapshot
    <3> QED BY <2>2, <3>1, <3>3 DEF SnapBehind, Mutated
  <2> QED BY Zenon, <2>1, <2>2
<1> QED BY Zenon, <1>2, <1>3

(* Removing an object leaves every snapshot of it behind.                  *)
LEMMA RemovalKeepsBehind ==
  ASSUME S!TypeOK, SnapBehind, NEW k \in Keys,
         s_objects' = [s_objects EXCEPT ![k] = None], UNCHANGED <<s_gen, s_snap>>
  PROVE  s_objects' \in ObjectMap /\ SnapBehind'
  BY Zenon, SameOps DEF S!TypeOK, SnapBehind, ObjectMap

-----------------------------------------------------------------------------
(* The inductive invariant.                                                *)

(* The invariant holds of the empty store.                                 *)
LEMMA StoreInit == S!Init => StoreInv
  BY DEF S!Init, StoreInv, S!TypeOK, SnapBehind, S!HeldAlive

(* What a client copies is a snapshot.                                     *)
LEMMA CopyType ==
  ASSUME S!TypeOK, NEW k \in Keys
  PROVE  /\ S!Copy(k) \in S!Snapshot \cup {None}
         /\ S!Copy(k) # None => /\ s_objects[k] # None
                              /\ S!Copy(k).gen = s_gen[k]
                              /\ S!Copy(k).obj = s_objects[k]
<1>1. CASE s_objects[k] = None
  BY Zenon, <1>1 DEF S!Copy
<1>2. CASE s_objects[k] # None
  BY <1>2 DEF S!Copy, S!TypeOK, S!Snapshot
<1> QED BY Zenon, <1>1, <1>2

(* Reading: the new memory is the stored object itself.                    *)
LEMMA ReadStep ==
  ASSUME StoreInv, NEW c \in Clients, S!List(c) \/ \E k \in Keys : S!Get(c, k)
  PROVE  StoreInv'
<1>1. S!TypeOK'
  <2>1. \A k \in Keys : S!Copy(k) \in S!Snapshot \cup {None}
    BY Zenon, CopyType DEF StoreInv
  <2>2. [k \in Keys |-> S!Copy(k)] \in [Keys -> S!Snapshot \cup {None}]
    BY Zenon, <2>1
  <2>3. CASE S!List(c)
    BY Zenon, <2>2, <2>3 DEF StoreInv, S!TypeOK, S!List
  <2>4. CASE \E k \in Keys : S!Get(c, k)
    <3>1. PICK k \in Keys : S!Get(c, k)
      BY Zenon, <2>4
    <3>2. [s_snap[c] EXCEPT ![k] = S!Copy(k)] \in [Keys -> S!Snapshot \cup {None}]
      BY Zenon, <2>1 DEF StoreInv, S!TypeOK
    <3>3. s_snap' = [s_snap EXCEPT ![c] = [s_snap[c] EXCEPT ![k] = S!Copy(k)]]
      BY Zenon, <3>1 DEF S!Get
    <3> QED BY <3>1, <3>2, <3>3 DEF StoreInv, S!TypeOK, S!Get
  <2> QED BY Zenon, <2>3, <2>4
<1>2. SnapBehind'
  <2> SUFFICES ASSUME NEW d \in Clients, NEW j \in Keys, s_snap'[d][j] # None
               PROVE  /\ s_snap'[d][j].gen <= s_gen[j]
                      /\ (s_objects[j] # None /\ s_snap'[d][j].gen = s_gen[j]) =>
                           /\ s_snap'[d][j].obj.version <= s_objects[j].version
                           /\ s_snap'[d][j].obj.version = s_objects[j].version =>
                                s_snap'[d][j].obj = s_objects[j]
    BY DEF SnapBehind, S!List, S!Get
  <2>1. s_snap'[d][j] = s_snap[d][j] \/ s_snap'[d][j] = S!Copy(j)
    BY DEF StoreInv, S!TypeOK, S!List, S!Get
  <2>2. CASE s_snap'[d][j] = s_snap[d][j]
    BY Zenon, <2>2 DEF StoreInv, SnapBehind
  <2>3. CASE s_snap'[d][j] = S!Copy(j)
    <3>1. /\ s_objects[j] \in Object
          /\ s_snap'[d][j].gen = s_gen[j] /\ s_snap'[d][j].obj = s_objects[j]
      BY Zenon, SameOps, <2>3, CopyType DEF StoreInv, S!TypeOK
    <3>2. s_objects[j].version \in Nat /\ s_gen[j] \in Nat
      BY Zenon, <3>1 DEF StoreInv, S!TypeOK, Object
    <3> QED BY <3>1, <3>2
  <2> QED BY Zenon, <2>1, <2>2, <2>3
<1>3. S!HeldAlive'
  BY DEF StoreInv, S!HeldAlive, S!List, S!Get
<1> QED BY Zenon, <1>1, <1>2, <1>3 DEF StoreInv

(* A key is created only when it is free, so nobody holds it, and its      *)
(* incarnation leaves all memories of it behind.                           *)
LEMMA CreateStep ==
  ASSUME StoreInv, NEW c \in Clients, NEW k \in Keys,
         NEW o \in Owners \cup {None}, NEW f \in SUBSET Finalizers,
         NEW s \in Specs, S!Create(c, k, o, f, s)
  PROVE  StoreInv'
<1> DEFINE obj == [version |-> 0, owner |-> o, finalizers |-> f,
                   phase |-> "Running", spec |-> s]
           new == [obj EXCEPT !.version = 1, !.phase = "Running"]
<1>1. CASE s_objects[k] # None
  <2>1. UNCHANGED S!vars
    BY Zenon, SameOps, <1>1 DEF S!Create, create, Same, S!vars
  <2> QED BY Zenon, <2>1 DEF StoreInv, S!TypeOK, SnapBehind, S!HeldAlive, S!vars
<1>2. CASE s_objects[k] = None
  <2>1. obj \in Draft
    BY Zenon DEF Draft, Phase
  <2> HIDE DEF obj
  <2>2. new \in Object
    <3>1. 1 \in Nat \ {0} /\ "Running" \in Phase
      BY DEF Phase
    <3> QED BY <2>1, <3>1, NewObjectType, Zenon
  <2>3. /\ s_objects' = [s_objects EXCEPT ![k] = new]
        /\ s_gen' = [s_gen EXCEPT ![k] = @ + 1]
        /\ UNCHANGED <<s_snap, s_held>>
    BY Zenon, SameOps, <1>2 DEF S!Create, create, obj
  <2> HIDE DEF new
  <2>4. S!TypeOK'
    BY SameOps, <2>2, <2>3 DEF StoreInv, S!TypeOK
  <2>5. SnapBehind'
    <3>1. \A d \in Clients : s_snap[d][k] # None =>
            s_snap[d][k].gen \in Nat /\ s_snap[d][k].gen <= s_gen[k]
      BY DEF StoreInv, S!TypeOK, SnapBehind, S!Snapshot
    <3>2. s_gen[k] \in Nat /\ s_gen'[k] = s_gen[k] + 1
      BY Zenon, <2>3 DEF StoreInv, S!TypeOK
    <3>3. \A d \in Clients : s_snap[d][k] # None =>
            s_snap[d][k].gen <= s_gen'[k] /\ s_snap[d][k].gen # s_gen'[k]
      BY <3>1, <3>2
    <3>4. \A j \in Keys : j # k => s_objects'[j] = s_objects[j] /\ s_gen'[j] = s_gen[j]
      BY Zenon, <2>3 DEF StoreInv, S!TypeOK
    <3> QED BY <2>3, <3>3, <3>4 DEF StoreInv, SnapBehind
  <2>6. S!HeldAlive'
    BY Zenon, <1>2, <2>3 DEF StoreInv, S!TypeOK, S!HeldAlive
  <2> QED BY Zenon, <2>4, <2>5, <2>6 DEF StoreInv
<1> QED BY Zenon, <1>1, <1>2

(* A mutation of one object that leaves the names of its holders on it.    *)
LEMMA MutationStep ==
  ASSUME StoreInv, NEW k \in Keys, NEW fins,
         Mutation(s_objects, k, s_objects', fins), UNCHANGED <<s_gen, s_snap>>,
         s_held' \in [Clients -> [Keys -> Nat]],
         \A d \in Clients, j \in Keys :
           j # k /\ s_held'[d][j] # 0 => s_held'[d][j] = s_held[d][j],
         \A d \in Clients :
           s_held'[d][k] # 0 => s_held'[d][k] = s_gen[k] /\ finalizerOf[d] \in fins
  PROVE  StoreInv'
<1>1. s_objects' \in ObjectMap /\ SnapBehind'
  BY Zenon, MutationKeepsBehind DEF StoreInv
<1>2. S!TypeOK'
  BY Zenon, SameOps, <1>1 DEF StoreInv, S!TypeOK, ObjectMap
<1>3. S!HeldAlive'
  <2>1. PICK new \in Object : /\ new.finalizers = fins
                              /\ s_objects' = [s_objects EXCEPT ![k] = new]
    BY Zenon DEF Mutation
  <2>2. ASSUME NEW d \in Clients, NEW j \in Keys, s_held'[d][j] # 0
        PROVE  /\ s_objects'[j] # None
               /\ s_gen[j] = s_held'[d][j]
               /\ finalizerOf[d] \in s_objects'[j].finalizers
    <3>1. CASE j = k
      BY Zenon, <2>1, <2>2, <3>1, NoneIsNotAnObject DEF StoreInv, S!TypeOK
    <3>2. CASE j # k
      BY <2>1, <2>2, <3>2 DEF StoreInv, S!TypeOK, S!HeldAlive
    <3> QED BY Zenon, <3>1, <3>2
  <2> QED BY Zenon, <2>2 DEF S!HeldAlive
<1> QED BY Zenon, <1>1, <1>2, <1>3 DEF StoreInv

(* update keeps the invariant.                                             *)
LEMMA UpdateStep ==
  ASSUME StoreInv, NEW c \in Clients, NEW k \in Keys, NEW s \in Specs,
         S!Update(c, k, s)
  PROVE  StoreInv'
<1>1. s_objects \in ObjectMap /\ s_snap[c][k].obj.version \in Nat
  BY Zenon, SameOps DEF StoreInv, S!TypeOK, ObjectMap, S!Update, S!Snapshot, Object
<1>2. CASE s_objects' = s_objects
  BY <1>2 DEF StoreInv, S!TypeOK, SnapBehind, S!HeldAlive, S!Update
<1>3. CASE Mutation(s_objects, k, s_objects', s_objects[k].finalizers)
  <2>1. UNCHANGED <<s_gen, s_snap, s_held>>
    BY Zenon DEF S!Update
  <2> QED BY <1>3, <2>1, MutationStep DEF StoreInv, S!TypeOK, S!HeldAlive
<1> QED BY Zenon, SameOps, <1>1, <1>2, <1>3, UpdateShape DEF S!Update

(* teardown keeps the invariant.                                           *)
LEMMA TeardownStep ==
  ASSUME StoreInv, NEW c \in Clients, NEW k \in Keys, S!Teardown(c, k)
  PROVE  StoreInv'
<1>1. s_objects \in ObjectMap
  BY Zenon, SameOps DEF StoreInv, S!TypeOK, ObjectMap
<1>2. CASE s_objects' = s_objects
  BY <1>2 DEF StoreInv, S!TypeOK, SnapBehind, S!HeldAlive, S!Teardown
<1>3. CASE Mutation(s_objects, k, s_objects', s_objects[k].finalizers)
  <2>1. UNCHANGED <<s_gen, s_snap, s_held>>
    BY Zenon DEF S!Teardown
  <2> QED BY <1>3, <2>1, MutationStep DEF StoreInv, S!TypeOK, S!HeldAlive
<1> QED BY Zenon, SameOps, <1>1, <1>2, <1>3, TeardownShape DEF S!Teardown

(* add_finalizer keeps the invariant.                                      *)
LEMMA AddFinalizerStep ==
  ASSUME StoreInv, NEW c \in Clients, NEW k \in Keys, S!AddFinalizer(c, k)
  PROVE  StoreInv'
<1> DEFINE f == finalizerOf[c]
           r == add_finalizer(s_objects, k, f)
<1>1. s_objects \in ObjectMap /\ f \in Finalizers
  BY Zenon, SameOps, SharedAssumption DEF S!StoreAssumption, StoreInv, S!TypeOK, ObjectMap
<1>2. /\ s_objects' = r.objects
      /\ s_held' = s_held \/ (r.code = "Ok" /\ s_held' = [s_held EXCEPT ![c][k] = s_gen[k]])
      /\ UNCHANGED <<s_gen, s_snap>>
  BY Zenon, SameOps DEF S!AddFinalizer
<1>3. s_held' \in [Clients -> [Keys -> Nat]]
  BY SameOps, <1>2 DEF StoreInv, S!TypeOK
<1>4. \A d \in Clients, j \in Keys :
        s_held'[d][j] # s_held[d][j] => d = c /\ j = k /\ s_held'[d][j] = s_gen[k]
  BY <1>2 DEF StoreInv, S!TypeOK
<1>5. CASE /\ s_objects' = s_objects
           /\ r.code = "Ok" => s_objects[k] # None /\ f \in s_objects[k].finalizers
  <2>1. S!TypeOK' /\ SnapBehind'
    BY <1>2, <1>3, <1>5 DEF StoreInv, S!TypeOK, SnapBehind
  <2>2. S!HeldAlive'
    BY <1>2, <1>4, <1>5 DEF StoreInv, S!HeldAlive
  <2> QED BY Zenon, <2>1, <2>2 DEF StoreInv
<1>6. CASE Mutation(s_objects, k, s_objects', s_objects[k].finalizers \cup {f})
  <2>1. \A d \in Clients : s_held'[d][k] # 0 =>
          /\ s_held'[d][k] = s_gen[k]
          /\ finalizerOf[d] \in s_objects[k].finalizers \cup {f}
    BY <1>4 DEF StoreInv, S!HeldAlive
  <2> QED BY <1>2, <1>3, <1>4, <1>6, <2>1, MutationStep
<1> HIDE DEF r
<1> QED BY Zenon, <1>1, <1>2, <1>5, <1>6, AddFinalizerShape DEF r

(* Only the client's own name goes, and only its own hold.                 *)
LEMMA RemoveFinalizerStep ==
  ASSUME StoreInv, NEW c \in Clients, NEW k \in Keys, S!RemoveFinalizer(c, k)
  PROVE  StoreInv'
<1> DEFINE f == finalizerOf[c]
<1>1. s_objects \in ObjectMap /\ f \in Finalizers
  BY Zenon, SameOps, SharedAssumption DEF S!StoreAssumption, StoreInv, S!TypeOK, ObjectMap
<1>2. /\ s_objects' = remove_finalizer(s_objects, k, f).objects
      /\ s_held' = [s_held EXCEPT ![c][k] = 0]
      /\ UNCHANGED <<s_gen, s_snap>>
  BY Zenon, SameOps DEF S!RemoveFinalizer
<1>3. s_held' \in [Clients -> [Keys -> Nat]]
  BY Zenon, <1>2 DEF StoreInv, S!TypeOK
<1>4. \A d \in Clients, j \in Keys : s_held'[d][j] # 0 =>
        s_held'[d][j] = s_held[d][j] /\ (j = k => d # c)
  BY Zenon, <1>2 DEF StoreInv, S!TypeOK
<1>5. CASE s_objects' = s_objects
  BY <1>2, <1>3, <1>4, <1>5 DEF StoreInv, S!TypeOK, SnapBehind, S!HeldAlive
<1>6. CASE Mutation(s_objects, k, s_objects', s_objects[k].finalizers \ {f})
  <2>1. \A d \in Clients : s_held'[d][k] # 0 =>
          /\ s_held'[d][k] = s_gen[k]
          /\ finalizerOf[d] \in s_objects[k].finalizers \ {f}
    BY SameOps, <1>4, SharedAssumption DEF S!StoreAssumption, StoreInv, S!HeldAlive
  <2> QED BY <1>2, <1>3, <1>4, <1>6, <2>1, MutationStep
<1> QED BY Zenon, <1>1, <1>2, <1>5, <1>6, RemoveFinalizerShape

(* Only an object without finalizers goes, so no hold is on it.            *)
LEMMA DestroyStep ==
  ASSUME StoreInv, NEW c \in Clients, NEW k \in Keys, S!Destroy(c, k)
  PROVE  StoreInv'
<1>1. s_objects \in ObjectMap /\ s_snap[c][k].obj.version \in Nat
  BY Zenon, SameOps DEF StoreInv, S!TypeOK, ObjectMap, S!Destroy, S!Snapshot, Object
<1>2. CASE s_objects' = s_objects
  BY <1>2 DEF StoreInv, S!TypeOK, SnapBehind, S!HeldAlive, S!Destroy
<1>3. CASE /\ s_objects[k] # None /\ s_objects[k].finalizers = {}
           /\ s_objects' = [s_objects EXCEPT ![k] = None]
  <2>1. s_objects' \in ObjectMap /\ SnapBehind'
    BY Zenon, <1>3, RemovalKeepsBehind DEF StoreInv, S!Destroy
  <2>2. S!TypeOK'
    BY Zenon, SameOps, <2>1 DEF StoreInv, S!TypeOK, ObjectMap, S!Destroy
  <2>3. S!HeldAlive'
    BY <1>3 DEF StoreInv, S!TypeOK, S!HeldAlive, S!Destroy
  <2> QED BY Zenon, <2>1, <2>2, <2>3 DEF StoreInv
<1> QED BY Zenon, SameOps, <1>1, <1>2, <1>3, DestroyShape DEF S!Destroy

(* Every step keeps the invariant.                                         *)
LEMMA StoreStep == StoreInv /\ [S!Next]_S!vars => StoreInv'
<1> SUFFICES ASSUME StoreInv, [S!Next]_S!vars PROVE StoreInv'
  BY Zenon
<1>1. CASE UNCHANGED S!vars
  BY Zenon, <1>1 DEF StoreInv, S!TypeOK, SnapBehind, S!HeldAlive, S!vars
<1>2. CASE S!Next
  BY Zenon, <1>2, ReadStep, CreateStep, UpdateStep, AddFinalizerStep,
     RemoveFinalizerStep, TeardownStep, DestroyStep DEF S!Next
<1> QED BY Zenon, <1>1, <1>2

-----------------------------------------------------------------------------

(* The types of the store's state: every key maps to a well-formed object  *)
(* or to none, in every reachable state (state.rs, all operations).        *)
THEOREM StoreTypeCorrect == S!Spec => []StoreTyped
<1>1. StoreInv => StoreTyped
  BY Zenon DEF StoreInv, StoreTyped
<1> QED BY StoreInit, StoreStep, <1>1, PTL DEF S!Spec

(* Optimistic concurrency: an equal version within one incarnation means   *)
(* an equal object, for any number of clients, keys and operations         *)
(* (state.rs, the version check of update and destroy).                    *)
THEOREM VersionsIdentifyContent == S!Spec => []VersionIdentifiesContent
<1>1. StoreInv => VersionIdentifiesContent
  BY Zenon DEF StoreInv, SnapBehind, S!VersionIdentifiesContent, VersionIdentifiesContent
<1> QED BY StoreInit, StoreStep, <1>1, PTL DEF S!Spec

(* A placed finalizer keeps its object and its incarnation until its       *)
(* holder takes it off (state.rs, add_finalizer against destroy).          *)
THEOREM FinalizersHold == S!Spec => []HeldAlive
<1>1. StoreInv => HeldAlive
  BY Zenon DEF StoreInv, HeldAlive
<1> QED BY StoreInit, StoreStep, <1>1, PTL DEF S!Spec

(* A mutation or a removal is a step of the lifecycle.                     *)
LEMMA ShapesAreLifecycle ==
  ASSUME S!TypeOK, NEW k \in Keys, NEW fins,
         \/ s_objects' = s_objects
         \/ Mutation(s_objects, k, s_objects', fins)
         \/ /\ s_objects[k] # None /\ s_objects[k].finalizers = {}
            /\ s_objects' = [s_objects EXCEPT ![k] = None]
  PROVE  \A j \in Keys : S!LifecycleStep(j)
<1>1. CASE s_objects' = s_objects
  BY Zenon, <1>1 DEF S!LifecycleStep
<1>2. CASE Mutation(s_objects, k, s_objects', fins)
  <2>1. PICK new \in Object : /\ Mutated(s_objects, k, new)
                              /\ s_objects' = [s_objects EXCEPT ![k] = new]
    BY Zenon, <1>2 DEF Mutation
  <2> QED BY Zenon, <2>1, NoneIsNotAnObject DEF S!LifecycleStep, Mutated, S!TypeOK
<1>3. CASE /\ s_objects[k] # None /\ s_objects[k].finalizers = {}
           /\ s_objects' = [s_objects EXCEPT ![k] = None]
  BY Zenon, <1>3 DEF S!LifecycleStep, S!TypeOK
<1> QED BY Zenon, <1>1, <1>2, <1>3

(* Every step respects the lifecycle of every object.                      *)
LEMMA NextLifecycle ==
  ASSUME S!TypeOK, [S!Next]_S!vars
  PROVE  \A j \in Keys : S!LifecycleStep(j)
<1>1. CASE UNCHANGED S!vars
  BY Zenon, <1>1 DEF S!vars, S!LifecycleStep
<1>2. ASSUME NEW c \in Clients, S!List(c) \/ \E k \in Keys : S!Get(c, k)
      PROVE  \A j \in Keys : S!LifecycleStep(j)
  BY Zenon, <1>2 DEF S!List, S!Get, S!LifecycleStep
<1>3. ASSUME NEW c \in Clients, NEW k \in Keys,
             NEW o \in Owners \cup {None}, NEW f \in SUBSET Finalizers,
             NEW s \in Specs, S!Create(c, k, o, f, s)
      PROVE  \A j \in Keys : S!LifecycleStep(j)
  <2>1. CASE s_objects[k] # None
    BY Zenon, SameOps, <1>3, <2>1 DEF S!Create, create, Same, S!LifecycleStep
  <2>2. CASE s_objects[k] = None
    BY Zenon, SameOps, <1>3, <2>2 DEF S!Create, create, S!LifecycleStep, S!TypeOK
  <2> QED BY Zenon, <2>1, <2>2
<1>4. ASSUME NEW c \in Clients, NEW k \in Keys, NEW s \in Specs,
             S!Update(c, k, s)
      PROVE  \A j \in Keys : S!LifecycleStep(j)
  <2>1. s_objects \in ObjectMap /\ s_snap[c][k].obj.version \in Nat
    BY Zenon, SameOps, <1>4 DEF S!TypeOK, ObjectMap, S!Update, S!Snapshot, Object
  <2> QED BY Zenon, SameOps, <1>4, <2>1, UpdateShape, ShapesAreLifecycle DEF S!Update
<1>5. ASSUME NEW c \in Clients, NEW k \in Keys,
             S!AddFinalizer(c, k) \/ S!RemoveFinalizer(c, k)
      PROVE  \A j \in Keys : S!LifecycleStep(j)
  <2>1. s_objects \in ObjectMap /\ finalizerOf[c] \in Finalizers
    BY Zenon, SameOps, SharedAssumption DEF S!StoreAssumption, S!TypeOK, ObjectMap
  <2>2. CASE S!AddFinalizer(c, k)
    BY Zenon, SameOps, <2>1, <2>2, AddFinalizerShape, ShapesAreLifecycle DEF S!AddFinalizer
  <2>3. CASE S!RemoveFinalizer(c, k)
    BY Zenon, SameOps, <2>1, <2>3, RemoveFinalizerShape, ShapesAreLifecycle
       DEF S!RemoveFinalizer
  <2> QED BY Zenon, <1>5, <2>2, <2>3
<1>6. ASSUME NEW c \in Clients, NEW k \in Keys, S!Teardown(c, k)
      PROVE  \A j \in Keys : S!LifecycleStep(j)
  BY Zenon, SameOps, <1>6, TeardownShape, ShapesAreLifecycle DEF S!Teardown, S!TypeOK, ObjectMap
<1>7. ASSUME NEW c \in Clients, NEW k \in Keys, S!Destroy(c, k)
      PROVE  \A j \in Keys : S!LifecycleStep(j)
  <2>1. s_objects \in ObjectMap /\ s_snap[c][k].obj.version \in Nat
    BY Zenon, SameOps, <1>7 DEF S!TypeOK, ObjectMap, S!Destroy, S!Snapshot, Object
  <2>2. \/ s_objects' = s_objects
        \/ Mutation(s_objects, k, s_objects', {})
        \/ /\ s_objects[k] # None /\ s_objects[k].finalizers = {}
           /\ s_objects' = [s_objects EXCEPT ![k] = None]
    BY Zenon, SameOps, <1>7, <2>1, DestroyShape DEF S!Destroy
  <2> QED BY Zenon, <2>2, ShapesAreLifecycle
<1>8. CASE S!Next
  BY <1>8, <1>2, <1>3, <1>4, <1>5, <1>6, <1>7, Zenon DEF S!Next
<1> QED BY Zenon, <1>1, <1>8

(* Every step keeps to the life of an object: created in Running at        *)
(* version 1, mutated one version at a time, never brought back from       *)
(* TearingDown, removed only without finalizers (state.rs, create to       *)
(* destroy).                                                               *)
THEOREM LifecycleRespected == S!Spec => ObjectLifecycle
<1>1. StoreInv /\ [S!Next]_S!vars => [\A k \in Keys : S!LifecycleStep(k)]_S!vars
  BY Zenon, NextLifecycle DEF StoreInv
<1> QED BY StoreInit, StoreStep, <1>1, PTL DEF S!Spec, S!ObjectLifecycle, ObjectLifecycle
=============================================================================
