-------------------------------- MODULE Store --------------------------------
(***************************************************************************)
(* The resource store under concurrent clients: controllers, supervised    *)
(* services and API handlers, each a task that reads objects, keeps what   *)
(* it read, and later acts on it (a version it read, an absence it saw, a  *)
(* finalizer it placed) while the other clients act in between.            *)
(***************************************************************************)
EXTENDS StateOps, FiniteSets

CONSTANTS
  Clients,     \* the tasks that hold a clone of the store
  finalizerOf, \* the finalizer each client uses
  MaxVersion,  \* bound: no object is mutated past this version
  MaxGen       \* bound: no key is created more often than this

StoreAssumption ==
  /\ finalizerOf \in [Clients -> Finalizers]
  /\ \A c, d \in Clients : finalizerOf[c] = finalizerOf[d] => c = d

VARIABLES
  objects,  \* the store: an object or None for each key
  gen,      \* how often each key was created: which incarnation is stored
  snap,     \* what each client last read of each key: an object and its gen
  held      \* the incarnation on which each client holds its finalizer, or 0

vars == <<objects, gen, snap, held>>

Snapshot == [gen : Nat, obj : Object]

TypeOK ==
  /\ objects \in [Keys -> Object \cup {None}]
  /\ gen \in [Keys -> Nat]
  /\ snap \in [Clients -> [Keys -> Snapshot \cup {None}]]
  /\ held \in [Clients -> [Keys -> Nat]]

Init ==
  /\ objects = [k \in Keys |-> None]
  /\ gen = [k \in Keys |-> 0]
  /\ snap = [c \in Clients |-> [k \in Keys |-> None]]
  /\ held = [c \in Clients |-> [k \in Keys |-> 0]]

-----------------------------------------------------------------------------
(* Reading.  get copies one object, list copies all of a type at once.     *)

Copy(k) ==
  IF objects[k] = None THEN None ELSE [gen |-> gen[k], obj |-> objects[k]]

Get(c, k) ==
  /\ snap' = [snap EXCEPT ![c][k] = Copy(k)]
  /\ UNCHANGED <<objects, gen, held>>

List(c) ==
  /\ snap' = [snap EXCEPT ![c] = [k \in Keys |-> Copy(k)]]
  /\ UNCHANGED <<objects, gen, held>>

-----------------------------------------------------------------------------
(* Writing.  An error changes nothing in the store: the client that gets   *)
(* it goes on with what it had.                                            *)

Room(k) == objects[k] # None => objects[k].version < MaxVersion

Create(c, k, o, f, s) ==
  LET r == create(objects, k, [version |-> 0, owner |-> o, finalizers |-> f,
                               phase |-> "Running", spec |-> s])
  IN /\ gen[k] < MaxGen
     /\ objects' = r.objects
     /\ gen' = IF r.code = "Ok" THEN [gen EXCEPT ![k] = @ + 1] ELSE gen
     /\ UNCHANGED <<snap, held>>

(* update is given the version the client read, and replaces the spec.     *)
Update(c, k, s) ==
  /\ snap[c][k] # None
  /\ Room(k)
  /\ objects' = update(objects, k, snap[c][k].obj.version, s).objects
  /\ UNCHANGED <<gen, snap, held>>

(* A client that got Ok relies on the object until it removes its name.    *)
AddFinalizer(c, k) ==
  LET r == add_finalizer(objects, k, finalizerOf[c])
  IN /\ Room(k)
     /\ objects' = r.objects
     /\ held' = IF r.code = "Ok" THEN [held EXCEPT ![c][k] = gen[k]] ELSE held
     /\ UNCHANGED <<gen, snap>>

RemoveFinalizer(c, k) ==
  /\ Room(k)
  /\ objects' = remove_finalizer(objects, k, finalizerOf[c]).objects
  /\ held' = [held EXCEPT ![c][k] = 0]
  /\ UNCHANGED <<gen, snap>>

Teardown(c, k) ==
  /\ Room(k)
  /\ objects' = teardown(objects, k).objects
  /\ UNCHANGED <<gen, snap, held>>

Destroy(c, k) ==
  /\ snap[c][k] # None
  /\ objects' = destroy(objects, k, snap[c][k].obj.version).objects
  /\ UNCHANGED <<gen, snap, held>>

Next ==
  \E c \in Clients :
    \/ List(c)
    \/ \E k \in Keys :
         \/ Get(c, k)
         \/ \E o \in Owners \cup {None}, f \in SUBSET Finalizers, s \in Specs :
              Create(c, k, o, f, s)
         \/ \E s \in Specs : Update(c, k, s)
         \/ AddFinalizer(c, k)
         \/ RemoveFinalizer(c, k)
         \/ Teardown(c, k)
         \/ Destroy(c, k)

Spec == Init /\ [][Next]_vars

-----------------------------------------------------------------------------

(* Optimistic concurrency means what it promises: within one incarnation   *)
(* of a key, a client whose remembered version is still the stored one     *)
(* remembers exactly the stored object, so an update or destroy accepted   *)
(* by the version check acts on the state the client decided from.  Every  *)
(* mutation (spec, finalizers, phase) has to bump the version for this.    *)
VersionIdentifiesContent ==
  \A c \in Clients, k \in Keys :
    /\ snap[c][k] # None
    /\ objects[k] # None
    /\ snap[c][k].gen = gen[k]
    /\ snap[c][k].obj.version = objects[k].version
    => snap[c][k].obj = objects[k]

(* A finalizer keeps its object: once add_finalizer returned Ok to a       *)
(* client, and until that client calls remove_finalizer, the key holds an  *)
(* object, the same incarnation of it, with the client's name on it,       *)
(* whatever teardown, destroy and create calls the other clients make.     *)
HeldAlive ==
  \A c \in Clients, k \in Keys :
    held[c][k] # 0 =>
      /\ objects[k] # None
      /\ gen[k] = held[c][k]
      /\ finalizerOf[c] \in objects[k].finalizers

(* What one step may do to a stored object: nothing, bump its version by   *)
(* one, or remove it.  Within an incarnation the owner stays, a teardown   *)
(* is never taken back, and removal needs an empty finalizer set; a new    *)
(* object starts at version 1 in Running.                                  *)
LifecycleStep(k) ==
  \/ objects'[k] = objects[k]
  \/ /\ objects[k] = None
     /\ objects'[k].version = 1
     /\ objects'[k].phase = "Running"
  \/ /\ objects'[k] = None
     /\ objects[k].finalizers = {}
  \/ /\ objects[k] # None /\ objects'[k] # None
     /\ objects'[k].version = objects[k].version + 1
     /\ objects'[k].owner = objects[k].owner
     /\ objects[k].phase = "TearingDown" => objects'[k].phase = "TearingDown"

ObjectLifecycle == [][\A k \in Keys : LifecycleStep(k)]_vars
=============================================================================
