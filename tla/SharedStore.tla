----------------------------- MODULE SharedStore -----------------------------
(***************************************************************************)
(* The store and the clients that share it, Store, under names of their    *)
(* own: what is proved about the operations of the store and about its     *)
(* clients can then be used where another module has a store of its own.   *)
(***************************************************************************)
EXTENDS StateOps

CONSTANTS Clients, finalizerOf, MaxVersion, MaxGen  \* those of Store

VARIABLES s_objects, s_gen, s_snap, s_held

S == INSTANCE Store WITH
  objects <- s_objects, gen <- s_gen, snap <- s_snap, held <- s_held

ASSUME SharedAssumption == S!StoreAssumption

-----------------------------------------------------------------------------
(* Every key maps to a well-formed object or to none, and every client     *)
(* remembers well-formed objects (state.rs, all operations).               *)
StoreTyped == S!TypeOK

(* Store: within one incarnation of a key, a client whose remembered       *)
(* version is the stored one remembers exactly the stored object, so what  *)
(* the version check of update and destroy lets through acts on the state  *)
(* the client decided from.                                                *)
VersionIdentifiesContent == S!VersionIdentifiesContent

(* Store: an object keeps existing, as the same incarnation, from the      *)
(* add_finalizer that returned Ok to the holder's remove_finalizer.        *)
HeldAlive == S!HeldAlive

(* Store: an object is created in Running at version 1, mutated one        *)
(* version at a time with its owner kept, never brought back from          *)
(* TearingDown, and removed only without finalizers.                       *)
ObjectLifecycle == S!ObjectLifecycle
=============================================================================
