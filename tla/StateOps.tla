------------------------------ MODULE StateOps ------------------------------
(***************************************************************************)
(* The operations of the resource store (crates/runtime-core/src/state.rs) *)
(* as functions of the object map.  Each holds the store's mutex for its   *)
(* whole body, so each is one atomic step; what it broadcasts is sent only *)
(* after the mutex is released, so the event is part of the result and the *)
(* modules that use an operation send it in a later step.                  *)
(*                                                                         *)
(* The object map is a total function from keys: None is the absence of an *)
(* entry (and, in an object, Option::None as the owner).                   *)
(***************************************************************************)
EXTENDS Naturals

CONSTANTS
  Keys,         \* the identities (namespace, type, id) of resources
  Specs,        \* the values a resource's spec can take
  Owners,       \* the controllers that stamp ownership
  Finalizers,   \* the names controllers use for their finalizers
  None          \* no object, no owner, no event

Phase == {"Running", "TearingDown"}

EventKind == {"Created", "Updated", "Destroyed"}

Object ==
  [version    : Nat \ {0},
   owner      : Owners \cup {None},
   finalizers : SUBSET Finalizers,
   phase      : Phase,
   spec       : Specs]

(* An event carries the object after the change; the loops that receive it *)
(* look only at the key (matches_inputs).                                  *)
Event == [kind : EventKind, key : Keys, version : Nat]

ASSUME NoneAssumption == None \notin Object \cup Owners \cup Event

ResultCode ==
  {"Ok", "Ready", "NotFound", "AlreadyExists", "Conflict", "HasFinalizers"}

-----------------------------------------------------------------------------
(* An error, or an idempotent call with nothing to do: the map is left     *)
(* alone and nothing is sent.                                              *)
Same(objs, code) == [code |-> code, objects |-> objs, event |-> None]

(* The mutation of an existing object: the new version is the old one plus *)
(* one, and an Updated event follows.                                      *)
Bump(objs, k, code, obj) ==
  LET new == [obj EXCEPT !.version = objs[k].version + 1]
  IN [code    |-> code,
      objects |-> [objs EXCEPT ![k] = new],
      event   |-> [kind |-> "Updated", key |-> k, version |-> new.version]]

-----------------------------------------------------------------------------

(* Mutant: the version of the object handed in (0 in a new one) is kept.   *)
CreateAsGiven(objs, k, obj) ==
  IF objs[k] # None THEN Same(objs, "AlreadyExists")
  ELSE Same([objs EXCEPT ![k] = obj], "Ok")

(* Version and phase are forced; owner and finalizers are the caller's.    *)
create(objs, k, obj) ==
  IF objs[k] # None THEN Same(objs, "AlreadyExists")
  ELSE [code    |-> "Ok",
        objects |-> [objs EXCEPT ![k] =
                       [obj EXCEPT !.version = 1, !.phase = "Running"]],
        event   |-> [kind |-> "Created", key |-> k, version |-> 1]]

update(objs, k, expected, spec) ==
  CASE objs[k] = None -> Same(objs, "NotFound")
    [] objs[k] # None /\ objs[k].version # expected -> Same(objs, "Conflict")
    [] OTHER -> Bump(objs, k, "Ok", [objs[k] EXCEPT !.spec = spec])

(* Mutant: the version is bumped on spec mutations only.                   *)
AddFinalizerUnversioned(objs, k, f) ==
  IF objs[k] = None THEN Same(objs, "NotFound")
  ELSE Same([objs EXCEPT ![k].finalizers = @ \cup {f}], "Ok")

add_finalizer(objs, k, f) ==
  CASE objs[k] = None -> Same(objs, "NotFound")
    [] objs[k] # None /\ f \in objs[k].finalizers -> Same(objs, "Ok")
    [] OTHER ->
         Bump(objs, k, "Ok", [objs[k] EXCEPT !.finalizers = @ \cup {f}])

remove_finalizer(objs, k, f) ==
  CASE objs[k] = None -> Same(objs, "NotFound")
    [] objs[k] # None /\ f \notin objs[k].finalizers -> Same(objs, "Ok")
    [] OTHER -> Bump(objs, k, "Ok", [objs[k] EXCEPT !.finalizers = @ \ {f}])

(* Mutant: a second call takes the mark back.                              *)
TeardownToggles(objs, k) ==
  IF objs[k] = None THEN Same(objs, "NotFound")
  ELSE Bump(objs, k, "Ok",
            [objs[k] EXCEPT !.phase = IF @ = "Running" THEN "TearingDown"
                                                       ELSE "Running"])

(* "Ready" is Ok(true): no finalizer was left when the phase was set.      *)
teardown(objs, k) ==
  LET code == IF objs[k].finalizers = {} THEN "Ready" ELSE "Ok"
  IN CASE objs[k] = None -> Same(objs, "NotFound")
       [] objs[k] # None /\ objs[k].phase = "TearingDown" -> Same(objs, code)
       [] OTHER ->
            Bump(objs, k, code, [objs[k] EXCEPT !.phase = "TearingDown"])

(* Mutant: the finalizers are not consulted.                               *)
DestroyHeld(objs, k, expected) ==
  IF objs[k] = None \/ objs[k].version # expected THEN Same(objs, "Conflict")
  ELSE Same([objs EXCEPT ![k] = None], "Ok")

(* The phase is not consulted: only the version and the finalizers are.    *)
destroy(objs, k, expected) ==
  CASE objs[k] = None -> Same(objs, "NotFound")
    [] objs[k] # None /\ objs[k].version # expected -> Same(objs, "Conflict")
    [] objs[k] # None /\ objs[k].version = expected
                      /\ objs[k].finalizers # {} -> Same(objs, "HasFinalizers")
    [] OTHER ->
         [code    |-> "Ok",
          objects |-> [objs EXCEPT ![k] = None],
          event   |-> [kind    |-> "Destroyed",
                       key     |-> k,
                       version |-> objs[k].version]]
=============================================================================
