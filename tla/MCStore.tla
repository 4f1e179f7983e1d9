------------------------------- MODULE MCStore -------------------------------
(***************************************************************************)
(* The store with two clients on one key: one key suffices, operations on  *)
(* different keys share no state but the mutex.                            *)
(***************************************************************************)
EXTENDS SharedStore, TLC

CONSTANTS c1, c2, f1, f2

MCFinalizerOf == c1 :> f1 @@ c2 :> f2

Perms == Permutations(Specs)

MCSpec == S!Spec
=============================================================================
