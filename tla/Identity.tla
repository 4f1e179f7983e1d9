------------------------------ MODULE Identity -----------------------------
(***************************************************************************)
(* The node's identity: waiting for the STATE mount, seeding the PKI from  *)
(* the boot partition (crates/machined/src/imageboot.rs) and loading or    *)
(* generating it (crates/pki/src/lib.rs), as run_daemon does before it     *)
(* starts the API, over power cuts.  /system/state/pki is on the STATE     *)
(* volume once that is mounted, and on the initramfs before.               *)
(*                                                                         *)
(* A file is the authority it belongs to, "torn" when it is empty or cut   *)
(* short, "none" when it is missing.  Files that are not synced are what a *)
(* power cut makes of them; names are journalled in order.  Every call     *)
(* that touches a file may fail, and STATE may be mounted at any time.     *)
(***************************************************************************)
EXTENDS Naturals, Sequences

CONSTANTS
  Cas,       \* authorities that can be generated
  Baked,     \* the one on the boot partition
  BootSets,  \* which of its files may be there
  Keeps      \* what STATE may hold at first: authorities, or "none"

FILES == <<"ca.pem", "ca.key", "server.pem", "server.key">>
File == {FILES[i] : i \in DOMAIN FILES}

(* What the constants are.                                                 *)
IdentityAssumption ==
  /\ Baked \notin Cas /\ BootSets \subseteq SUBSET File
  /\ {"none", "torn"} \cap (Cas \cup {Baked}) = {}
  /\ Keeps \subseteq Cas \cup {"none"}

VARIABLES
  boot,    \* the PKI files on the boot partition
  kept,    \* the authority STATE held at first
  pc,      \* where run_daemon is
  mounted, \* is STATE mounted?
  dst,     \* /system/state/pki, on STATE and on the initramfs
  tmp,     \* /system/state/pki.tmp, likewise
  staged, dirty, \* files on STATE that are not synced, in tmp and in dst
  unnamed, \* is the name of the directory on STATE not synced?
  new,     \* the authority being generated
  used,    \* authorities generated so far
  ca,      \* the authority the API serves with
  mishap   \* history, for the properties: "seed", a whole baked identity was
           \* not seeded in some boot; in this boot "load", loading failed,
           \* "write", STATE was mounted while an identity was written

given == <<boot, kept>>
vars == <<given, pc, mounted, dst, tmp, staged, dirty, unnamed, new, used, ca, mishap>>

Fs == {"state", "initramfs"}
Content == Cas \cup {Baked, "none", "torn"}
Dir == [there : BOOLEAN, file : [File -> Content]]
NoDir == [there |-> FALSE, file |-> [f \in File |-> "none"]]
EmptyDir == [NoDir EXCEPT !.there = TRUE]
Holding(c) == [there |-> TRUE, file |-> [f \in File |-> c]]
Here == IF mounted THEN "state" ELSE "initramfs"

Mishaps == {"seed", "load", "write"}

At(where, n) == <<where, n>>
End == {At("serving", 0), At("exited", 0), At("disabled", 0)}
Places ==
  {At(w, 0) : w \in {"off", "Wait", "Seed", "Stage", "Rename", "SyncDir", "Load", "Missing", "Read"}}
    \cup End \cup {At(w, n) : w \in {"Copy", "Fsync", "Write"}, n \in DOMAIN FILES}

TypeOK ==
  /\ pc \in Places /\ mounted \in BOOLEAN /\ unnamed \in BOOLEAN
  /\ dst \in [Fs -> Dir] /\ tmp \in [Fs -> Dir]
  /\ staged \subseteq File /\ dirty \subseteq File /\ used \subseteq Cas
  /\ {new, ca} \subseteq Content
  /\ boot \subseteq File /\ kept \in Cas \cup {"none"} /\ mishap \subseteq Mishaps
  /\ pc = At("serving", 0) => ca \in Cas \cup {Baked}

Init ==
  /\ boot \in BootSets /\ kept \in Keeps /\ mishap = {}
  /\ pc = At("off", 0) /\ mounted = FALSE /\ staged = {} /\ dirty = {} /\ unnamed = FALSE
  /\ dst = [v \in Fs |-> IF v = "state" /\ kept # "none" THEN Holding(kept) ELSE NoDir]
  /\ tmp = [v \in Fs |-> NoDir]
  /\ new = "none" /\ used = {kept} \ {"none"} /\ ca = "none"

-----------------------------------------------------------------------------
PowerUp ==
  /\ pc = At("off", 0) /\ pc' = At("Wait", 0)
  /\ UNCHANGED <<given, mounted, dst, tmp, staged, dirty, unnamed, new, used, ca, mishap>>

(* What may be left of a directory whose files in "lost" are not synced.   *)
Survives(d, lost) ==
  {[d EXCEPT !.file = [f \in File |-> IF f \in no THEN "none"
                                      ELSE IF f \in cut THEN "torn" ELSE d.file[f]]] :
     no \in SUBSET lost, cut \in SUBSET lost}

PowerCut ==
  /\ pc # At("off", 0) /\ pc' = At("off", 0)
  /\ \E d \in Survives(dst["state"], {f \in dirty : dst["state"].file[f] # "none"})
               \cup (IF unnamed THEN {NoDir} ELSE {}) :
       dst' = [v \in Fs |-> IF v = "state" THEN d ELSE NoDir]
  /\ tmp' = [v \in Fs |-> NoDir]
  /\ mounted' = FALSE /\ staged' = {} /\ dirty' = {} /\ unnamed' = FALSE /\ new' = "none" /\ ca' = "none"
  /\ mishap' = mishap \cap {"seed"}
  /\ UNCHANGED <<given, used>>

(* The mount controller mounts STATE, over what was written below it.      *)
Writing == \E i \in DOMAIN FILES : pc = At("Write", i)
Mount ==
  /\ ~mounted /\ pc # At("off", 0) /\ mounted' = TRUE
  /\ mishap' = mishap \cup (IF pc \in {At("Wait", 0), At("Seed", 0)} \cup End THEN {} ELSE {"seed"})
                      \cup (IF Writing THEN {"write"} ELSE {})
  /\ UNCHANGED <<given, pc, dst, tmp, staged, dirty, unnamed, new, used, ca>>

(* wait_for_state_mount: mounted, or given up after 60 seconds.            *)
wait_for_state_mount ==
  /\ pc = At("Wait", 0) /\ pc' = At("Seed", 0)
  /\ UNCHANGED <<given, mounted, dst, tmp, staged, dirty, unnamed, new, used, ca, mishap>>

Moves(where) == pc' = where /\ UNCHANGED <<given, mounted, ca>>
Goto(where) == Moves(where) /\ UNCHANGED mishap
Fail(where, what) == Moves(where) /\ mishap' = mishap \cup {what}
After(where, i, then) == IF i < Len(FILES) THEN At(where, i + 1) ELSE then
OnState(f) == IF mounted THEN {f} ELSE {}

-----------------------------------------------------------------------------
(* seed_pki: nothing when there is a directory already, or no whole set to *)
(* seed from; else staged, synced and renamed into place.  What cannot be  *)
(* found on the boot partition, all of it when that is not mounted, counts *)
(* as missing.  An error is logged and the load goes on; what was staged   *)
(* is removed before the next seeding and dropped here.                    *)
SeedFails ==
  /\ Fail(At("Load", 0), "seed")
  /\ tmp' = [v \in Fs |-> NoDir] /\ staged' = {}

Seed ==
  /\ pc = At("Seed", 0)
  /\ \/ (dst[Here].there \/ boot # File) /\ Goto(At("Load", 0)) /\ UNCHANGED <<tmp, staged>>
     \/ ~dst[Here].there /\ boot = File /\ Goto(At("Stage", 0)) /\ UNCHANGED <<tmp, staged>>
     \/ ~dst[Here].there /\ boot = File /\ SeedFails
  /\ UNCHANGED <<dst, dirty, unnamed, new, used>>

Stage ==
  /\ pc = At("Stage", 0)
  /\ \/ tmp' = [tmp EXCEPT ![Here] = EmptyDir] /\ staged' = {} /\ Goto(At("Copy", 1))
     \/ SeedFails
  /\ UNCHANGED <<dst, dirty, unnamed, new, used>>

Copy(i) ==
  /\ pc = At("Copy", i)
  /\ \/ /\ tmp[Here].there
        /\ tmp' = [tmp EXCEPT ![Here].file[FILES[i]] = Baked]
        /\ staged' = staged \cup OnState(FILES[i])
        /\ Goto(After("Copy", i, At("Fsync", 1)))
     \/ SeedFails
  /\ UNCHANGED <<dst, dirty, unnamed, new, used>>

Fsync(i) ==
  /\ pc = At("Fsync", i)
  /\ \/ /\ tmp[Here].file[FILES[i]] # "none" /\ staged' = staged \ OnState(FILES[i])
        /\ Goto(After("Fsync", i, At("Rename", 0)))
        /\ UNCHANGED tmp
     \/ SeedFails
  /\ UNCHANGED <<dst, dirty, unnamed, new, used>>

(* A rename fails without its source and onto a directory with files.      *)
Rename ==
  /\ pc = At("Rename", 0)
  /\ \/ /\ tmp[Here].there /\ dst[Here] \in {NoDir, EmptyDir}
        /\ dst' = [dst EXCEPT ![Here] = tmp[Here]] /\ tmp' = [tmp EXCEPT ![Here] = NoDir]
        /\ dirty' = (IF mounted THEN staged ELSE dirty) /\ staged' = {}
        /\ unnamed' = (unnamed \/ mounted) /\ Goto(At("SyncDir", 0))
     \/ SeedFails /\ UNCHANGED <<dst, dirty, unnamed>>
  /\ UNCHANGED <<new, used>>

(* An error of this sync is dropped.                                       *)
SyncDir ==
  /\ pc = At("SyncDir", 0) /\ Goto(At("Load", 0))
  /\ unnamed' \in {unnamed, unnamed /\ ~mounted}
  /\ UNCHANGED <<dst, tmp, staged, dirty, new, used>>

-----------------------------------------------------------------------------
(* NodePki::load_or_generate: the directory is made, the files are looked  *)
(* for, and either read or, all missing, written one by one.  An error     *)
(* leaves the API disabled.                                                *)
LoadFails == Fail(At("disabled", 0), "load")

Load ==
  /\ pc = At("Load", 0)
  /\ \/ /\ Goto(At("Missing", 0)) \/ LoadFails
        /\ dst' = [dst EXCEPT ![Here].there = TRUE]
        /\ unnamed' = (unnamed \/ (mounted /\ ~dst["state"].there))
     \/ LoadFails /\ UNCHANGED <<dst, unnamed>>
  /\ UNCHANGED <<tmp, staged, dirty, new, used>>

missing == {f \in File : dst[Here].file[f] = "none"}

Generate == \E c \in Cas \ used : new' = c /\ used' = used \cup {c} /\ Goto(At("Write", 1))

(* Mutant: remnants of an identity are taken for none.                     *)
MissingRekeys ==
  /\ pc = At("Missing", 0)
  /\ \/ missing = {} /\ Goto(At("Read", 0)) /\ UNCHANGED <<new, used>>
     \/ missing # {} /\ Generate
  /\ UNCHANGED <<dst, tmp, staged, dirty, unnamed>>

Missing ==
  /\ pc = At("Missing", 0)
  /\ \/ missing = {} /\ Goto(At("Read", 0)) /\ UNCHANGED <<new, used>>
     \/ missing \notin {{}, File} /\ Goto(At("disabled", 0)) /\ UNCHANGED <<new, used>>
     \/ missing = File /\ Generate
  /\ UNCHANGED <<dst, tmp, staged, dirty, unnamed>>

(* The API serves with an identity it can parse, or its task ends.         *)
Serve(file) ==
  LET whole == \E c \in Cas \cup {Baked} : \A f \in File : file[f] = c
  IN /\ pc' = At(IF whole THEN "serving" ELSE "exited", 0)
     /\ ca' = file["ca.pem"]
     /\ UNCHANGED <<given, mounted, mishap>>

Read ==
  /\ pc = At("Read", 0)
  /\ (missing = {} /\ Serve(dst[Here].file)) \/ LoadFails
  /\ UNCHANGED <<dst, tmp, staged, dirty, unnamed, new, used>>

Write(i) ==
  /\ pc = At("Write", i)
  /\ \/ /\ dst[Here].there
        /\ dst' = [dst EXCEPT ![Here].file[FILES[i]] = new]
        /\ dirty' = dirty \cup OnState(FILES[i])
        /\ IF i < Len(FILES) THEN Goto(At("Write", i + 1)) ELSE Serve([f \in File |-> new])
     \/ /\ LoadFails
        /\ \/ UNCHANGED <<dst, dirty>>
           \/ /\ dst[Here].there /\ dirty' = dirty \cup OnState(FILES[i])
              /\ \E c \in {"torn", new} : dst' = [dst EXCEPT ![Here].file[FILES[i]] = c]
  /\ UNCHANGED <<tmp, staged, unnamed, new, used>>

-----------------------------------------------------------------------------
Next ==
  \/ PowerUp \/ PowerCut \/ Mount \/ wait_for_state_mount
  \/ Seed \/ Stage \/ Rename \/ SyncDir
  \/ \E i \in DOMAIN FILES : Copy(i) \/ Fsync(i) \/ Write(i)
  \/ Load \/ Missing \/ Read

Spec == Init /\ [][Next]_vars

-----------------------------------------------------------------------------
(* A node with a whole PKI on its boot partition and nothing on STATE      *)
(* serves with that identity, wherever the power was cut in earlier boots  *)
(* and however the wait for STATE ended: what is seeded is never partial   *)
(* (imageboot.rs:104-108).  This takes that no earlier boot failed to seed *)
(* it, for an error or for a mount in between: the daemon goes on, makes   *)
(* an identity of its own, and that one stays.  A load that fails costs    *)
(* the API in its own boot only.                                           *)
BakedServed ==
  boot = File /\ kept = "none" /\ "seed" \notin mishap /\ pc \in End =>
    (pc = At("serving", 0) /\ ca = Baked) \/ (pc = At("disabled", 0) /\ "load" \in mishap)

(* No step of the daemon replaces a file of an identity on STATE, whole or *)
(* partial, whatever fails and whenever STATE is mounted: nothing is       *)
(* seeded over it or re-keyed (imageboot.rs:100-102, pki lib.rs:128-129:   *)
(* "silently re-keying over remnants would orphan previously-issued client *)
(* certs").  The one exception is a mount between the look at the          *)
(* directory below it and the writes that follow (pki lib.rs:182-185).     *)
NoRekey ==
  [][pc' # At("off", 0) /\ "write" \notin mishap =>
       \A f \in File : dst["state"].file[f] # "none" =>
         dst'["state"].file[f] = dst["state"].file[f]]_vars
=============================================================================
