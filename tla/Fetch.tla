-------------------------------- MODULE Fetch --------------------------------
(* The image builder's download cache (imager/src/fetch.rs): fetch_verified   *)
(* for one pinned artifact, run by one build after another or by builds that  *)
(* share the cache directory.                                                 *)
(*                                                                            *)
(* The cache holds two names, the entry (the pin) and the temporary file      *)
(* (".<pin>.tmp", the same for every build); a name leads to an inode, and a  *)
(* build writes through the file it opened whatever the names do meanwhile.   *)
(* Nothing is fsynced: a power cut may tear any file.                         *)
EXTENDS Naturals, FiniteSets

CONSTANTS
    Builds,      \* the builds that use the cache
    Shared,      \* TRUE: two builds may run at the same time
    MaxFaults    \* kills, power cuts and corruptions

FetchAssumption == IsFiniteSet(Builds) /\ MaxFaults \in Nat

VARIABLES
    at,       \* the next step of each build
    fd,       \* the file each build has open for writing
    tmp,      \* the inode of the temporary name, or 0
    cached,   \* the inode of the entry, or 0
    data,     \* what each inode holds
    got,      \* what each build's last fetch gave the extraction
    faults

vars == <<at, fd, tmp, cached, data, got, faults>>

Inodes == 1 .. Cardinality(Builds) + 2
Content == {"none", "good", "part", "torn", "rot"}
Places == {"idle", "check", "drop", "get", "open", "write", "rename", "use"}

TypeOK ==
    /\ at \in [Builds -> Places] /\ fd \in [Builds -> Inodes \cup {0}]
    /\ tmp \in Inodes \cup {0} /\ cached \in Inodes \cup {0}
    /\ (tmp # 0 => tmp # cached)
    /\ data \in [Inodes -> Content] /\ got \in [Builds -> Content]
    /\ faults \in 0 .. MaxFaults

Init ==
    /\ at = [b \in Builds |-> "idle"] /\ fd = [b \in Builds |-> 0]
    /\ tmp = 0 /\ cached = 0 /\ data = [n \in Inodes |-> "none"]
    /\ got = [b \in Builds |-> "none"] /\ faults = 0

Goto(b, here, there) == at[b] = here /\ at' = [at EXCEPT ![b] = there]

\* A build that reaches the artifact; a pin of the wrong form is refused.
Start(b) ==
    /\ Shared \/ \A o \in Builds : at[o] = "idle"
    /\ Goto(b, "idle", "check") /\ got' = [got EXCEPT ![b] = "none"]
    /\ UNCHANGED <<fd, tmp, cached, data, faults>>

\* Mutant: an entry that does not match is an error.
CheckRefuses(b) ==
    /\ Goto(b, "check", CASE cached = 0 -> "get"
                          [] cached # 0 /\ data[cached] = "good" -> "use"
                          [] OTHER -> "idle")
    /\ UNCHANGED <<fd, tmp, cached, data, got, faults>>

\* A hit is hashed again before it is trusted.
Check(b) ==
    /\ Goto(b, "check", CASE cached = 0 -> "get"
                          [] cached # 0 /\ data[cached] = "good" -> "use"
                          [] OTHER -> "drop")
    /\ UNCHANGED <<fd, tmp, cached, data, got, faults>>

\* The corrupt entry is removed by name, whatever the name leads to by now.
Drop(b) ==
    /\ Goto(b, "drop", IF cached = 0 THEN "idle" ELSE "get")
    /\ cached' = 0
    /\ UNCHANGED <<fd, tmp, data, got, faults>>

\* The server answers with the pinned bytes, or the build fails before it has
\* written anything.
Get(b) ==
    /\ Goto(b, "get", "open")
    /\ UNCHANGED <<fd, tmp, cached, data, got, faults>>

GetFails(b) ==
    /\ Goto(b, "get", "idle")
    /\ UNCHANGED <<fd, tmp, cached, data, got, faults>>

Free == {n \in Inodes : n \notin {tmp, cached} /\ \A b \in Builds : fd[b] # n}

\* The entry itself opened for writing, for the mutant.
OpenInPlace(b) ==
    /\ Goto(b, "open", "write")
    /\ \E n \in IF cached = 0 THEN Free ELSE {cached} :
         /\ (cached = 0 => \A o \in Free : n <= o)
         /\ cached' = n /\ fd' = [fd EXCEPT ![b] = n]
         /\ data' = [data EXCEPT ![n] = "part"]
    /\ UNCHANGED <<tmp, got, faults>>

\* std::fs::write opens the temporary name and truncates what is there ...
Open(b) ==
    /\ Goto(b, "open", "write")
    /\ \E n \in IF tmp = 0 THEN Free ELSE {tmp} :
         /\ (tmp = 0 => \A o \in Free : n <= o)
         /\ tmp' = n /\ fd' = [fd EXCEPT ![b] = n]
         /\ data' = [data EXCEPT ![n] = "part"]
    /\ UNCHANGED <<cached, got, faults>>

\* ... and writes through the file it has open.
Write(b) ==
    /\ Goto(b, "write", "rename")
    /\ data' = [data EXCEPT ![fd[b]] = "good"] /\ fd' = [fd EXCEPT ![b] = 0]
    /\ UNCHANGED <<tmp, cached, got, faults>>

\* The temporary name becomes the entry; without one the build fails.
Rename(b) ==
    /\ Goto(b, "rename", IF tmp = 0 THEN "idle" ELSE "use")
    /\ cached' = IF tmp = 0 THEN cached ELSE tmp
    /\ tmp' = 0
    /\ UNCHANGED <<fd, data, got, faults>>

\* The caller opens the path it was given and extracts what it finds.
Use(b) ==
    /\ Goto(b, "use", "idle")
    /\ got' = [got EXCEPT ![b] = IF cached = 0 THEN "none" ELSE data[cached]]
    /\ UNCHANGED <<fd, tmp, cached, data, faults>>

Fault == faults < MaxFaults /\ faults' = faults + 1

\* A build is killed.
Kill(b) ==
    /\ Fault /\ at[b] # "idle"
    /\ at' = [at EXCEPT ![b] = "idle"] /\ fd' = [fd EXCEPT ![b] = 0]
    /\ UNCHANGED <<tmp, cached, data, got>>

\* The host loses power: any file may be torn.
PowerCut ==
    /\ Fault
    /\ \E torn \in SUBSET {n \in Inodes : data[n] # "none"} :
         data' = [n \in Inodes |-> IF n \in torn THEN "torn" ELSE data[n]]
    /\ at' = [b \in Builds |-> "idle"] /\ fd' = [b \in Builds |-> 0]
    /\ UNCHANGED <<tmp, cached, got>>

\* The entry is damaged while no build runs.
Rot ==
    /\ Fault /\ cached # 0 /\ \A b \in Builds : at[b] = "idle"
    /\ data' = [data EXCEPT ![cached] = "rot"]
    /\ UNCHANGED <<at, fd, tmp, cached, got>>

Step(b) == Check(b) \/ Drop(b) \/ Open(b) \/ Write(b) \/ Rename(b) \/ Use(b)

Next ==
    \/ \E b \in Builds : Start(b) \/ Step(b) \/ Get(b) \/ GetFails(b) \/ Kill(b)
    \/ PowerCut \/ Rot

Spec == Init /\ [][Next]_vars

\* A build goes on while it runs, the operator builds again, and the server
\* that is asked again and again answers at some time.
LiveSpec ==
    Spec /\ \A b \in Builds : WF_vars(Step(b)) /\ SF_vars(Start(b)) /\ SF_vars(Get(b))
         /\ WF_vars(\E o \in Builds : GetFails(o))

-----------------------------------------------------------------------------
\* What fetch_verified hands out is the pinned artifact ("a path to the
\* verified artifact"), whatever happened to the cache before.
UsedIsPinned == \A b \in Builds : got[b] \in {"none", "good"}

\* "Write-then-rename so a crash never leaves a half-written 'verified' file":
\* the entry is never a file somebody is still writing or stopped writing.
CachedIsWhole == cached # 0 => data[cached] # "part"

\* No state of the cache is a dead end ("a stale or poisoned entry is silently
\* discarded and re-downloaded"): builds go on getting the artifact.
EveryBuildFetches == \A b \in Builds : []<>(at[b] = "use")
=============================================================================
