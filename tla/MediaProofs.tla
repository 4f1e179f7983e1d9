---------------------------- MODULE MediaProofs -----------------------------
(***************************************************************************)
(* Proofs about Fetch, for any number of builds and of faults, and about   *)
(* Modules, for any finite set of modules, any modules.dep over it and any *)
(* list of roots.                                                          *)
(***************************************************************************)
EXTENDS Media, SequenceTheorems, FiniteSetTheorems, TLAPS

(* The provers get more time than by default, not every machine is fast.   *)
USE SMTT(30), ZenonT(20)

-----------------------------------------------------------------------------
(***************************************************************************)
(* The download cache.  Only the build that runs has a file open, the      *)
(* temporary one; what it renames it has written to the end, and what it   *)
(* uses it has hashed or written itself.                                   *)
(***************************************************************************)

OneBuild == \A a, b \in Builds : f_at[a] # "idle" /\ f_at[b] # "idle" => a = b

Writes ==
  \A b \in Builds :
    /\ f_at[b] = "write" => f_tmp # 0 /\ f_fd[b] = f_tmp
    /\ f_at[b] # "write" => f_fd[b] = 0

Written == \A b \in Builds : f_at[b] = "rename" => f_tmp # 0 /\ f_data[f_tmp] = "good"

Hashed == \A b \in Builds : f_at[b] = "use" => f_cached # 0 /\ f_data[f_cached] = "good"

FetchInv == UsedIsPinned /\ OneBuild /\ Writes /\ Written /\ Hashed

LEMMA FetchInit == F!Init => FetchInv
BY MediaAssumption
   DEF F!Init, FetchInv, UsedIsPinned, F!TypeOK, F!UsedIsPinned, F!CachedIsWhole,
       OneBuild, Writes, Written, Hashed, F!Inodes, F!Content, F!Places,
       F!FetchAssumption

(* No file has number 0.                                                   *)
LEMMA NoInodeZero == 0 \notin F!Inodes
BY DEF F!Inodes

(* Every step of a build other than Open and Write leaves the data alone.  *)
LEMMA StartKeeps ==
  ASSUME FetchInv, NEW b \in Builds, F!Start(b) PROVE FetchInv'
BY DEF FetchInv, UsedIsPinned, F!TypeOK, F!UsedIsPinned, F!CachedIsWhole, OneBuild,
       Writes, Written, Hashed, F!Start, F!Goto, F!Content, F!Places

LEMMA CheckKeeps ==
  ASSUME FetchInv, NEW b \in Builds, F!Check(b) PROVE FetchInv'
<1>1. PICK there \in {"get", "use", "drop"} :
        /\ there = "use" => f_cached # 0 /\ f_data[f_cached] = "good"
        /\ F!Goto(b, "check", there)
  BY Zenon DEF F!Check, F!Goto
<1> QED
  BY <1>1 DEF FetchInv, UsedIsPinned, F!TypeOK, F!UsedIsPinned, F!CachedIsWhole,
       OneBuild, Writes, Written, Hashed, F!Check, F!Goto, F!Places

LEMMA DropKeeps ==
  ASSUME FetchInv, NEW b \in Builds, F!Drop(b) PROVE FetchInv'
BY DEF FetchInv, UsedIsPinned, F!TypeOK, F!UsedIsPinned, F!CachedIsWhole, OneBuild,
       Writes, Written, Hashed, F!Drop, F!Goto, F!Places

LEMMA GetKeeps ==
  ASSUME FetchInv, NEW b \in Builds, F!Get(b) \/ F!GetFails(b) PROVE FetchInv'
BY DEF FetchInv, UsedIsPinned, F!TypeOK, F!UsedIsPinned, F!CachedIsWhole, OneBuild,
       Writes, Written, Hashed, F!Get, F!GetFails, F!Goto, F!Places

LEMMA OpenKeeps ==
  ASSUME FetchInv, NEW b \in Builds, F!Open(b) PROVE FetchInv'
<1>1. PICK n \in F!Inodes :
        /\ n # f_cached
        /\ f_tmp' = n /\ f_fd' = [f_fd EXCEPT ![b] = n]
        /\ f_data' = [f_data EXCEPT ![n] = "part"]
  BY Zenon DEF F!Open, F!Free, FetchInv, UsedIsPinned, F!TypeOK
<1>2. \A a \in Builds : a # b => f_at[a] = "idle"
  BY Zenon DEF FetchInv, OneBuild, F!Open, F!Goto
<1>3. n # 0
  BY Zenon, NoInodeZero
<1> QED
  BY <1>1, <1>2, <1>3
     DEF FetchInv, UsedIsPinned, F!TypeOK, F!UsedIsPinned, F!CachedIsWhole, OneBuild,
         Writes, Written, Hashed, F!Open, F!Goto, F!Places, F!Content

LEMMA WriteKeeps ==
  ASSUME FetchInv, NEW b \in Builds, F!Write(b) PROVE FetchInv'
<1>1. f_fd[b] = f_tmp /\ f_tmp # 0 /\ f_tmp \in F!Inodes /\ f_tmp # f_cached
  BY Zenon DEF FetchInv, Writes, F!Write, F!Goto, UsedIsPinned, F!TypeOK
<1>2. f_data' = [f_data EXCEPT ![f_tmp] = "good"]
  BY Zenon, <1>1 DEF F!Write
<1>3. \A a \in Builds : a # b => f_at[a] = "idle"
  BY Zenon DEF FetchInv, OneBuild, F!Write, F!Goto
<1> QED
  BY <1>1, <1>2, <1>3
     DEF FetchInv, UsedIsPinned, F!TypeOK, F!UsedIsPinned, F!CachedIsWhole, OneBuild,
         Writes, Written, Hashed, F!Write, F!Goto, F!Places, F!Content

LEMMA RenameKeeps ==
  ASSUME FetchInv, NEW b \in Builds, F!Rename(b) PROVE FetchInv'
<1>1. f_tmp # 0 /\ f_data[f_tmp] = "good"
  BY Zenon DEF FetchInv, Written, F!Rename, F!Goto
<1>2. \A a \in Builds : a # b => f_at[a] = "idle"
  BY Zenon DEF FetchInv, OneBuild, F!Rename, F!Goto
<1> QED
  BY <1>1, <1>2
     DEF FetchInv, UsedIsPinned, F!TypeOK, F!UsedIsPinned, F!CachedIsWhole, OneBuild,
         Writes, Written, Hashed, F!Rename, F!Goto, F!Places

LEMMA UseKeeps ==
  ASSUME FetchInv, NEW b \in Builds, F!Use(b) PROVE FetchInv'
<1>1. f_cached # 0 /\ f_data[f_cached] = "good"
  BY Zenon DEF FetchInv, Hashed, F!Use, F!Goto
<1> QED
  BY <1>1
     DEF FetchInv, UsedIsPinned, F!TypeOK, F!UsedIsPinned, F!CachedIsWhole, OneBuild,
         Writes, Written, Hashed, F!Use, F!Goto, F!Places, F!Content

LEMMA KillKeeps ==
  ASSUME FetchInv, NEW b \in Builds, F!Kill(b) PROVE FetchInv'
<1>1. f_faults' \in 0 .. MaxFaults
  BY MediaAssumption DEF F!Kill, F!Fault, F!FetchAssumption, FetchInv, UsedIsPinned, F!TypeOK
<1> QED
  BY <1>1
     DEF FetchInv, UsedIsPinned, F!TypeOK, F!UsedIsPinned, F!CachedIsWhole, OneBuild,
         Writes, Written, Hashed, F!Kill, F!Places

LEMMA PowerCutKeeps ==
  ASSUME FetchInv, F!PowerCut PROVE FetchInv'
<1>1. f_faults' \in 0 .. MaxFaults
  BY MediaAssumption DEF F!PowerCut, F!Fault, F!FetchAssumption, FetchInv, UsedIsPinned, F!TypeOK
<1>2. PICK torn \in SUBSET F!Inodes :
        f_data' = [n \in F!Inodes |-> IF n \in torn THEN "torn" ELSE f_data[n]]
  BY Zenon DEF F!PowerCut
<1>3. f_data' \in [F!Inodes -> F!Content]
  BY Zenon, <1>2 DEF FetchInv, UsedIsPinned, F!TypeOK, F!Content
<1> QED
  BY Zenon, <1>1, <1>2, <1>3
     DEF FetchInv, UsedIsPinned, F!TypeOK, F!UsedIsPinned, F!CachedIsWhole, OneBuild,
         Writes, Written, Hashed, F!PowerCut, F!Places

LEMMA RotKeeps ==
  ASSUME FetchInv, F!Rot PROVE FetchInv'
<1>1. f_faults' \in 0 .. MaxFaults
  BY MediaAssumption DEF F!Rot, F!Fault, F!FetchAssumption, FetchInv, UsedIsPinned, F!TypeOK
<1> QED
  BY <1>1
     DEF FetchInv, UsedIsPinned, F!TypeOK, F!UsedIsPinned, F!CachedIsWhole, OneBuild,
         Writes, Written, Hashed, F!Rot, F!Content

LEMMA FetchStep == FetchInv /\ [F!Next]_(F!vars) => FetchInv'
<1> SUFFICES ASSUME FetchInv, [F!Next]_(F!vars) PROVE FetchInv'
  BY Zenon
<1>1. CASE UNCHANGED F!vars
  BY <1>1 DEF F!vars, FetchInv, UsedIsPinned, F!TypeOK, F!UsedIsPinned,
              F!CachedIsWhole, OneBuild, Writes, Written, Hashed
<1>2. CASE F!Next
  BY <1>2, StartKeeps, CheckKeeps, DropKeeps, GetKeeps, OpenKeeps, WriteKeeps,
     RenameKeeps, UseKeeps, KillKeeps, PowerCutKeeps, RotKeeps DEF F!Next, F!Step
<1> QED BY Zenon, <1>1, <1>2

(* fetch_verified hands out the pinned artifact and nothing else, and the  *)
(* entry of the cache is never a file somebody is still writing: for any   *)
(* number of builds, one at a time, cut off anywhere, with power cuts and  *)
(* damage to the cache in between.                                         *)
THEOREM FetchesThePinned == F!Spec => []UsedIsPinned
<1>1. FetchInv => UsedIsPinned
  BY Zenon DEF FetchInv
<1> QED BY FetchInit, FetchStep, <1>1, PTL DEF F!Spec

-----------------------------------------------------------------------------
(***************************************************************************)
(* The kernel modules.  What visit has seen is what is listed and what is  *)
(* on the stack; each call on the stack is for something the calls below   *)
(* it need, so a dependency that is still on the stack when its dependent  *)
(* is listed closes a cycle.                                               *)
(***************************************************************************)

Frame == [m : All, n : Nat \ {0}]
Stacked == {m_stack[i].m : i \in 1..Len(m_stack)}
Listed == {m_out[i] : i \in 1..Len(m_out)}
ListedBefore(n) == {m_out[i] : i \in 1..(n - 1)}
Wanted == UNION {M!Needs(r) : r \in M!Range(m_roots)}
Fine(m) == M!Needs(m) \cap m_bad = {}

ModTyped ==
  /\ m_deps \in Tables /\ m_roots \in Seq(All) /\ m_bad \in SUBSET All
  /\ m_phase \in {"resolve", "error", "boot", "done"} /\ m_k \in Nat \ {0}
  /\ m_stack \in Seq(Frame) /\ m_out \in Seq(All)

StackOnce == \A i, j \in 1..Len(m_stack) : m_stack[i].m = m_stack[j].m => i = j

OutOnce == \A i, j \in 1..Len(m_out) : m_out[i] = m_out[j] => i = j

Split == m_seen = Listed \cup Stacked /\ Listed \cap Stacked = {}

Visited ==
  \A i \in 1..Len(m_stack) : \A d \in 1..Len(M!Deps(m_stack[i].m)) :
    d < m_stack[i].n => M!Deps(m_stack[i].m)[d] \in m_seen

Chain ==
  \A i, j \in 1..Len(m_stack) : i <= j => m_stack[j].m \in M!Needs(m_stack[i].m)

Ordered ==
  M!Acyclic =>
    \A n \in 1..Len(m_out) : M!Range(M!Deps(m_out[n])) \subseteq ListedBefore(n)

Needed == m_seen \subseteq Wanted

Walks ==
  m_phase = "resolve" =>
    /\ m_files = All /\ m_loaded = {}
    /\ \A i \in 1..Len(m_roots) : i < m_k => m_roots[i] \in m_seen

Boots ==
  m_phase \in {"boot", "done"} =>
    /\ m_stack = <<>> /\ m_files = Listed /\ M!Range(m_roots) \subseteq Listed
    /\ M!Acyclic => m_loaded = {x \in ListedBefore(m_k) : Fine(x)}
    /\ m_k <= Len(m_out) + 1
    /\ m_phase = "done" => m_k = Len(m_out) + 1

ModInv ==
  /\ ModTyped /\ StackOnce /\ OutOnce /\ Split /\ Visited /\ Chain /\ Ordered
  /\ Needed /\ Walks /\ Boots

(* What a module depends on is a list of modules.                          *)
LEMMA DepsTyped ==
  ASSUME m_deps \in Tables, NEW m PROVE M!Deps(m) \in Seq(All)
BY MediaAssumption DEF M!Deps, M!ModulesAssumption

(* The range of a sequence.                                                *)
LEMMA RangeIs ==
  ASSUME NEW S, NEW s \in Seq(S)
  PROVE  M!Range(s) = {s[i] : i \in 1..Len(s)} /\ M!Range(s) \subseteq S
BY DEF M!Range

(* What a module needs: the least closed set with the module in it.        *)
LEMMA NeedsSelf ==
  ASSUME NEW m \in All PROVE m \in M!Needs(m)
BY Zenon DEF M!Needs

LEMMA NeedsTyped == \A m : M!Needs(m) \subseteq All
BY Zenon DEF M!Needs

LEMMA NeedsClosed ==
  ASSUME m_deps \in Tables, NEW m, NEW x \in M!Needs(m)
  PROVE  M!Range(M!Deps(x)) \subseteq M!Needs(m)
<1> SUFFICES ASSUME NEW y \in M!Range(M!Deps(x)) PROVE y \in M!Needs(m)
  BY Zenon
<1>1. y \in All
  BY DepsTyped, RangeIs
<1>2. ASSUME NEW C \in SUBSET All, m \in C, \A z \in C : M!Range(M!Deps(z)) \subseteq C
      PROVE  y \in C
  BY Zenon, <1>2 DEF M!Needs
<1> QED BY Zenon, <1>1, <1>2 DEF M!Needs

LEMMA NeedsLeast ==
  ASSUME NEW C \in SUBSET All, NEW m \in C,
         \A y \in C : M!Range(M!Deps(y)) \subseteq C
  PROVE  M!Needs(m) \subseteq C
BY Zenon DEF M!Needs

LEMMA NeedsTransitive ==
  ASSUME m_deps \in Tables, NEW m, NEW x \in M!Needs(m)
  PROVE  M!Needs(x) \subseteq M!Needs(m)
BY NeedsClosed, NeedsLeast, NeedsTyped

(* A module needs itself and what its dependencies need.                   *)
LEMMA NeedsUnfold ==
  ASSUME m_deps \in Tables, NEW m \in All
  PROVE  M!Needs(m) \subseteq {m} \cup UNION {M!Needs(d) : d \in M!Range(M!Deps(m))}
<1> DEFINE C == {m} \cup UNION {M!Needs(d) : d \in M!Range(M!Deps(m))}
<1>1. C \in SUBSET All
  BY Zenon, NeedsTyped
<1>2. ASSUME NEW y \in C PROVE M!Range(M!Deps(y)) \subseteq C
  <2>1. CASE y = m
    <3>1. M!Range(M!Deps(m)) \subseteq All
      BY DepsTyped, RangeIs
    <3>2. \A d \in M!Range(M!Deps(m)) : d \in M!Needs(d)
      BY Zenon, <3>1, NeedsSelf
    <3> QED BY <2>1, <3>2
  <2>2. CASE y # m
    <3>1. PICK d \in M!Range(M!Deps(m)) : y \in M!Needs(d)
      BY Zenon, <2>2
    <3> QED BY Zenon, <3>1, NeedsClosed
  <2> QED BY <2>1, <2>2
<1> HIDE DEF C
<1>3. m \in C
  BY Zenon DEF C
<1>4. M!Needs(m) \subseteq C
  BY <1>1, <1>2, <1>3, NeedsLeast
<1> QED BY Zenon, <1>4 DEF C

(* Without cycles nothing needs what depends on it.                        *)
LEMMA NoCycle ==
  ASSUME m_deps \in Tables, M!Acyclic, NEW m, NEW d \in M!Range(M!Deps(m))
  PROVE  m \notin M!Needs(d)
<1>1. CASE m \in DOMAIN m_deps
  BY Zenon, <1>1 DEF M!Acyclic, M!Deps
<1>2. CASE m \notin DOMAIN m_deps
  BY <1>2 DEF M!Deps, M!Range
<1> QED BY Zenon, <1>1, <1>2

(* The tables stay as they are, and so does what modules need.             *)
LEMMA InputsStay ==
  ASSUME m_deps' = m_deps, m_roots' = m_roots, m_bad' = m_bad
  PROVE  /\ \A m : M!Deps(m)' = M!Deps(m)
         /\ \A m : M!Needs(m)' = M!Needs(m)
         /\ M!Acyclic' = M!Acyclic
         /\ Wanted' = Wanted
         /\ \A m : Fine(m)' = Fine(m)
BY DEF M!Deps, M!Needs, M!Acyclic, Wanted, Fine

(* Modules counts as everyone does.                                        *)
LEMMA SameCounting ==
  /\ \A S : M!Cardinality(S) = Cardinality(S)
  /\ \A S : M!IsFiniteSet(S) <=> IsFiniteSet(S)
BY Zenon DEF M!Cardinality, M!IsFiniteSet, Cardinality, IsFiniteSet

(* The stack holds each module at most once, so it has room for one that   *)
(* is not on it.                                                           *)
LEMMA HasRoom ==
  ASSUME NEW s \in Seq(Frame), NEW m \in All,
         \A i, j \in 1..Len(s) : s[i].m = s[j].m => i = j,
         \A i \in 1..Len(s) : s[i].m # m
  PROVE  Len(s) # MaxDepth
<1> SUFFICES ASSUME Len(s) = MaxDepth PROVE FALSE
  BY Zenon
<1> DEFINE S == 1..(MaxDepth + 1)
           f == [i \in S |-> IF i <= MaxDepth THEN s[i].m ELSE m]
<1>1. MaxDepth \in Nat /\ IsFiniteSet(All) /\ Cardinality(All) <= MaxDepth
  BY Zenon, MediaAssumption, SameCounting DEF M!ModulesAssumption
<1>2. IsFiniteSet(S) /\ Cardinality(S) = MaxDepth + 1
  <2>1. 1 \in Int /\ MaxDepth + 1 \in Int /\ ~(1 > MaxDepth + 1)
        /\ (MaxDepth + 1) - 1 + 1 = MaxDepth + 1
    BY <1>1
  <2> QED BY Zenon, <2>1, FS_Interval
<1>3. Cardinality(All) < Cardinality(S)
  BY <1>1, <1>2, FS_CardinalityType
<1>4. f \in [S -> All]
  <2>1. ASSUME NEW i \in S, i <= MaxDepth PROVE s[i].m \in All
    <3>1. i \in 1..Len(s)
      BY <1>1, <2>1
    <3>2. s[i] \in Frame
      BY <3>1
    <3> QED BY Zenon, <3>2 DEF Frame
  <2> QED BY Zenon, <2>1
<1>5. \A x, y \in S : f[x] = f[y] => x = y
  BY <1>1
<1> HIDE DEF S, f
<1> QED BY <1>1, <1>2, <1>3, <1>4, <1>5, FS_PigeonHole

(* A call of visit for something that everything on the stack needs: the   *)
(* loops of the calls below are past it once it is seen.                   *)
LEMMA EnterKeeps ==
  ASSUME ModInv, m_phase = "resolve", NEW m \in All, NEW s \in Seq(Frame),
         Len(s) = Len(m_stack),
         \A i \in 1..Len(s) : s[i].m = m_stack[i].m,
         \A i \in 1..Len(s) : \A d \in 1..Len(M!Deps(s[i].m)) :
           d < s[i].n => M!Deps(s[i].m)[d] \in m_seen \cup {m},
         \A i \in 1..Len(s) : m \in M!Needs(s[i].m),
         m \in Wanted, m_k' \in Nat \ {0},
         \A i \in 1..Len(m_roots) : i < m_k' => m_roots[i] \in m_seen \cup {m},
         M!Enter(m, s),
         UNCHANGED <<m_deps, m_roots, m_bad, m_out, m_files, m_loaded>>
  PROVE  ModInv'
<1>1. /\ \A x : M!Deps(x)' = M!Deps(x)
      /\ \A x : M!Needs(x)' = M!Needs(x)
      /\ M!Acyclic' = M!Acyclic /\ Wanted' = Wanted
  BY Zenon, InputsStay
<1>2. Listed' = Listed /\ \A n : ListedBefore(n)' = ListedBefore(n)
  BY Zenon DEF Listed, ListedBefore
<1>3. OutOnce'
  BY Zenon DEF ModInv, OutOnce
<1>4. Ordered'
  <2>1. \A x : M!Range(M!Deps(x))' = M!Range(M!Deps(x))
    BY Zenon, <1>1 DEF M!Range
  <2> QED BY Zenon, <1>1, <1>2, <2>1 DEF ModInv, Ordered
<1>5. CASE m \in m_seen
  <2>1. m_stack' = s /\ m_seen' = m_seen /\ m_phase' = m_phase
    BY Zenon, <1>5 DEF M!Enter
  <2>2. ModTyped'
    BY Zenon, <2>1 DEF ModInv, ModTyped
  <2>3. StackOnce'
    BY Zenon, <2>1 DEF ModInv, StackOnce
  <2>4. Stacked' = Stacked
    BY Zenon, <2>1 DEF Stacked
  <2>5. Split'
    BY Zenon, <1>2, <2>1, <2>4 DEF ModInv, Split
  <2>6. Visited'
    BY Zenon, <1>1, <1>5, <2>1 DEF Visited
  <2>7. Chain'
    BY Zenon, <1>1, <2>1 DEF ModInv, Chain
  <2>8. Needed' /\ Walks'
    BY ZenonT(30), <1>1, <1>5, <2>1 DEF ModInv, Needed, Walks
  <2>9. Boots'
    BY <2>1 DEF Boots
  <2> QED BY ZenonT(30), <1>3, <1>4, <2>2, <2>3, <2>5, <2>6, <2>7, <2>8, <2>9 DEF ModInv
<1>6. CASE m \notin m_seen
  <2> DEFINE N == Len(m_stack)
  <2>1. \A i \in 1..N : m_stack[i].m \in m_seen
    BY Zenon DEF ModInv, Split, Stacked
  <2>2. Len(s) # MaxDepth
    <3>1. \A i \in 1..Len(s) : s[i].m # m
      BY Zenon, <1>6, <2>1
    <3>2. \A i, j \in 1..Len(s) : s[i].m = s[j].m => i = j
      BY Zenon DEF ModInv, StackOnce
    <3> QED BY ZenonT(30), <3>1, <3>2, HasRoom
  <2>3. /\ m_stack' = Append(s, [m |-> m, n |-> 1])
        /\ m_seen' = m_seen \cup {m} /\ m_phase' = m_phase
    BY ZenonT(30), <1>6, <2>2 DEF M!Enter
  <2>4. N \in Nat
    BY DEF ModInv, ModTyped
  <2>5. /\ m_stack' \in Seq(Frame) /\ Len(m_stack') = N + 1
        /\ \A i \in 1..N : m_stack'[i] = s[i]
        /\ m_stack'[N + 1] = [m |-> m, n |-> 1]
    BY <2>3 DEF Frame
  <2>6. /\ \A i \in 1..N : m_stack'[i].m = m_stack[i].m
        /\ m_stack'[N + 1].m = m /\ m_stack'[N + 1].n = 1
    BY <2>5
  <2>7. \A i \in 1..(N + 1) : i \in 1..N \/ i = N + 1
    BY <2>4
  <2>7a. 1..N \subseteq 1..(N + 1) /\ N + 1 \in 1..(N + 1)
    BY <2>4
  <2> HIDE DEF N
  <2>8. ModTyped'
    BY Zenon, <2>3, <2>5 DEF ModInv, ModTyped
  <2>9. StackOnce'
    <3> SUFFICES ASSUME NEW i \in 1..(N + 1), NEW j \in 1..(N + 1),
                        m_stack'[i].m = m_stack'[j].m
                 PROVE  i = j
      BY Zenon, <2>5 DEF StackOnce
    <3>1. \A a, b \in 1..N : m_stack[a].m = m_stack[b].m => a = b
      BY Zenon DEF ModInv, StackOnce, N
    <3>2. CASE i \in 1..N /\ j \in 1..N
      BY Zenon, <2>6, <3>1, <3>2
    <3>3. CASE i = N + 1 /\ j \in 1..N
      BY ZenonT(30), <1>6, <2>1, <2>6, <3>3
    <3>4. CASE i \in 1..N /\ j = N + 1
      BY Zenon, <1>6, <2>1, <2>6, <3>4
    <3> QED BY ZenonT(30), <2>7, <3>2, <3>3, <3>4
  <2>10. Stacked' = Stacked \cup {m}
    <3>1. Stacked' = {m_stack'[i].m : i \in 1..(N + 1)}
      BY Zenon, <2>5 DEF Stacked
    <3>2. Stacked = {m_stack[i].m : i \in 1..N}
      BY Zenon DEF Stacked, N
    <3>3. Stacked' \subseteq Stacked \cup {m}
      BY Zenon, <2>6, <2>7, <3>1, <3>2
    <3>4. Stacked \cup {m} \subseteq Stacked'
      BY ZenonT(30), <2>6, <2>7a, <3>1, <3>2
    <3> QED BY Zenon, <3>3, <3>4
  <2>11. Split'
    BY Zenon, <1>2, <1>6, <2>3, <2>10 DEF ModInv, Split
  <2>12. Visited'
    <3> SUFFICES ASSUME NEW i \in 1..(N + 1), NEW d \in 1..Len(M!Deps(m_stack'[i].m)),
                        d < m_stack'[i].n
                 PROVE  M!Deps(m_stack'[i].m)[d] \in m_seen'
      BY Zenon, <1>1, <2>5 DEF Visited
    <3>1. CASE i \in 1..N
      BY ZenonT(30), <2>3, <2>5, <3>1 DEF N
    <3>2. CASE i = N + 1
      <4>1. d \in Nat \ {0} /\ d < 1
        BY <2>6, <3>2
      <4> QED BY <4>1
    <3> QED BY ZenonT(30), <2>7, <3>1, <3>2
  <2>13. Chain'
    <3> SUFFICES ASSUME NEW i \in 1..(N + 1), NEW j \in 1..(N + 1), i <= j
                 PROVE  m_stack'[j].m \in M!Needs(m_stack'[i].m)
      BY Zenon, <1>1, <2>5 DEF Chain
    <3>1. CASE j = N + 1
      <4>1. CASE i = N + 1
        BY Zenon, <2>6, <3>1, <4>1, NeedsSelf
      <4>2. CASE i \in 1..N
        BY Zenon, <2>6, <3>1, <4>2 DEF N
      <4> QED BY Zenon, <2>7, <4>1, <4>2
    <3>2. CASE j \in 1..N
      <4>1. i \in 1..N
        BY <2>4, <3>2
      <4> QED BY ZenonT(30), <2>6, <3>2, <4>1 DEF ModInv, Chain, N
    <3> QED BY Zenon, <2>7, <3>1, <3>2
  <2>14. Needed' /\ Walks'
    BY Zenon, <1>1, <2>3 DEF ModInv, Needed, Walks
  <2>15. Boots'
    BY Zenon, <2>3 DEF Boots
  <2> QED
    BY ZenonT(30), <1>3, <1>4, <2>8, <2>9, <2>11, <2>12, <2>13, <2>14, <2>15 DEF ModInv
<1> QED BY Zenon, <1>5, <1>6

(* What is said of the walk stays while it rests.                          *)
LEMMA WalkStays ==
  ASSUME ModInv, UNCHANGED <<m_deps, m_roots, m_bad, m_stack, m_seen, m_out>>
  PROVE  /\ StackOnce' /\ OutOnce' /\ Split' /\ Visited' /\ Chain' /\ Ordered' /\ Needed'
         /\ Listed' = Listed /\ \A n : ListedBefore(n)' = ListedBefore(n)
<1>1. /\ \A x : M!Deps(x)' = M!Deps(x)
      /\ \A x : M!Needs(x)' = M!Needs(x)
      /\ M!Acyclic' = M!Acyclic /\ Wanted' = Wanted
  BY Zenon, InputsStay
<1>2. \A x : M!Range(M!Deps(x))' = M!Range(M!Deps(x))
  BY Zenon, <1>1 DEF M!Range
<1>3. Listed' = Listed /\ Stacked' = Stacked /\ \A n : ListedBefore(n)' = ListedBefore(n)
  BY Zenon DEF Listed, Stacked, ListedBefore
<1>4. StackOnce' /\ OutOnce' /\ Split' /\ Needed'
  BY Zenon, <1>1, <1>3 DEF ModInv, StackOnce, OutOnce, Split, Needed
<1>5. Visited' /\ Chain'
  BY Zenon, <1>1 DEF ModInv, Visited, Chain
<1>6. Ordered'
  BY Zenon, <1>1, <1>2, <1>3 DEF ModInv, Ordered
<1> QED BY Zenon, <1>3, <1>4, <1>5, <1>6

LEMMA RootKeeps == ASSUME ModInv, M!Root PROVE ModInv'
<1>1. /\ m_phase = "resolve" /\ m_stack = <<>> /\ m_k <= Len(m_roots) /\ m_k' = m_k + 1
      /\ UNCHANGED <<m_deps, m_roots, m_bad, m_out, m_files, m_loaded>>
  BY Zenon DEF M!Root, M!inputs
<1>2. m_roots \in Seq(All) /\ m_k \in Nat \ {0}
  BY Zenon DEF ModInv, ModTyped
<1>3. m_k \in 1..Len(m_roots) /\ m_k' \in Nat \ {0}
  BY <1>1, <1>2
<1>4. CASE m_roots[m_k] \in DOMAIN m_deps
  <2>1. PICK m : m = m_roots[m_k]
    BY Zenon
  <2>2. m \in All
    BY <1>2, <1>3, <2>1
  <2>3. m \in Wanted
    <3>1. m \in M!Range(m_roots)
      BY <1>2, <1>3, <2>1, RangeIs
    <3> QED BY ZenonT(30), <2>2, <3>1, NeedsSelf DEF Wanted
  <2>4. M!Enter(m, <<>>)
    BY Zenon, <1>4, <2>1 DEF M!Root
  <2>5. \A i \in 1..Len(m_roots) : i < m_k' => m_roots[i] \in m_seen \cup {m}
    <3> SUFFICES ASSUME NEW i \in 1..Len(m_roots), i < m_k'
                 PROVE  m_roots[i] \in m_seen \cup {m}
      BY Zenon
    <3>1. i < m_k \/ i = m_k
      BY <1>1, <1>2
    <3> QED BY Zenon, <1>1, <2>1, <3>1 DEF ModInv, Walks
  <2>6. /\ <<>> \in Seq(Frame) /\ Len(<<>>) = Len(m_stack)
        /\ \A i \in 1..Len(<<>>) : FALSE
    BY <1>1
  <2> QED BY ZenonT(30), <1>1, <1>3, <2>2, <2>3, <2>4, <2>5, <2>6, EnterKeeps
<1>5. CASE m_roots[m_k] \notin DOMAIN m_deps
  <2>1. m_phase' = "error" /\ UNCHANGED <<m_stack, m_seen>>
    BY Zenon, <1>5 DEF M!Root
  <2>2. ModTyped'
    BY Zenon, <1>1, <1>3, <2>1 DEF ModInv, ModTyped
  <2>3. Walks' /\ Boots'
    BY Zenon, <2>1 DEF Walks, Boots
  <2> QED BY ZenonT(30), <1>1, <2>1, <2>2, <2>3, WalkStays DEF ModInv
<1> QED BY Zenon, <1>4, <1>5

(* A sequence without its last element.                                    *)
LEMMA FrontIs ==
  ASSUME NEW S, NEW s \in Seq(S), s # <<>>
  PROVE  /\ SubSeq(s, 1, Len(s) - 1) \in Seq(S)
         /\ Len(SubSeq(s, 1, Len(s) - 1)) = Len(s) - 1
         /\ \A i \in 1..(Len(s) - 1) : SubSeq(s, 1, Len(s) - 1)[i] = s[i]
<1> DEFINE n == Len(s) - 1
           f == SubSeq(s, 1, n)
<1>1. n \in Nat /\ \A i \in 1..n : s[i] \in S
  OBVIOUS
<1> HIDE DEF n
<1>2. 1 \in Int /\ n \in Int /\ n - 1 + 1 = n
      /\ (IF 1 <= n THEN n ELSE 0) = n /\ \A i \in 1..n : 1 + i - 1 = i
  BY <1>1
<1>3. /\ f \in Seq(S) /\ Len(f) = (IF 1 <= n THEN n - 1 + 1 ELSE 0)
      /\ \A i \in 1..(n - 1 + 1) : f[i] = s[1 + i - 1]
  BY <1>1, <1>2, SubSeqProperties
<1>4. Len(f) = n /\ \A i \in 1..n : f[i] = s[i]
  BY Zenon, <1>2, <1>3
<1> QED BY Zenon, <1>3, <1>4 DEF n

(* The innermost call.                                                     *)
LEMMA TopIs ==
  ASSUME ModInv, m_stack # <<>>
  PROVE  /\ Len(m_stack) \in 1..Len(m_stack) /\ Len(m_stack) \in Nat \ {0}
         /\ M!Top = m_stack[Len(m_stack)] /\ M!Top \in Frame
         /\ M!Top.m \in All /\ M!Top.n \in Nat \ {0} /\ M!Top.m \in Stacked
         /\ M!Below \in Seq(Frame) /\ Len(M!Below) = Len(m_stack) - 1
         /\ \A i \in 1..(Len(m_stack) - 1) : M!Below[i] = m_stack[i]
<1>1. m_stack \in Seq(Frame)
  BY Zenon DEF ModInv, ModTyped
<1>2. Len(m_stack) \in 1..Len(m_stack) /\ Len(m_stack) \in Nat \ {0}
  BY <1>1
<1>3. M!Top = m_stack[Len(m_stack)]
  BY Zenon DEF M!Top
<1>4. M!Top \in Frame
  BY <1>1, <1>2, <1>3
<1>5. M!Top.m \in All /\ M!Top.n \in Nat \ {0}
  BY Zenon, <1>4 DEF Frame
<1>6. M!Top.m \in Stacked
  BY Zenon, <1>2, <1>3 DEF Stacked
<1>7. /\ M!Below \in Seq(Frame) /\ Len(M!Below) = Len(m_stack) - 1
      /\ \A i \in 1..(Len(m_stack) - 1) : M!Below[i] = m_stack[i]
  BY Zenon, <1>1, FrontIs DEF M!Below
<1> QED BY ZenonT(30), <1>2, <1>3, <1>4, <1>5, <1>6, <1>7

LEMMA DescendKeeps == ASSUME ModInv, M!Descend PROVE ModInv'
<1> DEFINE N == Len(m_stack)
           t == m_stack[N].m
           s0 == Append(M!Below, [M!Top EXCEPT !.n = @ + 1])
<1>1. /\ m_phase = "resolve" /\ m_stack # <<>> /\ m_k' = m_k
      /\ M!Top.n <= Len(M!Deps(M!Top.m))
      /\ M!Enter(M!Deps(M!Top.m)[M!Top.n], s0)
      /\ UNCHANGED <<m_deps, m_roots, m_bad, m_out, m_files, m_loaded>>
  BY Zenon DEF M!Descend, M!inputs
<1>2. /\ N \in 1..N /\ N \in Nat \ {0} /\ M!Top = m_stack[N] /\ M!Top \in Frame
      /\ t \in All /\ M!Top.n \in Nat \ {0} /\ t \in Stacked
      /\ M!Below \in Seq(Frame) /\ Len(M!Below) = N - 1
      /\ \A i \in 1..(N - 1) : M!Below[i] = m_stack[i]
  BY Zenon, <1>1, TopIs
<1>3. m_deps \in Tables /\ m_k \in Nat \ {0} /\ m_stack \in Seq(Frame)
  BY Zenon DEF ModInv, ModTyped
<1>4. PICK m : m = M!Deps(t)[M!Top.n]
  BY Zenon
<1>5. m \in M!Range(M!Deps(t)) /\ m \in All
  <2>1. M!Deps(t) \in Seq(All)
    BY Zenon, <1>3, DepsTyped
  <2>2. M!Top.n \in 1..Len(M!Deps(t))
    BY <1>1, <1>2, <2>1
  <2> QED BY <1>4, <2>1, <2>2, RangeIs
<1>6. [M!Top EXCEPT !.n = @ + 1] \in Frame
  BY <1>2 DEF Frame
<1>7. PICK s \in Seq(Frame) : s = s0
  BY Zenon, <1>2, <1>6, AppendProperties
<1>8. /\ Len(s) = N /\ \A i \in 1..(N - 1) : s[i] = m_stack[i]
      /\ s[N] = [M!Top EXCEPT !.n = @ + 1]
  BY <1>2, <1>6, <1>7
<1>9. s[N].m = t /\ s[N].n = M!Top.n + 1
  BY Zenon, <1>2, <1>8 DEF Frame
<1>10. \A i \in 1..N : i \in 1..(N - 1) \/ i = N
  BY <1>2
<1> HIDE DEF N, s0, t
<1>11. \A i \in 1..Len(s) : s[i].m = m_stack[i].m
  BY Zenon, <1>8, <1>9, <1>10 DEF t
<1>12. \A i \in 1..Len(s) : m \in M!Needs(s[i].m)
  <2>1. \A i \in 1..N : i <= N
    BY <1>2
  <2>2. \A i \in 1..N : t \in M!Needs(m_stack[i].m)
    BY Zenon, <1>2, <2>1 DEF ModInv, Chain, N, t
  <2> QED BY ZenonT(30), <1>3, <1>5, <1>8, <1>11, <2>2, NeedsClosed
<1>13. m \in Wanted
  <2>1. t \in Wanted
    BY Zenon, <1>2 DEF ModInv, Split, Needed
  <2>2. PICK r \in M!Range(m_roots) : t \in M!Needs(r)
    BY Zenon, <2>1 DEF Wanted
  <2>3. m \in M!Needs(r)
    BY ZenonT(30), <1>3, <1>5, <2>2, NeedsClosed
  <2> QED BY Zenon, <2>3 DEF Wanted
<1>14. ASSUME NEW i \in 1..Len(s), NEW d \in 1..Len(M!Deps(s[i].m)), d < s[i].n
       PROVE  M!Deps(s[i].m)[d] \in m_seen \cup {m}
  <2>1. \A j \in 1..N : \A e \in 1..Len(M!Deps(m_stack[j].m)) :
          e < m_stack[j].n => M!Deps(m_stack[j].m)[e] \in m_seen
    BY Zenon DEF ModInv, Visited, N
  <2>2. CASE i \in 1..(N - 1)
    BY ZenonT(30), <1>8, <1>14, <2>1, <2>2
  <2>3. CASE i = N
    <3>1. d < M!Top.n \/ d = M!Top.n
      BY <1>2, <1>9, <1>14, <2>3
    <3> QED BY ZenonT(30), <1>2, <1>4, <1>9, <1>14, <2>1, <2>3, <3>1 DEF t
  <2> QED BY ZenonT(30), <1>8, <1>10, <2>2, <2>3
<1>15. \A i \in 1..Len(m_roots) : i < m_k' => m_roots[i] \in m_seen \cup {m}
  BY Zenon, <1>1 DEF ModInv, Walks
<1>16. M!Enter(m, s) /\ Len(s) = Len(m_stack) /\ m_k' \in Nat \ {0}
  BY ZenonT(30), <1>1, <1>2, <1>3, <1>4, <1>7, <1>8 DEF N, t
<1> QED
  BY ZenonT(30), <1>1, <1>5, <1>11, <1>12, <1>13, <1>14, <1>15, <1>16, EnterKeeps

LEMMA PushKeeps == ASSUME ModInv, M!Push PROVE ModInv'
<1> DEFINE N == Len(m_stack)
           L == Len(m_out)
           t == m_stack[N].m
<1>1. /\ m_phase = "resolve" /\ m_stack # <<>> /\ M!Top.n > Len(M!Deps(M!Top.m))
      /\ m_out' = Append(m_out, M!Top.m) /\ m_stack' = M!Below
      /\ UNCHANGED <<m_deps, m_roots, m_bad, m_phase, m_k, m_seen, m_files, m_loaded>>
  BY Zenon DEF M!Push, M!inputs
<1>2. /\ N \in 1..N /\ N \in Nat \ {0} /\ M!Top = m_stack[N]
      /\ t \in All /\ M!Top.n \in Nat \ {0} /\ t \in Stacked
      /\ m_stack' \in Seq(Frame) /\ Len(m_stack') = N - 1
      /\ \A i \in 1..(N - 1) : m_stack'[i] = m_stack[i]
  BY Zenon, <1>1, TopIs
<1>3. m_deps \in Tables /\ m_out \in Seq(All)
  BY Zenon DEF ModInv, ModTyped
<1>4. m_out' = Append(m_out, t)
  BY ZenonT(30), <1>1, <1>2
<1>5. /\ L \in Nat /\ m_out' \in Seq(All) /\ Len(m_out') = L + 1
      /\ \A i \in 1..L : m_out'[i] = m_out[i]
      /\ m_out'[L + 1] = t
  BY <1>2, <1>3, <1>4
<1>6. /\ \A x : M!Deps(x)' = M!Deps(x)
      /\ \A x : M!Needs(x)' = M!Needs(x)
      /\ M!Acyclic' = M!Acyclic /\ Wanted' = Wanted
  BY Zenon, <1>1, InputsStay
<1>7. /\ \A i \in 1..(L + 1) : i \in 1..L \/ i = L + 1
      /\ 1..L \subseteq 1..(L + 1) /\ L + 1 \in 1..(L + 1)
  BY <1>5
<1>8. /\ 1..(N - 1) \subseteq 1..N
      /\ \A i \in 1..N : i = N \/ i \in 1..(N - 1)
      /\ \A i \in 1..(N - 1) : i # N
      /\ \A i \in 1..N : i <= N
  BY <1>2
<1>9. t \notin Listed
  BY Zenon, <1>2 DEF ModInv, Split
<1>10. M!Top.n > Len(M!Deps(t))
  BY Zenon, <1>1, <1>2
<1> HIDE DEF N, L, t
<1>11. ModTyped'
  BY ZenonT(30), <1>1, <1>2, <1>5 DEF ModInv, ModTyped
<1>12. StackOnce'
  BY Zenon, <1>2, <1>8 DEF ModInv, StackOnce, N
<1>13. Listed' = Listed \cup {t}
  <2>1. Listed' = {m_out'[i] : i \in 1..(L + 1)} /\ Listed = {m_out[i] : i \in 1..L}
    BY Zenon, <1>5 DEF Listed, L
  <2>2. Listed' \subseteq Listed \cup {t}
    BY ZenonT(30), <1>5, <1>7, <2>1
  <2>3. Listed \cup {t} \subseteq Listed'
    BY <1>5, <1>7, <2>1
  <2> QED BY ZenonT(30), <2>2, <2>3
<1>14. Stacked' = Stacked \ {t}
  <2>1. /\ Stacked' = {m_stack[i].m : i \in 1..(N - 1)}
        /\ Stacked = {m_stack[i].m : i \in 1..N}
    BY Zenon, <1>2 DEF Stacked, N
  <2>2. \A i \in 1..(N - 1) : m_stack[i].m # t
    BY Zenon, <1>2, <1>8 DEF ModInv, StackOnce, N, t
  <2> QED BY ZenonT(30), <1>8, <2>1, <2>2 DEF t
<1>15. Split'
  BY ZenonT(30), <1>1, <1>2, <1>9, <1>13, <1>14 DEF ModInv, Split
<1>16. OutOnce'
  <2> SUFFICES ASSUME NEW i \in 1..(L + 1), NEW j \in 1..(L + 1), m_out'[i] = m_out'[j]
               PROVE  i = j
    BY Zenon, <1>5 DEF OutOnce
  <2>1. \A a, b \in 1..L : m_out[a] = m_out[b] => a = b
    BY Zenon DEF ModInv, OutOnce, L
  <2>2. \A a \in 1..L : m_out[a] # t
    BY Zenon, <1>9 DEF Listed, L
  <2> QED BY ZenonT(30), <1>5, <1>7, <2>1, <2>2
<1>17. Visited' /\ Chain'
  BY ZenonT(30), <1>1, <1>2, <1>6, <1>8 DEF ModInv, Visited, Chain, N
(* A dependency that is not listed yet is on the stack, below t or t       *)
(* itself, and needs t.                                                    *)
<1>18. M!Acyclic => M!Range(M!Deps(t)) \subseteq Listed
  <2> SUFFICES ASSUME M!Acyclic, NEW x \in M!Range(M!Deps(t)) PROVE x \in Listed
    BY Zenon
  <2>1. M!Deps(t) \in Seq(All)
    BY Zenon, <1>3, DepsTyped
  <2>2. PICK d \in 1..Len(M!Deps(t)) : x = M!Deps(t)[d]
    BY <2>1, RangeIs
  <2>3. d < M!Top.n
    BY <1>2, <1>10, <2>1
  <2>4. x \in m_seen
    BY ZenonT(30), <1>2, <2>2, <2>3 DEF ModInv, Visited, N, t
  <2>5. ASSUME x \in Stacked PROVE FALSE
    <3>1. PICK i \in 1..N : x = m_stack[i].m
      BY Zenon, <2>5 DEF Stacked, N
    <3>2. t \in M!Needs(x)
      BY ZenonT(30), <1>2, <1>8, <3>1 DEF ModInv, Chain, N, t
    <3> QED BY ZenonT(30), <1>3, <3>2, NoCycle
  <2> QED BY Zenon, <2>4, <2>5 DEF ModInv, Split
<1>19. Ordered'
  <2>1. \A x : M!Range(M!Deps(x))' = M!Range(M!Deps(x))
    BY Zenon, <1>6 DEF M!Range
  <2>2. \A n \in 1..(L + 1) : 1..(n - 1) \subseteq 1..L
    BY <1>5
  <2>3. \A n \in 1..(L + 1) : ListedBefore(n)' = ListedBefore(n)
    BY Zenon, <1>5, <2>2 DEF ListedBefore
  <2>4. ListedBefore(L + 1) = Listed
    <3>1. (L + 1) - 1 = L
      BY <1>5
    <3> QED BY Zenon, <3>1 DEF ListedBefore, Listed, L
  <2> SUFFICES ASSUME M!Acyclic, NEW n \in 1..(L + 1)
               PROVE  M!Range(M!Deps(m_out'[n])) \subseteq ListedBefore(n)
    BY ZenonT(30), <1>5, <1>6, <2>1, <2>3 DEF Ordered
  <2>5. CASE n \in 1..L
    BY Zenon, <1>5, <2>5 DEF ModInv, Ordered, L
  <2>6. CASE n = L + 1
    BY ZenonT(30), <1>5, <1>18, <2>4, <2>6
  <2> QED BY ZenonT(30), <1>7, <2>5, <2>6
<1>20. Needed' /\ Walks'
  BY Zenon, <1>1, <1>6 DEF ModInv, Needed, Walks
<1>21. Boots'
  BY Zenon, <1>1 DEF Boots
<1> QED
  BY ZenonT(30), <1>11, <1>12, <1>15, <1>16, <1>17, <1>19, <1>20, <1>21 DEF ModInv

LEMMA PruneKeeps == ASSUME ModInv, M!prune_for_initramfs PROVE ModInv'
<1>1. /\ m_phase = "resolve" /\ m_stack = <<>> /\ m_k > Len(m_roots)
      /\ m_files' = m_files \cap M!Range(m_out) /\ m_phase' = "boot" /\ m_k' = 1
      /\ UNCHANGED <<m_deps, m_roots, m_bad, m_stack, m_seen, m_out, m_loaded>>
  BY Zenon DEF M!prune_for_initramfs, M!inputs
<1>2. m_roots \in Seq(All) /\ m_out \in Seq(All) /\ m_k \in Nat
  BY Zenon DEF ModInv, ModTyped
<1>3. Listed = M!Range(m_out) /\ Listed \subseteq All
  BY Zenon, <1>2, RangeIs DEF Listed
<1>4. m_files = All /\ m_loaded = {}
  BY Zenon, <1>1 DEF ModInv, Walks
<1>5. m_files' = Listed /\ m_loaded' = {}
  BY Zenon, <1>1, <1>3, <1>4
<1>6. m_seen = Listed
  <2>1. Stacked = {}
    BY <1>1 DEF Stacked
  <2> QED BY Zenon, <2>1 DEF ModInv, Split
<1>7. M!Range(m_roots) \subseteq Listed
  <2>1. \A i \in 1..Len(m_roots) : i < m_k
    BY <1>1, <1>2
  <2>2. \A i \in 1..Len(m_roots) : m_roots[i] \in Listed
    BY ZenonT(30), <1>1, <1>6, <2>1 DEF ModInv, Walks
  <2>3. M!Range(m_roots) = {m_roots[i] : i \in 1..Len(m_roots)}
    BY Zenon, <1>2, RangeIs
  <2> QED BY Zenon, <2>2, <2>3
<1>8. Listed' = Listed
  BY ZenonT(30), <1>1, WalkStays
<1>9. {x \in ListedBefore(m_k) : Fine(x)}' = {}
  BY <1>1 DEF ListedBefore
<1>10. /\ m_k' <= Len(m_out) + 1 /\ m_k' \in Nat \ {0}
  BY <1>1, <1>2
<1>11. Boots'
  <2>1. M!Range(m_roots)' = M!Range(m_roots) /\ m_phase' # "done"
    BY Zenon, <1>1 DEF M!Range
  <2> QED BY ZenonT(30), <1>1, <1>5, <1>7, <1>8, <1>9, <1>10, <2>1 DEF Boots
<1>12. Walks'
  BY Zenon, <1>1 DEF Walks
<1>13. ModTyped'
  BY Zenon, <1>1, <1>10 DEF ModInv, ModTyped
<1> QED BY ZenonT(30), <1>1, <1>11, <1>12, <1>13, WalkStays DEF ModInv

(* The kernel takes the next module of the list exactly when it accepts    *)
(* all that module needs: the lines before have seen to the dependencies.  *)
LEMMA InsertsFine ==
  ASSUME ModInv, m_phase = "boot", M!Acyclic, m_k \in 1..Len(m_out)
  PROVE  M!Inserts(m_out[m_k]) <=> Fine(m_out[m_k])
<1> DEFINE m == m_out[m_k]
<1>1. m_deps \in Tables /\ m_out \in Seq(All)
  BY Zenon DEF ModInv, ModTyped
<1>2. m \in All
  BY <1>1
<1>3. m \in Listed /\ m_files = Listed /\ m_loaded = {x \in ListedBefore(m_k) : Fine(x)}
  BY Zenon DEF ModInv, Boots, Listed
<1>4. M!Range(M!Deps(m)) \subseteq ListedBefore(m_k)
  BY Zenon DEF ModInv, Ordered
<1> HIDE DEF m
<1>5. M!Range(M!Deps(m)) \subseteq M!Needs(m) /\ m \in M!Needs(m)
  BY ZenonT(30), <1>1, <1>2, NeedsSelf, NeedsClosed
<1>6. ASSUME Fine(m) PROVE M!Inserts(m)
  <2>1. \A d \in M!Range(M!Deps(m)) : Fine(d)
    BY ZenonT(30), <1>1, <1>5, <1>6, NeedsTransitive DEF Fine
  <2> QED BY ZenonT(30), <1>3, <1>4, <1>5, <1>6, <2>1 DEF M!Inserts, Fine
<1>7. ASSUME M!Inserts(m) PROVE Fine(m)
  <2>1. \A d \in M!Range(M!Deps(m)) : Fine(d)
    BY ZenonT(30), <1>3, <1>7 DEF M!Inserts
  <2>2. m \notin m_bad
    BY Zenon, <1>7 DEF M!Inserts
  <2>3. M!Needs(m) \subseteq {m} \cup UNION {M!Needs(d) : d \in M!Range(M!Deps(m))}
    BY ZenonT(30), <1>1, <1>2, NeedsUnfold
  <2> QED BY ZenonT(30), <2>1, <2>2, <2>3 DEF Fine
<1> QED BY Zenon, <1>6, <1>7 DEF m

LEMMA LoadKeeps == ASSUME ModInv, M!load_module PROVE ModInv'
<1>1. /\ m_phase = "boot" /\ m_k <= Len(m_out) /\ m_k' = m_k + 1
      /\ m_loaded' = IF M!Inserts(m_out[m_k]) THEN m_loaded \cup {m_out[m_k]} ELSE m_loaded
      /\ UNCHANGED <<m_deps, m_roots, m_bad, m_phase, m_stack, m_seen, m_out, m_files>>
  BY Zenon DEF M!load_module, M!inputs
<1>2. m_out \in Seq(All) /\ m_k \in Nat \ {0}
  BY Zenon DEF ModInv, ModTyped
<1>3. /\ m_k \in 1..Len(m_out) /\ m_k' \in Nat \ {0} /\ m_k' <= Len(m_out) + 1
      /\ m_k' - 1 = m_k
      /\ \A i \in 1..m_k : i \in 1..(m_k - 1) \/ i = m_k
      /\ 1..(m_k - 1) \subseteq 1..m_k /\ m_k \in 1..m_k
  BY <1>1, <1>2
<1>4. /\ \A x : M!Needs(x)' = M!Needs(x)
      /\ M!Acyclic' = M!Acyclic /\ \A x : Fine(x)' = Fine(x)
  BY Zenon, <1>1, InputsStay
<1>5. Listed' = Listed
  BY ZenonT(30), <1>1, WalkStays
<1>6. ListedBefore(m_k)' = ListedBefore(m_k) \cup {m_out[m_k]}
  <2>1. /\ ListedBefore(m_k)' = {m_out[i] : i \in 1..m_k}
        /\ ListedBefore(m_k) = {m_out[i] : i \in 1..(m_k - 1)}
    BY Zenon, <1>1, <1>3 DEF ListedBefore
  <2> QED BY Zenon, <1>3, <2>1
<1>7. M!Acyclic => m_loaded' = {x \in ListedBefore(m_k)' : Fine(x)}
  BY ZenonT(30), <1>1, <1>3, <1>6, InsertsFine DEF ModInv, Boots
<1>8. Boots'
  <2>1. M!Range(m_roots)' = M!Range(m_roots) /\ m_phase' # "done" /\ m_phase \in {"boot", "done"}
    BY Zenon, <1>1 DEF M!Range
  <2>2. {x \in ListedBefore(m_k) : Fine(x)}' = {x \in ListedBefore(m_k)' : Fine(x)}
    BY Zenon, <1>4
  <2> QED BY ZenonT(30), <1>1, <1>3, <1>4, <1>5, <1>7, <2>1, <2>2 DEF ModInv, Boots
<1>9. Walks'
  BY Zenon, <1>1 DEF Walks
<1>10. ModTyped'
  BY Zenon, <1>1, <1>3 DEF ModInv, ModTyped
<1> QED BY ZenonT(30), <1>1, <1>8, <1>9, <1>10, WalkStays DEF ModInv

LEMMA DoneKeeps == ASSUME ModInv, M!load_modules PROVE ModInv'
<1>1. /\ m_phase = "boot" /\ m_k > Len(m_out) /\ m_phase' = "done"
      /\ UNCHANGED <<m_deps, m_roots, m_bad, m_k, m_stack, m_seen, m_out, m_files, m_loaded>>
  BY Zenon DEF M!load_modules, M!inputs
<1>2. m_out \in Seq(All) /\ m_k \in Nat \ {0} /\ m_k <= Len(m_out) + 1
  BY Zenon, <1>1 DEF ModInv, ModTyped, Boots
<1>3. m_k = Len(m_out) + 1
  BY <1>1, <1>2
<1>4. /\ M!Acyclic' = M!Acyclic /\ \A x : Fine(x)' = Fine(x)
      /\ Listed' = Listed /\ \A n : ListedBefore(n)' = ListedBefore(n)
  BY ZenonT(30), <1>1, InputsStay, WalkStays
<1>5. {x \in ListedBefore(m_k) : Fine(x)}' = {x \in ListedBefore(m_k) : Fine(x)}
  BY Zenon, <1>1, <1>4 DEF ListedBefore
<1>6. M!Range(m_roots)' = M!Range(m_roots)
  BY Zenon, <1>1 DEF M!Range
<1>7. Boots'
  BY ZenonT(30), <1>1, <1>2, <1>3, <1>4, <1>5, <1>6 DEF ModInv, Boots
<1>8. Walks'
  BY Zenon, <1>1 DEF Walks
<1>9. ModTyped'
  BY Zenon, <1>1 DEF ModInv, ModTyped
<1> QED BY ZenonT(30), <1>1, <1>7, <1>8, <1>9, WalkStays DEF ModInv

LEMMA ModInit == M!Init => ModInv
<1> SUFFICES ASSUME M!Init PROVE ModInv
  BY Zenon
<1>1. /\ m_phase = "resolve" /\ m_k = 1 /\ m_stack = <<>> /\ m_seen = {}
      /\ m_out = <<>> /\ m_files = All /\ m_loaded = {}
  BY Zenon DEF M!Init
<1>2. ModTyped
  BY <1>1, MediaAssumption DEF M!Init, ModTyped, M!ModulesAssumption
<1>3. Listed = {} /\ Stacked = {}
  BY <1>1 DEF Listed, Stacked
<1>4. Split /\ Needed
  BY Zenon, <1>1, <1>3 DEF Split, Needed
<1>5. StackOnce /\ OutOnce /\ Visited /\ Chain /\ Ordered
  BY <1>1 DEF StackOnce, OutOnce, Visited, Chain, Ordered
<1>6. Walks /\ Boots
  BY <1>1 DEF Walks, Boots
<1> QED BY ZenonT(30), <1>2, <1>4, <1>5, <1>6 DEF ModInv

LEMMA ModStep == ModInv /\ [M!Next]_(M!vars) => ModInv'
<1> SUFFICES ASSUME ModInv, [M!Next]_(M!vars) PROVE ModInv'
  BY Zenon
<1>1. CASE UNCHANGED M!vars
  <2>1. UNCHANGED <<m_deps, m_roots, m_bad, m_phase, m_k, m_stack, m_seen, m_out,
                    m_files, m_loaded>>
    BY Zenon, <1>1 DEF M!vars
  <2>2. /\ M!Acyclic' = M!Acyclic /\ \A x : Fine(x)' = Fine(x)
        /\ Listed' = Listed /\ \A n : ListedBefore(n)' = ListedBefore(n)
    BY Zenon, <2>1, InputsStay, WalkStays
  <2>3. {x \in ListedBefore(m_k) : Fine(x)}' = {x \in ListedBefore(m_k) : Fine(x)}
    BY Zenon, <2>1, <2>2 DEF ListedBefore
  <2>4. M!Range(m_roots)' = M!Range(m_roots)
    BY Zenon, <2>1 DEF M!Range
  <2>5. Boots'
    BY ZenonT(30), <2>1, <2>2, <2>3, <2>4 DEF ModInv, Boots
  <2>6. ModTyped' /\ Walks'
    BY Zenon, <2>1 DEF ModInv, ModTyped, Walks
  <2> QED BY ZenonT(30), <2>1, <2>5, <2>6, WalkStays DEF ModInv
<1>2. CASE M!Next
  BY ZenonT(30), <1>2, RootKeeps, DescendKeeps, PushKeeps, PruneKeeps, LoadKeeps, DoneKeeps
     DEF M!Next
<1> QED BY Zenon, <1>1, <1>2

(* Listed once, each after its dependencies.                               *)
LEMMA ListedInOrder == ModInv => M!DependenciesFirst
<1> SUFFICES ASSUME ModInv PROVE M!DependenciesFirst
  BY Zenon
<1>1. m_out \in Seq(All) /\ DOMAIN m_out = 1..Len(m_out)
  BY DEF ModInv, ModTyped
<1>2. M!IsInjective(m_out)
  BY Zenon, <1>1 DEF ModInv, OutOnce, M!IsInjective
<1>3. ASSUME NEW n \in 1..Len(m_out)
      PROVE  M!Range(SubSeq(m_out, 1, n - 1)) = ListedBefore(n)
  <2> DEFINE l == n - 1
             f == SubSeq(m_out, 1, l)
  <2>1. l \in Nat /\ \A i \in 1..l : m_out[i] \in All
    BY <1>1
  <2> HIDE DEF l
  <2>2. 1 \in Int /\ l \in Int /\ l - 1 + 1 = l
        /\ (IF 1 <= l THEN l ELSE 0) = l /\ \A i \in 1..l : 1 + i - 1 = i
    BY <2>1
  <2>3. /\ f \in Seq(All) /\ Len(f) = (IF 1 <= l THEN l - 1 + 1 ELSE 0)
        /\ \A i \in 1..(l - 1 + 1) : f[i] = m_out[1 + i - 1]
    BY <2>1, <2>2, SubSeqProperties
  <2>4. Len(f) = l /\ \A i \in 1..l : f[i] = m_out[i]
    BY Zenon, <2>2, <2>3
  <2>5. M!Range(f) = {f[i] : i \in 1..Len(f)}
    BY ZenonT(30), <2>3, RangeIs
  <2> HIDE DEF f
  <2>6. M!Range(f) = {m_out[i] : i \in 1..l}
    BY Zenon, <2>4, <2>5
  <2> QED BY Zenon, <2>6 DEF ListedBefore, f, l
<1> QED BY Zenon, <1>1, <1>2, <1>3 DEF ModInv, Ordered, M!DependenciesFirst

(* What is listed in the end is what the roots need.                       *)
LEMMA LoadsIt == ModInv => M!LoadsAllItCan
<1> SUFFICES ASSUME ModInv, m_phase = "done", M!Acyclic
             PROVE  m_loaded = {m \in Wanted : Fine(m)}
  BY Zenon DEF M!LoadsAllItCan, Wanted, Fine
<1>1. m_deps \in Tables /\ m_out \in Seq(All)
  BY Zenon DEF ModInv, ModTyped
<1>2. /\ m_stack = <<>> /\ M!Range(m_roots) \subseteq Listed
      /\ m_loaded = {x \in ListedBefore(m_k) : Fine(x)} /\ m_k = Len(m_out) + 1
  BY Zenon DEF ModInv, Boots
<1>3. ListedBefore(m_k) = Listed
  <2>1. m_k - 1 = Len(m_out)
    BY <1>1, <1>2
  <2> QED BY Zenon, <2>1 DEF ListedBefore, Listed
<1>4. Listed \subseteq Wanted
  BY Zenon DEF ModInv, Split, Needed
<1>5. Wanted \subseteq Listed
  <2>1. Listed \subseteq All
    BY ZenonT(30), <1>1, RangeIs DEF Listed
  <2>2. ASSUME NEW y \in Listed PROVE M!Range(M!Deps(y)) \subseteq Listed
    <3>1. PICK n \in 1..Len(m_out) : y = m_out[n]
      BY Zenon DEF Listed
    <3>2. 1..(n - 1) \subseteq 1..Len(m_out)
      BY <1>1
    <3>3. ListedBefore(n) \subseteq Listed
      BY Zenon, <3>2 DEF ListedBefore, Listed
    <3> QED BY ZenonT(30), <3>1, <3>3 DEF ModInv, Ordered
  <2>3. \A r \in M!Range(m_roots) : M!Needs(r) \subseteq Listed
    BY ZenonT(30), <1>2, <2>1, <2>2, NeedsLeast
  <2> QED BY Zenon, <2>3 DEF Wanted
<1> QED BY ZenonT(30), <1>2, <1>3, <1>4, <1>5

(* resolve_closure never recurses deeper than there are modules, lists     *)
(* each one once and after its dependencies, and load_modules, which knows *)
(* nothing of dependencies, then loads all that the kernel accepts with    *)
(* everything it needs: for every modules.dep and every list of roots.     *)
THEOREM ModulesAlwaysLoad == M!Spec => []ModulesLoad
<1>1. ModInv => M!NeverTooDeep
  BY Zenon DEF ModInv, ModTyped, M!NeverTooDeep
<1>2. ModInv => ModulesLoad
  BY Zenon, <1>1, ListedInOrder, LoadsIt DEF ModulesLoad
<1> QED BY ModInit, ModStep, <1>2, PTL DEF M!Spec
=============================================================================
