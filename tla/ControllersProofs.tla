------------------------- MODULE ControllersProofs --------------------------
(***************************************************************************)
(* Proofs about the controllers that face the world outside the store, for *)
(* any values of their constants: the network's statuses, the pods'        *)
(* reports and the clock.  Each part has an inductive invariant of its     *)
(* own, under the condition that the behaviour is about it.                *)
(***************************************************************************)
EXTENDS MCControllers, SequenceTheorems, TLAPS

(* The provers get more time than by default, not every machine is fast.   *)
USE SMTT(30), ZenonT(20)

-----------------------------------------------------------------------------
(* Network: what is published is in force.                                 *)

LEMMA TypesAre ==
  Types = {"LinkSpec", "AddressSpec", "RouteSpec", "HostnameSpec", "ResolverSpec"}
<1>1. DOMAIN spec_types = 1..5
  BY DEF spec_types
<1>2. /\ spec_types[1] = "LinkSpec" /\ spec_types[2] = "AddressSpec"
      /\ spec_types[3] = "RouteSpec" /\ spec_types[4] = "HostnameSpec"
      /\ spec_types[5] = "ResolverSpec"
  BY Zenon DEF spec_types
<1>3. Types = {spec_types[x] : x \in 1..5}
  BY Zenon, <1>1 DEF Types, Range
<1>4. 1..5 = {1, 2, 3, 4, 5}
  OBVIOUS
<1> QED BY <1>2, <1>3, <1>4

LEMMA SpecTypes ==
  /\ Len(spec_types) = 5 /\ \A n \in 1..5 : spec_types[n] \in Types
  /\ Head(spec_types) \in Types
<1>1. Len(spec_types) = 5 /\ Head(spec_types) = spec_types[1] /\ DOMAIN spec_types = 1..5
  BY DEF spec_types
<1>2. \A n \in 1..5 : spec_types[n] \in Types
  BY Zenon, <1>1 DEF Types, Range
<1> QED BY <1>1, <1>2

LEMMA AppliesAre ==
  /\ Applies("link") = "LinkSpec" /\ Applies("address") = "AddressSpec"
  /\ Applies("route") = "RouteSpec"
  BY Zenon DEF Applies

(* What the desired specs of each type look like, and that an id names one *)
(* of them.                                                                *)
LEMMA DesiredSpecs ==
  ASSUME config \in Configs
  PROVE  /\ \A s \in desired["LinkSpec"] : s.id = s.link /\ s.up \in BOOLEAN
         /\ \A s \in desired["AddressSpec"] : from_str(s.address)
         /\ \A t \in Types : \A s, o \in desired[t] : s.id = o.id => s = o
<1> DEFINE net == Range(config.interfaces)
<1>1. /\ desired["LinkSpec"] = {LinkSpec(i) : i \in net} \cup Loopback(net)
      /\ desired["AddressSpec"] = UNION {AddressSpecs(i) : i \in net}
  BY Zenon, TypesAre DEF desired, Desired
<1>2. \A s \in desired["LinkSpec"] : s.id = s.link /\ s.up \in BOOLEAN
  <2>1. \A i \in net : i.up \in BOOLEAN
    BY Zenon, ControllersAssumption DEF NetworkAssumption
  <2>2. \A s \in Loopback(net) : s.id = s.link /\ s.up = TRUE
    BY DEF Loopback
  <2> HIDE DEF net
  <2>3. \A i \in net : LinkSpec(i).id = LinkSpec(i).link /\ LinkSpec(i).up = i.up
    BY Zenon DEF LinkSpec
  <2>4. ASSUME NEW s \in desired["LinkSpec"] PROVE s.id = s.link /\ s.up \in BOOLEAN
    <3>1. CASE s \in Loopback(net)
      BY Zenon, <2>2, <3>1
    <3>2. CASE \E i \in net : s = LinkSpec(i)
      BY Zenon, <2>1, <2>3, <3>2
    <3> QED BY Zenon, <1>1, <3>1, <3>2
  <2> QED BY Zenon, <2>4
<1>3. \A s \in desired["AddressSpec"] : from_str(s.address)
  BY <1>1 DEF AddressSpecs
<1>4. \A t \in Types : \A s, o \in desired[t] : s.id = o.id => s = o
  BY Zenon, ControllersAssumption DEF NetworkAssumption, desired
<1> QED BY Zenon, <1>2, <1>3, <1>4

(* A spec that the store holds, as it holds it.                            *)
InStore(t, s) == s \in desired[t] /\ s.id \in DOMAIN specs[t] /\ specs[t][s.id] = s

Stored ==
  /\ config \in Configs /\ specs = [t \in Types |-> specs[t]]
  /\ \A t \in Types : \A i \in DOMAIN specs[t] : specs[t][i].id = i /\ InStore(t, specs[t][i])

(* A finalizer stands on a stored spec, a status on a finalizer.           *)
Owned ==
  /\ held = [t \in Types |-> held[t]] /\ status = [t \in Types |-> status[t]]
  /\ \A t \in Types : status[t] \subseteq held[t] /\ held[t] \subseteq DOMAIN specs[t]
  /\ \A t \in Types \ {"LinkSpec", "AddressSpec", "RouteSpec"} : status[t] = {}

(* What a reconcile has in hand is in the store.                           *)
Reconciling ==
  /\ wake \subseteq Controllers
  /\ at = [c \in Controllers |-> at[c]] /\ todo = [c \in Controllers |-> todo[c]]
  /\ cur = [c \in Controllers |-> cur[c]]
  /\ at["network-config"] \in Types \cup {"idle"}
  /\ \A c \in Finalizing :
       /\ at[c] \in {"idle", "each", "apply"}
       /\ \A s \in todo[c] : InStore(Applies(c), s)
       /\ at[c] = "apply" => InStore(Applies(c), cur[c]) /\ cur[c].id \in held[Applies(c)]

(* The kernel has routes on links that are up only.                        *)
Kernel ==
  /\ up \subseteq Nics /\ \A r \in fib : r.link \in up
  /\ \A a \in addrs : a[1] \in Nics /\ from_str(a[2])

NetInv == Stored /\ Owned /\ Reconciling /\ Kernel /\ StatusTrue

LEMMA NetInit == ASSUME Init PROVE NetInv
<1>1. Stored /\ Owned
  BY DEF Init, Stored, Owned, InStore
<1>2. Reconciling
  BY Zenon DEF Init, Reconciling, Controllers, Finalizing
<1>3. Kernel /\ StatusTrue
  BY Zenon, ControllersAssumption DEF Init, Kernel, StatusTrue, NetworkAssumption
<1> QED BY Zenon, <1>1, <1>2, <1>3 DEF NetInv

LEMMA NetTypes == ASSUME NetInv PROVE TypeOK
<1>1. \A t \in Types : DOMAIN specs[t] \subseteq Ids(t)
  BY Zenon DEF NetInv, Stored, InStore, Ids
<1> QED BY Zenon, <1>1 DEF NetInv, Owned, Reconciling, Kernel, TypeOK

(* The config controller changes nothing that is stored.                   *)
LEMMA Written ==
  ASSUME NetInv, NEW n \in 1..Len(spec_types), reconcile_owned(n)
  PROVE  NetInv'
<1> DEFINE t == spec_types[n]
<1>1. t \in Types /\ config \in Configs /\ Len(spec_types) = 5
  BY Zenon, SpecTypes DEF NetInv, Stored
<1>4. /\ at["network-config"] = t /\ wake' \subseteq Controllers
      /\ UNCHANGED <<config, held, status, cur, kernel>>
  BY Zenon DEF reconcile_owned, NetInv, Reconciling, Watchers
<1>0. \A i \in DOMAIN specs[t] : specs[t][i] \in desired[t] /\ specs[t][i].id = i
  BY Zenon, <1>1 DEF NetInv, Stored, InStore
<1>2. PICK objs :
        /\ specs' = [specs EXCEPT ![t] = objs]
        /\ \A i \in DOMAIN objs : objs[i] \in desired[t] /\ objs[i].id = i
        /\ \A i \in DOMAIN specs[t] : i \in DOMAIN objs /\ objs[i] = specs[t][i]
  <2>1. ASSUME NEW s \in desired[t],
               specs' = [specs EXCEPT ![t] = [i \in DOMAIN @ \cup {s.id} |->
                                              IF i = s.id THEN s ELSE @[i]]]
        PROVE  \E objs :
                 /\ specs' = [specs EXCEPT ![t] = objs]
                 /\ \A i \in DOMAIN objs : objs[i] \in desired[t] /\ objs[i].id = i
                 /\ \A i \in DOMAIN specs[t] : i \in DOMAIN objs /\ objs[i] = specs[t][i]
    <3> DEFINE objs == [i \in DOMAIN specs[t] \cup {s.id} |-> IF i = s.id THEN s ELSE specs[t][i]]
    <3>1. specs' = [specs EXCEPT ![t] = objs]
      BY Zenon, <2>1
    <3>2. \A i \in DOMAIN objs : objs[i] \in desired[t] /\ objs[i].id = i
      BY Zenon, <1>0
    <3>3. \A i \in DOMAIN specs[t] : i \in DOMAIN objs /\ objs[i] = specs[t][i]
      BY <1>0, <1>1, DesiredSpecs
    <3> HIDE DEF objs
    <3> QED BY Zenon, <3>1, <3>2, <3>3
  <2>2. ASSUME UNCHANGED specs
        PROVE  specs' = [specs EXCEPT ![t] = specs[t]]
    BY Zenon, <1>1, <2>2 DEF NetInv, Stored
  <2>3. UNCHANGED specs \/ \E s \in desired[t] : specs' =
          [specs EXCEPT ![t] = [i \in DOMAIN @ \cup {s.id} |-> IF i = s.id THEN s ELSE @[i]]]
    BY Zenon DEF reconcile_owned
  <2> QED BY Zenon, <1>0, <2>1, <2>2, <2>3
<1> HIDE DEF t
<1>3. /\ \A i \in DOMAIN objs : objs[i] \in desired[t] /\ objs[i].id = i
      /\ \A i \in DOMAIN specs[t] : i \in DOMAIN objs /\ objs[i] = specs[t][i]
  BY Zenon, <1>2
<1>5. UNCHANGED desired
  BY Zenon, <1>4 DEF desired
<1>6. \A y \in Types : specs'[y] = IF y = t THEN objs ELSE specs[y]
  BY Zenon, <1>1, <1>2 DEF NetInv, Stored
<1>7. \A y \in Types : \A s : InStore(y, s) => InStore(y, s)'
  BY Zenon, <1>3, <1>5, <1>6 DEF InStore
<1>8. Stored'
  <2>1. specs' = [y \in Types |-> specs'[y]]
    BY Zenon, <1>1, <1>2 DEF NetInv, Stored
  <2>2. \A y \in Types : \A i \in DOMAIN specs'[y] :
          specs'[y][i].id = i /\ InStore(y, specs[y][i])'
    <3> SUFFICES ASSUME NEW y \in Types, NEW i \in DOMAIN specs'[y]
                 PROVE  specs'[y][i].id = i /\ InStore(y, specs[y][i])'
      BY Zenon
    <3>1. CASE y = t
      BY Zenon, <1>3, <1>5, <1>6, <3>1 DEF InStore
    <3>2. CASE y # t
      BY <1>5, <1>6, <1>7, <3>2 DEF NetInv, Stored
    <3> QED BY Zenon, <3>1, <3>2
  <2> QED BY Zenon, <1>1, <1>4, <2>1, <2>2 DEF Stored
<1>9. Owned'
  BY Zenon, <1>3, <1>4, <1>6 DEF NetInv, Owned
<1>10. Reconciling'
  <2>1. \/ UNCHANGED <<at, todo>>
        \/ /\ at' = [at EXCEPT !["network-config"] = at'["network-config"]]
           /\ at'["network-config"] \in Types \cup {"idle"}
           /\ todo' = [todo EXCEPT !["network-config"] = {}]
    <3>1. UNCHANGED <<at, todo>>
            \/ Goto("network-config", IF n = 5 THEN "idle" ELSE spec_types[n + 1], {})
      BY Zenon, <1>1 DEF reconcile_owned
    <3>2. n # 5 => spec_types[n + 1] \in Types
      BY <1>1, SpecTypes
    <3>3. \A y \in Types \cup {"idle"} : y # "each"
      BY TypesAre
    <3> QED BY <3>1, <3>2, <3>3 DEF Goto, NetInv, Reconciling, Controllers
  <2>2. \A c \in Finalizing : c \in Controllers /\ c # "network-config" /\ Applies(c) \in Types
    BY Zenon, AppliesAre, TypesAre DEF Finalizing, Controllers
  <2> QED BY Zenon, <1>4, <1>7, <2>1, <2>2 DEF NetInv, Reconciling
<1>11. Kernel'
  BY Zenon, <1>4 DEF NetInv, Kernel, kernel
<1>12. StatusTrue'
  <2>1. \A y \in Types : \A i \in status[y] : specs'[y][i] = specs[y][i]
    BY Zenon, <1>3, <1>6 DEF NetInv, Owned
  <2>2. \A y, s : InForce(y, s)' = InForce(y, s) /\ TakenDown(s.link)' = TakenDown(s.link)
    BY <1>4, <1>5 DEF InForce, TakenDown, kernel
  <2> QED BY Zenon, <1>4, <2>1, <2>2 DEF NetInv, StatusTrue
<1> QED BY Zenon, <1>8, <1>9, <1>10, <1>11, <1>12 DEF NetInv
(* Taking an input: its finalizer is in place before its call.             *)
LEMMA Taken ==
  ASSUME NetInv, NEW c \in Finalizing, NEW s \in todo[c], add_finalizer(c, s)
  PROVE  NetInv'
<1> DEFINE t == Applies(c)
<1>1. t \in Types /\ c \in Controllers /\ c # "network-config" /\ InStore(t, s)
  BY Zenon, AppliesAre, TypesAre DEF Finalizing, Controllers, NetInv, Reconciling
<1>2. /\ held' = [held EXCEPT ![t] = @ \cup {s.id}] /\ wake' \subseteq Controllers
      /\ at' = [at EXCEPT ![c] = "apply"] /\ todo' = [todo EXCEPT ![c] = todo[c] \ {s}]
      /\ cur' = [cur EXCEPT ![c] = s]
      /\ UNCHANGED <<config, specs, status, kernel>>
  BY Zenon DEF add_finalizer, Goto, NetInv, Reconciling, Watchers
<1> HIDE DEF t
<1>3. UNCHANGED desired
  BY Zenon, <1>2 DEF desired
<1>4. \A y, o : InStore(y, o)' = InStore(y, o)
  BY Zenon, <1>2, <1>3 DEF InStore
<1>5. Stored' /\ Kernel'
  BY Zenon, <1>2, <1>4 DEF NetInv, Stored, Kernel, kernel
<1>6. Owned'
  BY Zenon, <1>1, <1>2 DEF NetInv, Owned, InStore
<1>7. Reconciling'
  <2>1. /\ at' = [d \in Controllers |-> at'[d]] /\ todo' = [d \in Controllers |-> todo'[d]]
        /\ cur' = [d \in Controllers |-> cur'[d]]
        /\ at'["network-config"] \in Types \cup {"idle"}
    BY Zenon, <1>1, <1>2 DEF NetInv, Reconciling, Controllers
  <2>2. ASSUME NEW d \in Finalizing
        PROVE  /\ at'[d] \in {"idle", "each", "apply"}
               /\ \A o \in todo'[d] : InStore(Applies(d), o)
               /\ at'[d] = "apply" => /\ InStore(Applies(d), cur'[d])
                                      /\ cur'[d].id \in held'[Applies(d)]
    <3>1. d \in Controllers /\ Applies(d) \in Types
      BY Zenon, AppliesAre, TypesAre DEF Finalizing, Controllers
    <3>2. CASE d = c
      BY Zenon, <1>1, <1>2, <3>1, <3>2 DEF NetInv, Reconciling, Owned, t
    <3>3. CASE d # c
      <4>1. at'[d] = at[d] /\ todo'[d] = todo[d] /\ cur'[d] = cur[d]
        BY Zenon, <1>2, <3>1, <3>3 DEF NetInv, Reconciling
      <4>2. held[Applies(d)] \subseteq held'[Applies(d)]
        BY Zenon, <1>1, <1>2, <3>1 DEF NetInv, Owned
      <4> QED BY Zenon, <4>1, <4>2 DEF NetInv, Reconciling
    <3> QED BY Zenon, <3>2, <3>3
  <2> QED BY Zenon, <1>2, <1>4, <2>1, <2>2 DEF Reconciling
<1>8. StatusTrue'
  <2>1. \A y, o : InForce(y, o)' = InForce(y, o) /\ TakenDown(o.link)' = TakenDown(o.link)
    BY <1>2, <1>3 DEF InForce, TakenDown, kernel
  <2> QED BY Zenon, <1>2, <2>1 DEF NetInv, StatusTrue
<1> QED BY Zenon, <1>5, <1>6, <1>7, <1>8 DEF NetInv

LEMMA Begun == ASSUME NetInv, NEW c \in Finalizing \cup {"network-config"}, Begin(c) PROVE NetInv'
<1>1. /\ wake' \subseteq Controllers /\ UNCHANGED <<config, specs, held, status, cur, kernel>>
  BY Zenon DEF Begin, NetInv, Reconciling
<1>2. UNCHANGED desired
  BY Zenon, <1>1 DEF desired
<1>3. \A y, o : InStore(y, o)' = InStore(y, o)
  BY Zenon, <1>1, <1>2 DEF InStore
<1>4. Stored' /\ Kernel' /\ Owned'
  BY Zenon, <1>1, <1>3 DEF NetInv, Stored, Kernel, kernel, Owned
<1>5. StatusTrue'
  <2>1. \A y, o : InForce(y, o)' = InForce(y, o) /\ TakenDown(o.link)' = TakenDown(o.link)
    BY <1>1, <1>2 DEF InForce, TakenDown, kernel
  <2> QED BY Zenon, <1>1, <2>1 DEF NetInv, StatusTrue
<1>6. Reconciling'
  <2>1. CASE c = "network-config"
    <3>1. /\ at' = [at EXCEPT ![c] = Head(spec_types)] /\ Head(spec_types) \in Types
          /\ todo' = [todo EXCEPT ![c] = {}] /\ c \in Controllers /\ c \notin Finalizing
      BY Zenon, <2>1, SpecTypes, TypesAre DEF Begin, Goto, Controllers, Finalizing
    <3> QED BY Zenon, <1>1, <1>3, <2>1, <3>1 DEF NetInv, Reconciling, Finalizing, Controllers
  <2>2. CASE c \in Finalizing
    <3> DEFINE rest == Range(specs[Applies(c)])
    <3>1. /\ c \in Controllers /\ c # "network-config" /\ Applies(c) \in Types
          /\ at' = [at EXCEPT ![c] = IF rest = {} THEN "idle" ELSE "each"]
          /\ todo' = [todo EXCEPT ![c] = rest]
      BY Zenon, <2>2, AppliesAre, TypesAre DEF Begin, Goto, Controllers, Finalizing
    <3>2. \A s \in rest : InStore(Applies(c), s)
      BY Zenon, <3>1 DEF NetInv, Stored, Range
    <3> HIDE DEF rest
    <3> QED BY Zenon, <1>1, <1>3, <2>2, <3>1, <3>2 DEF NetInv, Reconciling, Finalizing, Controllers
  <2> QED BY Zenon, <2>1, <2>2
<1> QED BY Zenon, <1>4, <1>5, <1>6 DEF NetInv

(* What a call leaves of what was in force: all of it, unless it takes     *)
(* down a link the config has down.                                        *)
LEMMA CallKeeps ==
  ASSUME NetInv, NEW c \in Finalizing, at[c] = "apply",
         NEW s, s = cur[c], Calls(c, s), UNCHANGED desired
  PROVE  /\ Kernel'
         /\ Succeeds(c, s) => InForce(Applies(c), s)'
         /\ \A y \in {"LinkSpec", "AddressSpec", "RouteSpec"} : \A o \in desired[y] :
              InForce(y, o) => InForce(y, o)' \/ (y # "LinkSpec" /\ TakenDown(o.link))
<1>1. InStore(Applies(c), s) /\ s \in desired[Applies(c)]
  BY Zenon DEF NetInv, Reconciling, InStore
<1>0. \A o : /\ InForce("LinkSpec", o) = (o.link \in Nics /\ (o.link \in up <=> o.up))
             /\ InForce("LinkSpec", o)' = (o.link \in Nics /\ (o.link \in up' <=> o.up))
             /\ InForce("AddressSpec", o) = (<<o.link, o.address>> \in addrs)
             /\ InForce("AddressSpec", o)' = (<<o.link, o.address>> \in addrs')
             /\ InForce("RouteSpec", o) = (o \in fib) /\ InForce("RouteSpec", o)' = (o \in fib')
  BY Zenon DEF InForce
<1>2. CASE UNCHANGED kernel /\ ~Succeeds(c, s)
  BY Zenon, <1>2 DEF kernel, NetInv, Kernel, InForce
<1>3. CASE c = "link" /\ s.link \in Nics /\ set_link_up(s)
  <2>1. s \in desired["LinkSpec"] /\ s.id = s.link /\ s.up \in BOOLEAN
    BY Zenon, <1>1, <1>3, AppliesAre, DesiredSpecs DEF NetInv, Stored
  <2>2. Kernel'
    BY Zenon, <1>3 DEF set_link_up, NetInv, Kernel
  <2>3. InForce("LinkSpec", s)'
    BY Zenon, <1>0, <1>3, <2>1 DEF set_link_up
  <2>4. \A o \in desired["LinkSpec"] : InForce("LinkSpec", o) => InForce("LinkSpec", o)'
    <3> SUFFICES ASSUME NEW o \in desired["LinkSpec"], InForce("LinkSpec", o)
                 PROVE  InForce("LinkSpec", o)'
      BY Zenon
    <3>1. CASE o.link = s.link
      <4>1. o = s
        BY <2>1, <3>1, DesiredSpecs, TypesAre DEF NetInv, Stored
      <4> QED BY Zenon, <2>3, <4>1
    <3>2. CASE o.link # s.link
      BY Zenon, <1>0, <1>3, <3>2 DEF set_link_up
    <3> QED BY Zenon, <3>1, <3>2
  <2>5. \A o \in desired["AddressSpec"] : InForce("AddressSpec", o) =>
          InForce("AddressSpec", o)' \/ TakenDown(o.link)
    BY Zenon, <1>3, <2>1 DEF set_link_up, InForce, TakenDown
  <2>6. \A o \in desired["RouteSpec"] : InForce("RouteSpec", o) =>
          InForce("RouteSpec", o)' \/ TakenDown(o.link)
    BY Zenon, <1>3, <2>1 DEF set_link_up, InForce, TakenDown
  <2> QED BY Zenon, <1>3, <2>2, <2>3, <2>4, <2>5, <2>6, AppliesAre
<1>4. CASE c = "address" /\ s.link \in Nics /\ add_address(s)
  <2>1. from_str(s.address)
    BY Zenon, <1>1, <1>4, AppliesAre, DesiredSpecs DEF NetInv, Stored
  <2>2. Kernel'
    BY <1>4, <2>1 DEF add_address, NetInv, Kernel
  <2>3. InForce("AddressSpec", s)'
    BY Zenon, <1>0, <1>4 DEF add_address
  <2>4. \A y \in {"LinkSpec", "AddressSpec", "RouteSpec"} : \A o : InForce(y, o) => InForce(y, o)'
    <3>1. addrs \subseteq addrs' /\ up' = up /\ fib' = fib
      BY Zenon, <1>4 DEF add_address
    <3> QED BY Zenon, <1>0, <3>1
  <2> QED BY Zenon, <1>4, <2>2, <2>3, <2>4, AppliesAre
<1>5. CASE c = "route" /\ s.link \in Nics /\ RouteAccepted(s) /\ add_route(s)
  <2>2. Kernel'
    BY Zenon, <1>5 DEF add_route, RouteAccepted, NetInv, Kernel
  <2>3. InForce("RouteSpec", s)'
    BY Zenon, <1>0, <1>5 DEF add_route
  <2>4. \A y \in {"LinkSpec", "AddressSpec", "RouteSpec"} : \A o : InForce(y, o) => InForce(y, o)'
    BY Zenon, <1>0, <1>5 DEF add_route
  <2> QED BY <1>5, <2>2, <2>3, <2>4, AppliesAre
<1>6. CASE s.link \notin Nics
  BY Zenon, <1>2, <1>6 DEF Calls, Succeeds
<1> QED BY Zenon, <1>2, <1>3, <1>4, <1>5, <1>6 DEF Calls, Succeeds, Finalizing

LEMMA Applied ==
  ASSUME NetInv, NEW c \in Finalizing, Apply(c)
  PROVE  NetInv'
<1> SUFFICES ASSUME NEW s, s = cur[c] PROVE NetInv'
  BY Zenon
<1> DEFINE t == Applies(c)
<1>1. /\ t \in {"LinkSpec", "AddressSpec", "RouteSpec"} /\ t \in Types
      /\ c \in Controllers /\ c # "network-config"
      /\ at[c] = "apply" /\ InStore(t, s) /\ s.id \in held[t]
  BY Zenon, AppliesAre, TypesAre DEF Finalizing, Controllers, NetInv, Reconciling, Apply
<1>2. UNCHANGED <<config, specs, held>> /\ cur' = [cur EXCEPT ![c] = None] /\ Calls(c, s)
  BY Zenon DEF Apply
<1>3. UNCHANGED desired
  BY Zenon, <1>2 DEF desired
<1>4. \A y, o : InStore(y, o)' = InStore(y, o)
  BY Zenon, <1>2, <1>3 DEF InStore
<1>5. \/ /\ Succeeds(c, s) /\ status' = [status EXCEPT ![t] = @ \cup {s.id}]
         /\ wake' \subseteq Controllers
      \/ UNCHANGED <<status, wake>>
  BY Zenon DEF Apply, Publish, StatusWatchers, Controllers, NetInv, Reconciling
<1>6. \E place \in {"idle", "each"}, rest \in SUBSET todo[c] :
        at' = [at EXCEPT ![c] = place] /\ todo' = [todo EXCEPT ![c] = rest]
  BY Zenon DEF Apply, Goto
<1>7. Kernel'
  BY Zenon, <1>1, <1>2, <1>3, CallKeeps
<1> HIDE DEF t
<1>8. Stored'
  BY Zenon, <1>2, <1>4 DEF NetInv, Stored
<1>9. Owned'
  BY <1>1, <1>2, <1>5 DEF NetInv, Owned
<1>10. Reconciling'
  <2>1. wake' \subseteq Controllers
    BY Zenon, <1>5 DEF NetInv, Reconciling
  <2>2. /\ at' = [d \in Controllers |-> at'[d]] /\ todo' = [d \in Controllers |-> todo'[d]]
        /\ cur' = [d \in Controllers |-> cur'[d]]
        /\ at'["network-config"] \in Types \cup {"idle"}
    BY Zenon, <1>1, <1>2, <1>6 DEF NetInv, Reconciling, Controllers
  <2>3. ASSUME NEW d \in Finalizing
        PROVE  /\ at'[d] \in {"idle", "each", "apply"}
               /\ \A o \in todo'[d] : InStore(Applies(d), o)
               /\ at'[d] = "apply" => /\ InStore(Applies(d), cur'[d])
                                      /\ cur'[d].id \in held'[Applies(d)]
    <3>1. d \in Controllers
      BY Zenon DEF Finalizing, Controllers
    <3>2. CASE d = c
      BY Zenon, <1>1, <1>6, <3>1, <3>2 DEF NetInv, Reconciling
    <3>3. CASE d # c
      <4>1. at'[d] = at[d] /\ todo'[d] = todo[d] /\ cur'[d] = cur[d] /\ held' = held
        BY Zenon, <1>2, <1>6, <3>1, <3>3 DEF NetInv, Reconciling
      <4> QED BY Zenon, <4>1 DEF NetInv, Reconciling
    <3> QED BY Zenon, <3>2, <3>3
  <2> QED BY Zenon, <1>4, <2>1, <2>2, <2>3 DEF Reconciling
<1>11. StatusTrue'
  <2> SUFFICES ASSUME NEW y \in Types, NEW i \in status'[y]
               PROVE  \/ InForce(y, specs[y][i])'
                      \/ y \in {"AddressSpec", "RouteSpec"} /\ TakenDown(specs[y][i].link)'
    BY Zenon DEF StatusTrue
  <2>1. \A o : TakenDown(o.link)' = TakenDown(o.link)
    BY Zenon, <1>3 DEF TakenDown
  <2>2. CASE i \in status[y]
    <3> SUFFICES ASSUME NEW o, o = specs[y][i]
                 PROVE  \/ InForce(y, o)'
                        \/ y \in {"AddressSpec", "RouteSpec"} /\ TakenDown(o.link)'
      BY Zenon, <1>2
    <3>1. y \in {"LinkSpec", "AddressSpec", "RouteSpec"} /\ o \in desired[y]
      BY Zenon, <2>2 DEF NetInv, Owned, Stored, InStore
    <3>2. InForce(y, o) \/ (y \in {"AddressSpec", "RouteSpec"} /\ TakenDown(o.link))
      BY Zenon, <2>2 DEF NetInv, StatusTrue
    <3>3. InForce(y, o) => InForce(y, o)' \/ (y # "LinkSpec" /\ TakenDown(o.link))
      BY Zenon, <1>1, <1>2, <1>3, <3>1, CallKeeps
    <3> QED BY Zenon, <2>1, <3>1, <3>2, <3>3
  <2>3. CASE i \notin status[y]
    <3>1. y = t /\ i = s.id /\ Succeeds(c, s)
      BY <1>1, <1>5, <2>3 DEF NetInv, Owned
    <3>2. InForce(t, s)' /\ specs[t][s.id] = s
      BY Zenon, <1>1, <1>2, <1>3, <3>1, CallKeeps DEF t, InStore
    <3> QED BY Zenon, <1>2, <3>1, <3>2
  <2> QED BY Zenon, <2>2, <2>3
<1> QED BY Zenon, <1>7, <1>8, <1>9, <1>10, <1>11 DEF NetInv

(* A step that changes neither the store, the controllers under proof nor  *)
(* the links, addresses and routes of the kernel.                          *)
LEMMA NetQuiet ==
  ASSUME NetInv, wake' \subseteq wake,
         UNCHANGED <<config, specs, held, status, at, todo, cur, up, addrs, fib>>
  PROVE  NetInv'
<1>1. UNCHANGED desired
  BY Zenon DEF desired
<1>2. \A y, o : InStore(y, o)' = InStore(y, o)
  BY Zenon, <1>1 DEF InStore
<1>3. Stored' /\ Kernel' /\ Owned' /\ Reconciling'
  BY Zenon, <1>2 DEF NetInv, Stored, Kernel, Owned, Reconciling
<1>4. StatusTrue'
  <2>1. \A y \in {"LinkSpec", "AddressSpec", "RouteSpec"} : \A o : InForce(y, o)' = InForce(y, o)
    BY DEF InForce
  <2>2. \A o : TakenDown(o.link)' = TakenDown(o.link)
    BY Zenon, <1>1 DEF TakenDown
  <2> QED BY <2>1, <2>2 DEF NetInv, StatusTrue, Owned
<1> QED BY Zenon, <1>3, <1>4 DEF NetInv

LEMMA NetStep == ASSUME NetInv, [Next]_vars PROVE NetInv'
<1>1. CASE set_hostname
  BY Zenon, <1>1, NetQuiet DEF set_hostname
<1>2. CASE write_resolv
  BY Zenon, <1>2, NetQuiet DEF write_resolv
<1>3. CASE UNCHANGED vars
  BY Zenon, <1>3, NetQuiet DEF vars
<1>4. CASE Config
  BY Zenon, <1>4, Begun, Written DEF Config
<1>5. CASE \E c \in Finalizing : Finalized(c)
  BY Zenon, <1>5, Begun, Taken, Applied DEF Finalized
<1> QED BY Zenon, <1>1, <1>2, <1>3, <1>4, <1>5 DEF Next

NetworkInv == which = "network" => NetInv

(* The invariant of the network controllers, for every config.             *)
LEMMA NetworkInvariant == MCSpec => []NetworkInv
<1>1. MCInit => NetworkInv
  BY Zenon, NetInit DEF MCInit, NetworkInv
<1>2. NetworkInv /\ [MCNext]_state => NetworkInv'
  <2> SUFFICES ASSUME NetworkInv, [MCNext]_state, which' = "network" PROVE NetInv'
    BY Zenon DEF NetworkInv
  <2>1. which = "network" /\ [Next]_vars
    BY Zenon DEF MCNext, state, networkState, vars
  <2> QED BY Zenon, <2>1, NetStep DEF NetworkInv
<1> QED BY <1>1, <1>2, PTL DEF MCSpec

(* A LinkStatus, an AddressStatus and a RouteStatus stand only for what    *)
(* the kernel has, for every config, set of links and order of the loops.  *)
THEOREM StatusesStayTrue == MCSpec => []StatusesTrue
<1>1. NetworkInv => StatusesTrue
  BY Zenon, NetTypes DEF NetworkInv, NetInv, StatusesTrue
<1> QED BY <1>1, NetworkInvariant, PTL

-----------------------------------------------------------------------------
(***************************************************************************)
(* Pods.  The statuses of a reconcile are gathered pod by pod while        *)
(* containers start and exit, and are published together at its end: what  *)
(* was gathered has to stay true until then.  It does because a container  *)
(* only moves forward, which Advances states of every step.                *)
(***************************************************************************)

Messages == {"", "runtime not ready", "image not present", "cri unreachable", "cri error",
             "starting", "container exited"}

PodStatuses == [phase : P!Phases, message : Messages]

Working == {"image", "find_sandbox", "run_pod_sandbox", "find_container", "if_created",
            "create_container", "start_container", "container_state"}

(* containerd, the importer and the health controller.                     *)
RuntimeTypes ==
  /\ p_serving \in {"down", "starting", "up", "hung"} /\ (P!Answering => p_sock)
  /\ p_images \subseteq P!Images /\ p_tars \subseteq P!Images
  /\ p_importer \in {"wait", "import", "done"}
  /\ p_hpc \in {"idle", "version"} /\ p_status \in BOOLEAN /\ p_hready \in BOOLEAN
  /\ p_sandbox \in [P!Pods -> {"none", "ready", "notready"}]
  /\ p_container \in [P!Pods -> {"none", "created", "running", "exited"}]
  /\ p_faults \in 0..PodFaults

(* A phase that may be reported of a pod.                                  *)
Tells(phase, q) ==
  /\ phase = "Running" => p_container[q] \in {"running", "exited"}
  /\ phase = "Failed" => p_container[q] = "exited"

(* What the reconcile has gathered.                                        *)
Gathered ==
  /\ p_desired \in Seq(PodStatuses) /\ p_pod \in Nat
  /\ \/ p_pc = "idle" /\ p_desired = <<>> /\ p_pod = 1
     \/ p_pc \in Working /\ p_pod \in 1..Len(PodSeq) /\ Len(p_desired) = p_pod - 1
     \/ p_pc = "publish" /\ p_pod \in 1..(Len(PodSeq) + 1) /\ Len(p_desired) = Len(PodSeq)
  /\ \A n \in 1..Len(p_desired) : Tells(p_desired[n].phase, PodSeq[n])

Published ==
  \A q \in P!Pods : /\ p_podStatus[q].phase \in P!Phases \cup {"none"}
                    /\ Tells(p_podStatus[q].phase, q)

PodInv == RuntimeTypes /\ Gathered /\ Published

LEMMA PodSequence == /\ PodSeq \in Seq(P!Pods) /\ Len(PodSeq) \in Nat
                     /\ DOMAIN PodSeq = 1..Len(PodSeq) /\ PodFaults \in Nat
                     /\ \A n \in 1..Len(PodSeq) : PodSeq[n] \in P!Pods
<1>1. PodSeq \in Seq(P!Pods) /\ PodFaults \in Nat
  BY Zenon, ControllersAssumption DEF P!PodsAssumption
<1> QED BY <1>1

LEMMA PodTypes == ASSUME PodInv PROVE P!TypeOK /\ P!ReportTrue
<1>1. p_pod \in 1..(Len(PodSeq) + 1) /\ (p_pc = "publish" => Len(p_desired) = Len(PodSeq))
  BY PodSequence DEF PodInv, Gathered, Working
<1>2. P!TypeOK
  BY Zenon, <1>1 DEF PodInv, RuntimeTypes, Published, P!TypeOK
<1> QED BY Zenon, <1>2 DEF PodInv, Published, Tells, P!ReportTrue

LEMMA PodInit == ASSUME P!Init PROVE PodInv
<1>1. RuntimeTypes
  <2>0. p_faults = 0
    BY Zenon DEF P!Init
  <2>1. ~P!Answering /\ p_importer \in {"wait", "import", "done"}
    BY Zenon DEF P!Init, P!Answering
  <2>2. p_sandbox \in [P!Pods -> {"none", "ready", "notready"}]
        /\ p_container \in [P!Pods -> {"none", "created", "running", "exited"}]
    BY Zenon DEF P!Init
  <2>3. p_faults \in 0..PodFaults
    BY <2>0, PodSequence
  <2> QED BY Zenon, <2>1, <2>2, <2>3 DEF P!Init, RuntimeTypes
<1>2. Gathered
  <2>1. p_desired = <<>> /\ p_pod = 1 /\ p_pc = "idle"
    BY Zenon DEF P!Init
  <2>2. p_desired \in Seq(PodStatuses) /\ Len(p_desired) = 0
    BY <2>1
  <2> QED BY <2>1, <2>2 DEF Gathered
<1>3. Published
  BY Zenon DEF P!Init, Published, P!Status, Tells
<1> QED BY Zenon, <1>1, <1>2, <1>3 DEF PodInv

(* A container never goes back.                                            *)
Advances ==
  \A q \in P!Pods :
    /\ p_container[q] \in {"running", "exited"} => p_container'[q] \in {"running", "exited"}
    /\ p_container[q] = "exited" => p_container'[q] = "exited"

LEMMA StillTells ==
  ASSUME Advances, NEW q \in P!Pods, NEW phase, Tells(phase, q)
  PROVE  Tells(phase, q)'
  BY Zenon DEF Advances, Tells

LEMMA PublishedKept ==
  ASSUME Published, Advances, UNCHANGED p_podStatus
  PROVE  Published'
  BY Zenon, StillTells DEF Published

(* What was gathered stays true while a container moves on.                *)
LEMMA GatheredKept ==
  ASSUME Gathered, Advances
  PROVE  \A n \in 1..Len(p_desired) : n \in 1..Len(PodSeq) /\ Tells(p_desired[n].phase, PodSeq[n])
                                      /\ \A phase : Tells(phase, PodSeq[n]) => Tells(phase, PodSeq[n])'
<1>1. Len(p_desired) \in Nat /\ Len(p_desired) <= Len(PodSeq)
  BY PodSequence DEF Gathered
<1> QED BY <1>1, PodSequence, StillTells DEF Gathered

LEMMA GatheringQuiet ==
  ASSUME Gathered, Advances, UNCHANGED <<p_pc, p_pod, p_desired>>
  PROVE  Gathered'
<1>1. \A n \in 1..Len(p_desired') : Tells(p_desired[n].phase, PodSeq[n])'
  BY Zenon, GatheredKept DEF Tells
<1> QED BY Zenon, <1>1 DEF Gathered

LEMMA Going ==
  ASSUME Gathered, Advances, p_pc \in Working, NEW place \in Working, P!PodGoes(place)
  PROVE  Gathered'
<1>1. p_pc' = place /\ UNCHANGED <<p_pod, p_desired>>
  BY Zenon DEF P!PodGoes
<1>2. \A n \in 1..Len(p_desired') : Tells(p_desired[n].phase, PodSeq[n])'
  BY Zenon, <1>1, GatheredKept DEF Tells
<1>3. p_pod \in 1..Len(PodSeq) /\ Len(p_desired) = p_pod - 1
  BY Zenon DEF Gathered, Working
<1> QED BY Zenon, <1>1, <1>2, <1>3 DEF Gathered

LEMMA Reporting ==
  ASSUME Gathered, Advances, p_pc \in Working, NEW s \in PodStatuses, P!Report(s),
         NEW n, n = p_pod, Tells(s.phase, PodSeq[n])'
  PROVE  Gathered'
<1>1. /\ p_desired' = Append(p_desired, s) /\ p_pod' = p_pod + 1
      /\ p_pc' = IF p_pod = Len(PodSeq) THEN "publish" ELSE "image"
  BY Zenon DEF P!Report
<1>2. /\ n \in 1..Len(PodSeq) /\ Len(p_desired) = n - 1 /\ n \in Nat
      /\ p_desired \in Seq(PodStatuses)
  BY Zenon, PodSequence DEF Gathered, Working
<1>3. /\ p_desired' \in Seq(PodStatuses) /\ Len(p_desired') = n /\ p_desired'[n] = s
      /\ \A m \in 1..(n - 1) : p_desired'[m] = p_desired[m]
  <2>1. /\ p_desired' \in Seq(PodStatuses) /\ Len(p_desired') = Len(p_desired) + 1
        /\ \A m \in 1..Len(p_desired) : p_desired'[m] = p_desired[m]
        /\ p_desired'[Len(p_desired) + 1] = s
    BY <1>1, <1>2, AppendProperties
  <2> QED BY <1>2, <2>1
<1>4. \A m \in 1..Len(p_desired') : Tells(p_desired[m].phase, PodSeq[m])'
  <2> SUFFICES ASSUME NEW m \in 1..n PROVE Tells(p_desired[m].phase, PodSeq[m])'
    BY Zenon, <1>3
  <2>1. CASE m = n
    BY Zenon, <1>3, <2>1
  <2>2. CASE m # n
    <3>1. m \in 1..Len(p_desired) /\ p_desired'[m] = p_desired[m]
      BY <1>2, <1>3, <2>2
    <3>2. \A phase : Tells(phase, PodSeq[m]) => Tells(phase, PodSeq[m])'
      BY Zenon, <3>1, GatheredKept
    <3>3. Tells(p_desired[m].phase, PodSeq[m])
      BY Zenon, <3>1 DEF Gathered
    <3> QED BY Zenon, <3>1, <3>2, <3>3 DEF Tells
  <2> QED BY Zenon, <2>1, <2>2
<1>5. \/ p_pc' \in Working /\ p_pod' \in 1..Len(PodSeq) /\ Len(p_desired') = p_pod' - 1
      \/ p_pc' = "publish" /\ p_pod' \in 1..(Len(PodSeq) + 1) /\ Len(p_desired') = Len(PodSeq)
  <2>1. CASE n = Len(PodSeq)
    BY <1>1, <1>2, <1>3, <2>1, PodSequence
  <2>2. CASE n # Len(PodSeq)
    <3>0. Len(PodSeq) \in Nat
      BY Zenon, PodSequence
    <3>1. p_pc' = "image" /\ p_pod' = n + 1
      BY Zenon, <1>1, <2>2
    <3>2. n + 1 \in 1..Len(PodSeq)
      BY <1>2, <2>2, <3>0
    <3> QED BY <1>2, <1>3, <3>1, <3>2 DEF Working
  <2> QED BY Zenon, <2>1, <2>2
<1>6. p_pod' \in Nat
  BY <1>1, <1>2
<1> QED BY Zenon, <1>3, <1>4, <1>5, <1>6 DEF Gathered

(* A reply that is lost is reported as Pending.                            *)
LEMMA Failing ==
  ASSUME Gathered, Advances, p_pc \in Working, NEW message \in Messages,
         P!Report(P!Status("Pending", message))
  PROVE  Gathered'
<1>1. P!Status("Pending", message) \in PodStatuses
      /\ P!Status("Pending", message).phase = "Pending"
  BY Zenon DEF P!Status, PodStatuses, P!Phases, Messages
<1>2. \A n : Tells("Pending", PodSeq[n])'
  BY Zenon DEF Tells
<1> QED BY Zenon, <1>1, <1>2, Reporting

LEMMA FaultsBounded ==
  ASSUME RuntimeTypes, UNCHANGED p_faults \/ P!Lost
  PROVE  p_faults' \in 0..PodFaults
<1>1. p_faults \in 0..PodFaults
  BY Zenon DEF RuntimeTypes
<1>2. p_faults' = p_faults \/ (p_faults < PodFaults /\ p_faults' = p_faults + 1)
  BY Zenon DEF P!Lost
<1> QED BY <1>1, <1>2, PodSequence

(* The steps that neither are the PodController's nor touch what it        *)
(* gathers.                                                                *)
LEMMA RuntimeStep ==
  ASSUME RuntimeTypes,
         \/ \E how \in {"starting", "up"} : P!Serves(how)
         \/ P!Crash \/ P!Hang \/ \E q \in P!Pods : P!Exits(q) \/ P!SandboxDies(q)
         \/ P!Import \/ P!Health
  PROVE  RuntimeTypes' /\ Advances /\ UNCHANGED <<p_pc, p_pod, p_desired, p_podStatus>>
<1>1. CASE \E how \in {"starting", "up"} : P!Serves(how)
  BY Zenon, <1>1 DEF P!Serves, P!daemon, RuntimeTypes, P!Answering, Advances
<1>2. CASE P!Crash \/ P!Hang
  BY <1>2, PodSequence DEF P!Crash, P!Hang, P!daemon, RuntimeTypes, P!Answering, Advances
<1>3. CASE \E q \in P!Pods : P!Exits(q) \/ P!SandboxDies(q)
  BY <1>3, PodSequence DEF P!Exits, P!SandboxDies, P!daemon, RuntimeTypes, P!Answering, Advances
<1>4. CASE P!Import
  <2>1. CASE P!WaitForSocket
    BY Zenon, <2>1 DEF P!WaitForSocket, P!containerd, RuntimeTypes, P!Answering, Advances
  <2>2. CASE \E t \in P!Images : P!ImportTar(t)
    BY <2>2, PodSequence DEF P!ImportTar, P!Answered, P!Lost, RuntimeTypes, P!Answering, Advances
  <2> QED BY Zenon, <1>4, <2>1, <2>2 DEF P!Import
<1>5. CASE P!Health
  <2>0. p_faults' \in 0..PodFaults
    <3>1. UNCHANGED p_faults \/ P!Lost
      BY <1>5, Zenon DEF P!Health, P!HealthDisabled, P!Probe, P!Version, P!Answered
    <3> QED BY Zenon, <3>1, FaultsBounded
  <2>1. p_hpc' \in {"idle", "version"} /\ p_status' \in BOOLEAN /\ p_hready' \in BOOLEAN
    <3>1. CASE P!HealthDisabled
      BY Zenon, <3>1 DEF P!HealthDisabled, P!HealthGoes
    <3>2. CASE P!Probe
      BY <3>2, Zenon DEF P!Probe, P!HealthGoes, RuntimeTypes
    <3>3. CASE P!Version
      BY <3>3, Zenon DEF P!Version, P!HealthGoes, RuntimeTypes
    <3> QED BY Zenon, <1>5, <3>1, <3>2, <3>3 DEF P!Health
  <2>2. UNCHANGED <<p_pc, p_pod, p_desired, p_podStatus, p_importer, p_tars, P!containerd>>
    BY Zenon, <1>5 DEF P!Health, P!HealthDisabled, P!Probe, P!Version, P!HealthGoes
  <2> QED BY Zenon, <2>0, <2>1, <2>2 DEF P!containerd, RuntimeTypes, P!Answering, Advances
<1> QED BY <1>1, <1>2, <1>3, <1>4, <1>5

(* The steps that ask containerd about a pod: what each may do to the      *)
(* containers, and where it goes.                                          *)
Asking ==
  \/ P!image_present \/ P!find_sandbox \/ P!run_pod_sandbox \/ P!find_container
  \/ P!IfCreated \/ P!create_container \/ P!start_container \/ P!container_state

LEMMA AskingKeeps ==
  ASSUME RuntimeTypes, Asking
  PROVE  /\ RuntimeTypes' /\ Advances /\ UNCHANGED p_podStatus
<1>1. p_faults' \in 0..PodFaults
  <2>1. UNCHANGED p_faults \/ P!Lost
    BY Zenon DEF Asking, P!image_present, P!find_sandbox, P!run_pod_sandbox, P!find_container,
       P!IfCreated, P!create_container, P!start_container, P!container_state, P!Fails, P!Refused, P!Answered
  <2> QED BY Zenon, <2>1, FaultsBounded
<1>2. UNCHANGED <<p_serving, p_sock, p_images, p_importer, p_tars, p_hpc, p_hready, p_status, p_podStatus>>
  BY Zenon DEF Asking, P!image_present, P!find_sandbox, P!run_pod_sandbox, P!find_container,
     P!IfCreated, P!create_container, P!start_container, P!container_state, P!Fails,
     P!Refused, P!PodGoes, P!Report, P!containerd
<1>3. p_sandbox' \in [P!Pods -> {"none", "ready", "notready"}]
  <2>1. CASE P!run_pod_sandbox
    BY Zenon, <2>1 DEF P!run_pod_sandbox, RuntimeTypes
  <2>2. CASE ~P!run_pod_sandbox
    BY Zenon, <2>2 DEF Asking, P!image_present, P!find_sandbox, P!find_container, P!IfCreated,
       P!create_container, P!start_container, P!container_state, P!containerd, RuntimeTypes
  <2> QED BY Zenon, <2>1, <2>2
<1>4. /\ p_container' \in [P!Pods -> {"none", "created", "running", "exited"}]
      /\ Advances
  <2>1. CASE P!create_container
    BY Zenon, <2>1 DEF P!create_container, RuntimeTypes, Advances
  <2>2. CASE P!start_container
    BY Zenon, <2>2 DEF P!start_container, RuntimeTypes, Advances
  <2>3. CASE UNCHANGED p_container
    BY Zenon, <2>3 DEF RuntimeTypes, Advances
  <2> QED BY Zenon, <2>1, <2>2, <2>3 DEF Asking, P!image_present, P!find_sandbox, P!run_pod_sandbox,
       P!find_container, P!IfCreated, P!container_state, P!containerd
<1> QED BY <1>1, <1>2, <1>3, <1>4 DEF RuntimeTypes, P!Answering

LEMMA AskingGathers == ASSUME PodInv, Asking PROVE Gathered'
<1>1. Advances /\ Gathered
  BY Zenon, AskingKeeps DEF PodInv
<1>2. ASSUME NEW place \in Working, p_pc \in Working, P!PodGoes(place) PROVE Gathered'
  BY Zenon, <1>1, <1>2, Going
<1>0. /\ {"image not present", "cri unreachable", "cri error", "starting"} \subseteq Messages
      /\ {"image", "find_sandbox", "run_pod_sandbox", "find_container", "if_created",
          "create_container", "start_container", "container_state"} \subseteq Working
  BY Zenon DEF Messages, Working
<1>3. ASSUME NEW message \in Messages, p_pc \in Working, P!Report(P!Status("Pending", message))
      PROVE  Gathered'
  BY Zenon, <1>1, <1>3, Failing
<1>4. CASE P!image_present
  BY Zenon, <1>0, <1>2, <1>3, <1>4 DEF P!image_present
<1>5. CASE P!find_sandbox
  BY Zenon, <1>0, <1>2, <1>3, <1>5 DEF P!find_sandbox, P!Fails, P!Refused
<1>6. CASE P!run_pod_sandbox
  BY Zenon, <1>0, <1>2, <1>3, <1>6 DEF P!run_pod_sandbox, P!Fails, P!Refused
<1>7. CASE P!find_container
  BY Zenon, <1>0, <1>2, <1>3, <1>7 DEF P!find_container, P!Fails, P!Refused
<1>8. CASE P!IfCreated
  BY Zenon, <1>0, <1>2, <1>8 DEF P!IfCreated
<1>9. CASE P!create_container
  BY Zenon, <1>0, <1>2, <1>3, <1>9 DEF P!create_container, P!Fails, P!Refused
<1>10. CASE P!start_container
  BY Zenon, <1>0, <1>2, <1>3, <1>10 DEF P!start_container, P!Fails, P!Refused
<1>11. CASE P!container_state
  <2>1. p_pc \in Working /\ UNCHANGED p_container
    BY Zenon, <1>11 DEF P!container_state, P!containerd, Working
  <2>2. CASE P!Fails
    BY Zenon, <1>0, <1>3, <2>1, <2>2 DEF P!Fails, P!Refused
  <2>3. CASE p_container[P!p] = "running" /\ P!Report(P!Status("Running", ""))
    <3>1. P!Status("Running", "") \in PodStatuses /\ P!Status("Running", "").phase = "Running"
      BY Zenon DEF P!Status, PodStatuses, P!Phases, Messages
    <3>2. ASSUME NEW n, n = p_pod PROVE Tells("Running", PodSeq[n])'
      BY Zenon, <2>1, <2>3, <3>2 DEF Tells, P!p
    <3> QED BY Zenon, <1>1, <2>1, <2>3, <3>1, <3>2, Reporting
  <2>4. CASE p_container[P!p] = "exited" /\ P!Report(P!Status("Failed", "container exited"))
    <3>1. P!Status("Failed", "container exited") \in PodStatuses
          /\ P!Status("Failed", "container exited").phase = "Failed"
      BY Zenon DEF P!Status, PodStatuses, P!Phases, Messages
    <3>2. ASSUME NEW n, n = p_pod PROVE Tells("Failed", PodSeq[n])'
      BY Zenon, <2>1, <2>4, <3>2 DEF Tells, P!p
    <3> QED BY Zenon, <1>1, <2>1, <2>4, <3>1, <3>2, Reporting
  <2>5. CASE P!Report(P!Status("Pending", "starting"))
    BY Zenon, <1>0, <1>3, <2>1, <2>5
  <2> QED BY Zenon, <1>11, <2>2, <2>3, <2>4, <2>5 DEF P!container_state
<1> QED BY <1>4, <1>5, <1>6, <1>7, <1>8, <1>9, <1>10, <1>11 DEF Asking

(* A step of the PodController.                                            *)
LEMMA PodControllerStep == ASSUME PodInv, P!PodStep PROVE PodInv'
<1>0. Gathered /\ p_status \in BOOLEAN
  BY Zenon DEF PodInv, RuntimeTypes
<1> DEFINE quiet == UNCHANGED <<p_serving, p_sock, p_images, p_importer, p_tars, p_hpc, p_hready,
                                p_status>>
<1>1. CASE P!Reconcile
  <2>1. UNCHANGED <<p_podStatus, p_faults, P!containerd>> /\ quiet
    BY Zenon, <1>1 DEF P!Reconcile, P!containerd
  <2>2. RuntimeTypes' /\ Advances
    BY <2>1 DEF PodInv, RuntimeTypes, P!containerd, P!Answering, Advances
  <2>3. Gathered'
    <3>1. p_pod' = 1 /\ p_pc = "idle" /\ p_desired = <<>>
      BY Zenon, <1>0, <1>1 DEF P!Reconcile, Gathered, Working
    <3>2. CASE p_status
      <4>1. p_desired' = <<>> /\ p_pc' = IF PodSeq = <<>> THEN "publish" ELSE "image"
        BY Zenon, <1>1, <3>1, <3>2 DEF P!Reconcile
      <4>2. p_desired' \in Seq(PodStatuses) /\ Len(p_desired') = 0
        BY <4>1
      <4>3. PodSeq = <<>> => Len(PodSeq) = 0
        OBVIOUS
      <4>4. PodSeq # <<>> => 1 \in 1..Len(PodSeq)
        BY PodSequence
      <4> QED BY <3>1, <4>1, <4>2, <4>3, <4>4, PodSequence DEF Gathered, Working
    <3>3. CASE ~p_status
      <4>1. /\ p_desired' = [n \in 1..Len(PodSeq) |-> P!Status("Pending", "runtime not ready")]
            /\ p_pc' = "publish"
        BY Zenon, <1>1, <3>3, PodSequence DEF P!Reconcile
      <4>2. P!Status("Pending", "runtime not ready") \in PodStatuses
            /\ P!Status("Pending", "runtime not ready").phase = "Pending"
        BY Zenon DEF P!Status, PodStatuses, P!Phases, Messages
      <4>3. p_desired' \in Seq(PodStatuses) /\ Len(p_desired') = Len(PodSeq)
        <5>1. p_desired' \in [1..Len(PodSeq) -> PodStatuses]
          BY Zenon, <4>1, <4>2
        <5>2. Len(PodSeq) \in Nat
          BY Zenon, PodSequence
        <5>3. p_desired' \in Seq(PodStatuses)
          BY Zenon, <5>1, <5>2, SeqDef
        <5>4. Len(p_desired') \in Nat /\ 1..Len(p_desired') = 1..Len(PodSeq)
          BY Zenon, <5>1, <5>3, LenProperties
        <5> QED BY <5>2, <5>3, <5>4
      <4>4. \A n \in 1..Len(p_desired') : p_desired'[n].phase = "Pending"
        BY Zenon, <4>1, <4>2, <4>3
      <4>5. \A n \in 1..Len(p_desired') : Tells(p_desired[n].phase, PodSeq[n])'
        BY Zenon, <4>4 DEF Tells
      <4>6. p_pod' \in Nat /\ p_pod' \in 1..(Len(PodSeq) + 1)
        BY <3>1, PodSequence
      <4>7. p_pc' = "publish"
        BY Zenon, <4>1
      <4> QED BY Zenon, <4>3, <4>5, <4>6, <4>7 DEF Gathered
    <3> QED BY Zenon, <3>2, <3>3
  <2> QED BY Zenon, <2>1, <2>2, <2>3, PublishedKept DEF PodInv
<1>2. CASE P!Publish
  <2>1. UNCHANGED <<p_faults, P!containerd>> /\ quiet
    BY Zenon, <1>2 DEF P!Publish, P!containerd
  <2>2. RuntimeTypes'
    BY <2>1 DEF PodInv, RuntimeTypes, P!containerd, P!Answering
  <2>3. Gathered'
    <3>1. p_desired' = <<>> /\ p_pc' = "idle" /\ p_pod' = 1
      BY Zenon, <1>2 DEF P!Publish
    <3>2. p_desired' \in Seq(PodStatuses) /\ Len(p_desired') = 0
      BY <3>1
    <3> QED BY <3>1, <3>2 DEF Gathered
  <2>4. Published'
    <3> SUFFICES ASSUME NEW q \in P!Pods
                 PROVE  /\ p_podStatus'[q].phase \in P!Phases \cup {"none"}
                        /\ Tells(p_podStatus'[q].phase, q)
      BY Zenon, <2>1 DEF Published, P!containerd, Tells
    <3> DEFINE n == CHOOSE n \in DOMAIN PodSeq : PodSeq[n] = q
    <3>1. n \in 1..Len(PodSeq) /\ PodSeq[n] = q
      BY Zenon, PodSequence DEF P!Pods
    <3>2. p_podStatus'[q] = p_desired[n]
      BY Zenon, <1>2 DEF P!Publish
    <3> HIDE DEF n
    <3>3. Len(p_desired) = Len(PodSeq) /\ p_desired \in Seq(PodStatuses)
          /\ Tells(p_desired[n].phase, PodSeq[n])
      BY Zenon, <1>0, <1>2, <3>1 DEF P!Publish, Gathered, Working
    <3>4. p_desired[n] \in PodStatuses
      BY <3>1, <3>3
    <3> QED BY Zenon, <3>1, <3>2, <3>3, <3>4 DEF PodStatuses
  <2> QED BY Zenon, <2>2, <2>3, <2>4 DEF PodInv
<1>3. CASE Asking
  BY Zenon, <1>3, AskingKeeps, AskingGathers, PublishedKept DEF PodInv
<1> QED BY Zenon, <1>1, <1>2, <1>3 DEF P!PodStep, Asking

LEMMA PodsStep == ASSUME PodInv, [P!Next]_P!vars PROVE PodInv'
<1>1. CASE UNCHANGED P!vars
  <2>1. RuntimeTypes' /\ Advances /\ UNCHANGED <<p_pc, p_pod, p_desired, p_podStatus>>
    BY <1>1 DEF P!vars, P!daemon, P!containerd, PodInv, RuntimeTypes, P!Answering, Advances
  <2> QED BY Zenon, <2>1, GatheringQuiet, PublishedKept DEF PodInv
<1>2. CASE P!PodStep
  BY Zenon, <1>2, PodControllerStep
<1>3. CASE P!Next /\ ~P!PodStep
  <2>1. RuntimeTypes' /\ Advances /\ UNCHANGED <<p_pc, p_pod, p_desired, p_podStatus>>
    BY Zenon, <1>3, RuntimeStep DEF P!Next, PodInv
  <2> QED BY Zenon, <2>1, GatheringQuiet, PublishedKept DEF PodInv
<1> QED BY Zenon, <1>1, <1>2, <1>3

PodsInv == which = "pods" => PodInv

(* The invariant of the pods, for every sequence of pods.                  *)
LEMMA PodsInvariant == MCSpec => []PodsInv
<1>1. MCInit => PodsInv
  BY Zenon, PodInit DEF MCInit, PodsInv
<1>2. PodsInv /\ [MCNext]_state => PodsInv'
  <2> SUFFICES ASSUME PodsInv, [MCNext]_state, which' = "pods" PROVE PodInv'
    BY Zenon DEF PodsInv
  <2>1. which = "pods" /\ [P!Next]_P!vars
    BY Zenon DEF MCNext, state, podsState, P!vars, P!daemon, P!containerd
  <2> QED BY Zenon, <2>1, PodsStep DEF PodsInv
<1> QED BY <1>1, <1>2, PTL DEF MCSpec

(* Running is reported only of a container that was started and Failed     *)
(* only of one that exited, for every sequence of pods and however often   *)
(* containerd crashes, hangs or loses a reply.                             *)
THEOREM ReportsStayTrue == MCSpec => []ReportTrue
<1>1. PodsInv => ReportTrue
  BY Zenon, PodTypes DEF PodsInv, ReportTrue
<1> QED BY <1>1, PodsInvariant, PTL

-----------------------------------------------------------------------------
(* TimeSync: how far from the time the clock of a node that says it is     *)
(* synced can be.                                                          *)

(* How far off a clock set by one answer may be.                           *)
Error == (Timeout + 1) \div 2

(* Halving is off by at most half a tick, on either side of zero.          *)
LEMMA Halved ==
  ASSUME NEW x \in Int
  PROVE  T!half(x) \in Int /\ 2 * T!half(x) - x \in -1..1
  BY DEF T!half

(* The constants, as the proofs use them.                                  *)
LEMMA TimeConstants ==
  /\ Era \in Nat /\ Unix \in Nat /\ Unix < Era /\ Threshold \in Nat
  /\ Timeout \in Nat /\ Error \in Nat /\ T!servers \in Nat \ {0}
  /\ MaxTime \in Nat /\ MaxSyncs \in Nat /\ Starts \subseteq Nat /\ Clocks \subseteq Nat
  BY ControllersAssumption DEF T!TimeAssumption, T!servers, Error

(* A stamp wraps at most once.                                             *)
LEMMA Stamped ==
  ASSUME NEW n \in Nat, n < Era
  PROVE  T!unix_to_ntp(n) \in {n + Unix, n + Unix - Era}
<1>1. CASE n + Unix < Era
  BY <1>1, TimeConstants DEF T!unix_to_ntp
<1>2. CASE ~(n + Unix < Era)
  <2>1. n + Unix = Era * 1 + (n + Unix - Era) /\ n + Unix - Era \in 0..(Era - 1)
    BY <1>2, TimeConstants
  <2>2. (n + Unix) % Era = n + Unix - Era
    BY <2>1, TimeConstants
  <2> QED BY Zenon, <2>2 DEF T!unix_to_ntp
<1> QED BY Zenon, <1>1, <1>2

(* A query in flight was sent in the past, by the clock that is still the  *)
(* node's, and answered since: the stamp is of then, or of an era earlier. *)
InFlight ==
  /\ t_pc \in {"sent", "answered"} => t_t1 - t_skew <= t_now
  /\ t_pc = "answered" =>
       \E wrapped \in {0, Era} : t_t2 - Unix + wrapped \in (t_t1 - t_skew)..t_now

(* The bookkeeping behind the types.                                       *)
Counted ==
  /\ t_t1 \in Int /\ t_t2 \in Int
  /\ t_syncs \in 0..MaxSyncs /\ t_count <= t_syncs /\ (t_pc # "idle" => t_count < t_syncs)
  /\ t_pc \in {"sent", "answered"} => t_server <= T!servers
  /\ t_disabled \in BOOLEAN /\ (t_disabled => t_pc = "idle")

Elapsed == t_passed \in 0..MaxTime /\ \E s \in Starts : t_now = s + t_passed

ClockInv == T!TypeOK /\ Counted /\ Elapsed /\ InFlight /\ T!SyncedIsClose

LEMMA TimeBound == ASSUME Elapsed PROVE t_now \in Nat /\ t_now + Threshold + Error < Era
  BY ControllersAssumption, TimeConstants DEF Elapsed, T!Before2106, Error

(* However the round trip was split, an accepted answer's offset is within *)
(* half of it of what the clock is off by; one whose stamp wrapped points  *)
(* so far back that the clock is neither left alone nor set.               *)
LEMMA OffsetClose ==
  ASSUME ClockInv, t_pc = "answered", T!SystemTime - t_t1 <= Timeout,
         NEW off, off = T!parse_offset(t_t1, t_t2, T!SystemTime)
  PROVE  /\ off \in Int
         /\ \/ t_skew + off \in (-Error)..Error
            \/ off < -Threshold /\ T!SystemTime + off < 0
<1> DEFINE x == ((t_t2 - Unix) - t_t1) + ((t_t2 - Unix) - (t_now + t_skew))
<1>1. /\ x \in Int /\ t_now \in Int /\ t_skew \in Int /\ t_t1 \in Int /\ t_t2 \in Int
      /\ t_now + t_skew >= 0
  BY TimeConstants DEF ClockInv, T!TypeOK, Counted
<1>2. off = T!half(x)
  BY Zenon DEF T!parse_offset, T!ntp_to_unix, T!SystemTime
<1>3. PICK wrapped \in {0, Era} : t_t2 - Unix + wrapped \in (t_t1 - t_skew)..t_now
  BY Zenon DEF ClockInv, InFlight
<1>4. x + 2 * wrapped + 2 * t_skew \in (-Timeout)..Timeout
  BY <1>1, <1>3, TimeConstants DEF T!SystemTime
<1> HIDE DEF x
<1>5. off \in Int /\ 2 * (t_skew + off + wrapped) \in (-(Timeout + 1))..(Timeout + 1)
  BY <1>1, <1>2, <1>3, <1>4, Halved, TimeConstants
<1>6. t_skew + off + wrapped \in (-Error)..Error
  BY <1>1, <1>3, <1>5, TimeConstants DEF Error
<1>7. CASE wrapped = 0
  BY <1>1, <1>5, <1>6, <1>7
<1>8. CASE wrapped = Era
  BY <1>1, <1>5, <1>6, <1>8, TimeBound, TimeConstants DEF ClockInv, T!SystemTime
<1> QED BY Zenon, <1>3, <1>7, <1>8

(* So a reconcile that publishes a sync leaves the clock close to the time *)
(* and, if it stepped it, closer still.                                    *)
LEMMA SyncSets ==
  ASSUME ClockInv, T!Answered
  PROVE  /\ t_skew' \in Int /\ t_now + t_skew' >= 0
         /\ T!Abs(t_skew') <= Threshold + Error
         /\ t_skew' # t_skew => T!Abs(t_skew') <= Error
<1> DEFINE off == T!parse_offset(t_t1, t_t2, T!SystemTime)
<1>1. /\ off \in Int
      /\ \/ t_skew + off \in (-Error)..Error
         \/ off < -Threshold /\ T!SystemTime + off < 0
  BY Zenon, OffsetClose DEF T!Answered
<1>2. t_now \in Int /\ t_skew \in Int /\ t_now + t_skew >= 0
  BY DEF ClockInv, T!TypeOK
<1>3. /\ T!Abs(off) > Threshold => t_skew' = t_skew + off /\ T!SystemTime + off >= 0
      /\ ~(T!Abs(off) > Threshold) => t_skew' = t_skew
  BY Zenon DEF T!Answered, T!step_clock
<1> HIDE DEF off
<1>4. t_skew + off \in (-Error)..Error
  BY <1>1, <1>2, <1>3, TimeConstants DEF T!Abs, T!SystemTime
<1>5. CASE T!Abs(off) > Threshold
  BY <1>1, <1>2, <1>3, <1>4, <1>5, TimeConstants DEF T!Abs, T!SystemTime
<1>6. CASE ~(T!Abs(off) > Threshold)
  BY <1>1, <1>2, <1>3, <1>4, <1>6, TimeConstants DEF T!Abs
<1> QED BY Zenon, <1>5, <1>6

LEMMA ClockInit == ASSUME T!Init PROVE ClockInv
<1>1. T!TypeOK
  <2>1. t_now \in Nat /\ t_skew \in Int /\ t_now + t_skew >= 0
    BY TimeConstants DEF T!Init
  <2>2. t_server \in 1..(T!servers + 1) /\ t_count \in 0..MaxSyncs
    BY TimeConstants DEF T!Init
  <2>3. t_pc = "idle" /\ t_synced = FALSE
    BY Zenon DEF T!Init
  <2> QED BY Zenon, <2>1, <2>2, <2>3 DEF T!TypeOK
<1>2. Counted
  <2>1. /\ t_t1 = 0 /\ t_t2 = 0 /\ t_syncs = 0 /\ t_count = 0 /\ t_pc = "idle"
        /\ t_disabled \in BOOLEAN
    BY Zenon DEF T!Init
  <2> QED BY <2>1, TimeConstants DEF Counted
<1>3. Elapsed /\ InFlight /\ T!SyncedIsClose
  BY TimeConstants DEF T!Init, Elapsed, InFlight, T!SyncedIsClose
<1> QED BY Zenon, <1>1, <1>2, <1>3 DEF ClockInv

LEMMA ClockStep == ASSUME ClockInv, [T!Next]_T!vars PROVE ClockInv'
<1> USE DEF ClockInv
<1>0. t_now \in Nat /\ t_skew \in Int /\ t_t1 \in Int /\ t_t2 \in Int
  BY Zenon DEF T!TypeOK, Counted
<1>1. CASE UNCHANGED T!vars
  BY Zenon, <1>1 DEF T!vars, T!TypeOK, Counted, Elapsed, InFlight, T!SyncedIsClose
<1>2. CASE T!Tick
  <2>1. T!TypeOK' /\ Counted'
    BY <1>0, <1>2 DEF T!Tick, T!TypeOK, Counted, T!servers
  <2>2. Elapsed'
    BY <1>0, <1>2, TimeConstants DEF T!Tick, Elapsed
  <2>3. InFlight' /\ T!SyncedIsClose'
    BY <1>0, <1>2, TimeConstants DEF T!Tick, InFlight, T!SyncedIsClose
  <2> QED BY Zenon, <2>1, <2>2, <2>3
<1>3. CASE T!Reconcile
  <2>1. T!TypeOK'
    <3>1. /\ UNCHANGED <<t_now, t_skew, t_disabled, t_count>>
          /\ t_pc' \in {"idle", "ask"} /\ t_server' = 1
      BY Zenon, <1>3 DEF T!Reconcile, T!Publish
    <3>2. t_server' \in 1..(T!servers + 1)
      BY <3>1, TimeConstants
    <3>3. CASE UNCHANGED t_synced
      BY Zenon, <3>1, <3>2, <3>3 DEF T!TypeOK
    <3>4. CASE t_synced' = FALSE
      BY Zenon, <3>1, <3>2, <3>4 DEF T!TypeOK
    <3> QED BY Zenon, <1>3, <3>3, <3>4 DEF T!Reconcile, T!Publish
  <2>2. Counted'
    <3>1. /\ UNCHANGED <<t_t1, t_t2, t_disabled, t_count>>
          /\ t_syncs' = t_syncs + 1 /\ t_syncs < MaxSyncs
          /\ t_pc' \in {"idle", "ask"} /\ (t_disabled => t_pc' = "idle")
      BY Zenon, <1>3 DEF T!Reconcile, T!Publish
    <3> QED BY <1>0, <3>1, TimeConstants DEF T!TypeOK, Counted
  <2>3. Elapsed' /\ InFlight' /\ T!SyncedIsClose'
    BY Zenon, <1>0, <1>3 DEF T!Reconcile, T!Publish, Elapsed, InFlight, T!SyncedIsClose
  <2> QED BY Zenon, <2>1, <2>2, <2>3
<1>4. CASE T!Ask
  <2>1. T!TypeOK' /\ Counted'
    BY <1>0, <1>4 DEF T!Ask, T!SystemTime, T!TypeOK, Counted, T!servers
  <2>2. Elapsed' /\ InFlight' /\ T!SyncedIsClose'
    BY <1>0, <1>4 DEF T!Ask, T!SystemTime, Elapsed, InFlight, T!SyncedIsClose
  <2> QED BY Zenon, <2>1, <2>2
<1>5. CASE T!Serve
  <2>1. t_t2' \in {t_now + Unix, t_now + Unix - Era}
    BY <1>0, <1>5, Stamped, TimeBound, TimeConstants DEF T!Serve
  <2>2. InFlight'
    BY <1>0, <1>5, <2>1, TimeConstants DEF T!Serve, InFlight
  <2>3. T!TypeOK' /\ Elapsed' /\ T!SyncedIsClose'
    BY Zenon, <1>5 DEF T!Serve, T!TypeOK, Elapsed, T!SyncedIsClose, T!servers
  <2>4. t_t2' \in Int
    BY <1>0, <2>1, TimeConstants
  <2>5. Counted'
    BY Zenon, <1>5, <2>4 DEF T!Serve, Counted, T!servers
  <2> QED BY Zenon, <2>2, <2>3, <2>5
<1>6. CASE T!QueryFails
  <2>1. T!TypeOK' /\ Counted'
    BY <1>0, <1>6, TimeConstants DEF T!QueryFails, T!TypeOK, Counted
  <2>2. Elapsed' /\ InFlight' /\ T!SyncedIsClose'
    BY Zenon, <1>6 DEF T!QueryFails, Elapsed, InFlight, T!SyncedIsClose
  <2> QED BY Zenon, <2>1, <2>2
<1>7. CASE T!Answered
  <2>1. /\ UNCHANGED <<t_now, t_disabled, t_server, t_t1, t_t2, t_passed, t_syncs>>
        /\ t_pc' = "idle" /\ t_synced' = TRUE /\ t_count' = t_count + 1
        /\ t_pc = "answered"
    BY Zenon, <1>7 DEF T!Answered, T!Publish
  <2>2. /\ t_skew' \in Int /\ t_now + t_skew' >= 0
        /\ T!Abs(t_skew') <= Threshold + Error
    BY Zenon, <1>7, SyncSets
  <2>3. /\ t_count \in Nat /\ t_count' \in 0..MaxSyncs /\ t_count' > 0 /\ t_count' <= t_syncs
        /\ t_disabled = FALSE
    BY <2>1, TimeConstants DEF T!TypeOK, Counted
  <2>4. T!TypeOK'
    BY Zenon, <2>1, <2>2, <2>3 DEF T!TypeOK, T!servers
  <2>5. Counted' /\ Elapsed' /\ InFlight'
    BY Zenon, <2>1, <2>3 DEF Counted, Elapsed, InFlight, T!servers
  <2>6. T!SyncedIsClose'
    BY Zenon, <2>1, <2>2 DEF T!SyncedIsClose, Error
  <2> QED BY Zenon, <2>4, <2>5, <2>6
<1>8. CASE T!StepFails
  BY Zenon, <1>0, <1>8 DEF T!StepFails, T!TypeOK, Counted, Elapsed, InFlight, T!SyncedIsClose
<1>9. CASE T!NoneAnswered
  BY Zenon, <1>0, <1>9
     DEF T!NoneAnswered, T!Publish, T!TypeOK, Counted, Elapsed, InFlight, T!SyncedIsClose
<1> QED BY <1>1, <1>2, <1>3, <1>4, <1>5, <1>6, <1>7, <1>8, <1>9 DEF T!Next, T!Controller

(* In a behaviour about the clock its invariant holds.                     *)
TimeInv == which = "time" => ClockInv

LEMMA TimeInvariant == MCSpec => []TimeInv
<1>1. MCInit => TimeInv
  BY Zenon, ClockInit DEF MCInit, TimeInv
<1>2. TimeInv /\ [MCNext]_state => TimeInv'
  <2> SUFFICES ASSUME TimeInv, [MCNext]_state, which' = "time" PROVE ClockInv'
    BY Zenon DEF TimeInv
  <2>1. which = "time" /\ [T!Next]_T!vars
    BY Zenon DEF MCNext, state, timeState, T!vars
  <2> QED BY Zenon, <2>1, ClockStep DEF TimeInv
<1> QED BY <1>1, <1>2, PTL DEF MCSpec

(* A node that says it is synced is within the threshold and half the      *)
(* longest accepted round trip of the time, whatever its clock said before *)
(* and however the trips were split, across the end of the NTP era too     *)
(* (sync.rs, crates/time/src/lib.rs).                                      *)
THEOREM SyncedStaysClose == MCSpec => []SyncedIsClose
<1>1. TimeInv => SyncedIsClose
  BY Zenon DEF TimeInv, ClockInv, SyncedIsClose
<1> QED BY <1>1, TimeInvariant, PTL

(* A step of the clock lands within half a round trip of the time, so an   *)
(* answer that was slow does not make a clock that is nearly right worse   *)
(* (sync.rs, crates/time/src/lib.rs).                                      *)
THEOREM StepsImprove == MCSpec => T!StepImproves
<1>1. TimeInv /\ [MCNext]_state
        => [t_skew' # t_skew => T!Abs(t_skew') <= (Timeout + 1) \div 2]_T!vars
  <2> SUFFICES ASSUME TimeInv, [MCNext]_state, t_skew' # t_skew
               PROVE  T!Abs(t_skew') <= Error
    BY Zenon DEF Error
  <2>1. which = "time" /\ T!Next
    BY Zenon DEF MCNext, state, timeState
  <2>2. T!Answered
    BY Zenon, <2>1 DEF T!Next, T!Controller, T!Tick, T!Reconcile, T!Ask, T!Serve, T!QueryFails,
                T!StepFails, T!NoneAnswered
  <2> QED BY Zenon, <2>1, <2>2, SyncSets DEF TimeInv
<1> QED BY <1>1, TimeInvariant, PTL DEF MCSpec, T!StepImproves
=============================================================================
