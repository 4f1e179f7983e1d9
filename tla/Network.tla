------------------------------- MODULE Network -------------------------------
(***************************************************************************)
(* Bringing up the network: NetworkConfigController turns the static       *)
(* machine config into desired specs, the link, address and route          *)
(* controllers apply them through netlink and publish what they applied,   *)
(* and the hostname and resolver controllers write theirs wholesale        *)
(* (crates/controllers/src/network, crates/netlink).                       *)
(*                                                                         *)
(* Each controller is a loop of its own, woken by an event of a type it    *)
(* watches; a reconcile that fails is logged and not run again until the   *)
(* next event (what ControllerLoop shows).  The config never changes while *)
(* the daemon runs, so no spec is torn down here: Cascade is about that.   *)
(*                                                                         *)
(* An address text is a record of what stands before and after its slash.  *)
(***************************************************************************)
EXTENDS Naturals, Sequences, Functions

CONSTANTS
  Configs,     \* the machine configs: their interfaces, hostname (or None), nameservers
  V4, V6,      \* what parses as an address of each family
  Nics,        \* the links the kernel has
  UpAtBoot,    \* those that are up before the daemon configures them
  OnLink,      \* the pairs <<address text, gateway>> with the gateway in the prefix
  BadMtu,      \* the MTUs the driver refuses
  None

VARIABLES
  config,  \* the machine config of the node
  specs,   \* for each spec type, the specs in the store by id
  held,    \* for each spec type, the ids its controller holds a finalizer on
  status,  \* for each spec type, the ids with a status published
  wake,    \* the controllers with an unread event
  at,      \* where each controller is in its reconcile
  todo,    \* the inputs its reconcile has left
  cur,     \* the input its call is about
  up, addrs, fib,  \* the kernel: links that are up, addresses, routes
  name, resolv     \* the hostname and /etc/resolv.conf in force

vars == <<config, specs, held, status, wake, at, todo, cur, up, addrs, fib, name, resolv>>
kernel == <<up, addrs, fib, name, resolv>>

Controllers == {"network-config", "link", "address", "route", "hostname", "resolver"}

spec_types == <<"LinkSpec", "AddressSpec", "RouteSpec", "HostnameSpec", "ResolverSpec">>

Types == Range(spec_types)

-----------------------------------------------------------------------------
(* The desired specs, from the config.                                     *)

(* Whether a text parses as an AddrCidr: an address of either family and a *)
(* prefix no longer than it.                                               *)
from_str(s) == \/ s.ip \in V4 /\ s.prefix \in 0..32
               \/ s.ip \in V6 /\ s.prefix \in 0..128

(* Every way to write the default route is the same destination.           *)
destination(r) ==
  IF r.to = None \/ r.to \in {[ip |-> "0.0.0.0", prefix |-> 0], [ip |-> "::", prefix |-> 0]}
  THEN None ELSE r.to

LinkSpec(i) == [id |-> i.name, link |-> i.name, up |-> i.up, mtu |-> i.mtu]

AddressSpecs(i) ==
  {[id |-> <<i.name, a>>, link |-> i.name, address |-> a] :
     a \in {a \in Range(i.addresses) : from_str(a)}}

(* The id of a route names its link, destination and gateway, and not its  *)
(* metric.                                                                 *)
RouteSpecs(i) ==
  {[id |-> <<i.name, destination(r), r.via>>, link |-> i.name,
    destination |-> destination(r), gateway |-> r.via, metric |-> r.metric] :
     r \in {r \in Range(i.routes) : destination(r) = None \/ from_str(destination(r))}}

(* Loopback is brought up unless the config has an interface of that name. *)
Loopback(net) ==
  IF \E i \in net : i.name = "lo" THEN {}
  ELSE {[id |-> "lo", link |-> "lo", up |-> TRUE, mtu |-> None]}

(* Of each type, for each config: a set, for reconcile_owned asks of its   *)
(* caller that "ids must be unique" (runtime-core/src/owned.rs:19).        *)
Desired ==
  [c \in Configs |-> [t \in Types |->
     LET net == Range(c.interfaces) IN
     CASE t = "LinkSpec" -> {LinkSpec(i) : i \in net} \cup Loopback(net)
       [] t = "AddressSpec" -> UNION {AddressSpecs(i) : i \in net}
       [] t = "RouteSpec" -> UNION {RouteSpecs(i) : i \in net}
       [] t = "HostnameSpec" -> IF c.hostname = None THEN {}
                                ELSE {[id |-> "hostname", value |-> c.hostname]}
       [] t = "ResolverSpec" -> IF c.nameservers = <<>> THEN {}
                                ELSE {[id |-> "resolver", value |-> c.nameservers]}]]

(* No interface and no route of a config is there twice with a difference. *)
NetworkAssumption ==
  /\ \A c \in Configs : \A t \in Types : \A s, o \in Desired[c][t] : s.id = o.id => s = o
  /\ \A c \in Configs : \A i \in Range(c.interfaces) : i.up \in BOOLEAN
  /\ UpAtBoot \subseteq Nics

desired == Desired[config]

Ids(t) == {s.id : s \in desired[t]}

-----------------------------------------------------------------------------
(* What each controller watches.                                           *)

Applies(c) ==
  CASE c = "link" -> "LinkSpec"         [] c = "address" -> "AddressSpec"
    [] c = "route" -> "RouteSpec"       [] c = "hostname" -> "HostnameSpec"
    [] c = "resolver" -> "ResolverSpec"

(* The config controller watches its own outputs.                          *)
Watchers(t) == {c \in Controllers : c = "network-config" \/ Applies(c) = t}

(* Mutant: the route controller watches its own specs only.                *)
StatusWatchersNone(t) == {}

(* The route controller also watches AddressStatus; no controller watches  *)
(* LinkStatus or RouteStatus.                                              *)
StatusWatchers(t) == IF t = "AddressSpec" THEN {"route"} ELSE {}

(* Every loop reconciles once when it starts.  Only the config controller  *)
(* finds something to do by then: to the others nothing is listed before a *)
(* spec is created, and its creation wakes them.                           *)
Init ==
  /\ config \in Configs
  /\ specs = [t \in Types |-> <<>>]
  /\ held = [t \in Types |-> {}] /\ status = [t \in Types |-> {}]
  /\ wake = {"network-config"}
  /\ at = [c \in Controllers |-> "idle"] /\ todo = [c \in Controllers |-> {}]
  /\ cur = [c \in Controllers |-> None]
  /\ up = UpAtBoot /\ addrs = {} /\ fib = {}
  /\ name = None /\ resolv = <<>>

(* A reconcile with no input left is over.                                 *)
Goto(c, place, rest) ==
  /\ at' = [at EXCEPT ![c] = IF place = "each" /\ rest = {} THEN "idle" ELSE place]
  /\ todo' = [todo EXCEPT ![c] = rest]

(* A reconcile begins with what its controller lists: the event is read    *)
(* before.                                                                 *)
Begin(c) ==
  /\ at[c] = "idle" /\ c \in wake
  /\ wake' = wake \ {c}
  /\ IF c = "network-config" THEN Goto(c, Head(spec_types), {})
     ELSE Goto(c, "each", Range(specs[Applies(c)]))
  /\ UNCHANGED <<config, specs, held, status, cur, kernel>>

-----------------------------------------------------------------------------
(* NetworkConfigController: reconcile_owned for one type after the other.  *)
(* Desired objects are created, or updated when their spec differs, one by *)
(* one, each with its event; the others are left alone.  Loopback is the   *)
(* last of the links.                                                      *)

reconcile_owned(n) ==
  LET c == "network-config"
      t == spec_types[n]
      missing == desired[t] \ Range(specs[t])
  IN /\ at[c] = t
     /\ \/ \E s \in missing :
             /\ s \in Loopback(Range(config.interfaces)) => missing = {s}
             /\ specs' = [specs EXCEPT ![t] = [i \in DOMAIN @ \cup {s.id} |->
                                               IF i = s.id THEN s ELSE @[i]]]
             /\ wake' = wake \cup Watchers(t)
             /\ UNCHANGED <<at, todo>>
        \/ /\ missing = {} /\ UNCHANGED <<specs, wake>>
           /\ Goto(c, IF n = Len(spec_types) THEN "idle" ELSE spec_types[n + 1], {})
     /\ UNCHANGED <<config, held, status, cur, kernel>>

-----------------------------------------------------------------------------
(* The calls of the backend and what they do to the kernel.                *)

(* A link that goes down takes its routes and its IPv6 addresses with it.  *)
set_link_up(s) ==
  /\ up' = IF s.up THEN up \cup {s.link} ELSE up \ {s.link}
  /\ fib' = {r \in fib : r.link # s.link \/ s.up}
  /\ addrs' = {a \in addrs : a[1] # s.link \/ s.up \/ a[2].ip \in V4}
  /\ UNCHANGED <<name, resolv>>

(* An address that is there already is success.                            *)
add_address(s) ==
  /\ addrs' = addrs \cup {<<s.link, s.address>>}
  /\ UNCHANGED <<up, fib, name, resolv>>

add_route(s) ==
  /\ fib' = fib \cup {s}
  /\ UNCHANGED <<up, addrs, name, resolv>>

(* The backend refuses a route of mixed families.  The kernel takes one    *)
(* whose link is up and has an address in whose prefix the gateway lies,   *)
(* and refuses one whose destination and metric it has (EEXIST), which the *)
(* backend passes on as an error.                                          *)
IsV4(ip) == ip \in V4
Mixed(s) == s.destination # None /\ IsV4(s.destination.ip) # IsV4(s.gateway)

RouteAccepted(s) ==
  /\ ~Mixed(s) /\ s.link \in up
  /\ \E a \in addrs : a[1] = s.link /\ <<a[2], s.gateway>> \in OnLink
  /\ ~\E r \in fib : /\ r.destination = s.destination /\ r.metric = s.metric
                     /\ IsV4(r.gateway) = IsV4(s.gateway)

(* Mutant: an error of the kernel is not passed on.                        *)
SucceedsRegardless(c, s) == s.link \in Nics

(* The MTU is set after the link: a refused one fails the apply and leaves *)
(* the link as it was asked to be.                                         *)
Succeeds(c, s) ==
  /\ s.link \in Nics
  /\ c = "link" => s.mtu \notin BadMtu
  /\ c = "route" => RouteAccepted(s)

Calls(c, s) ==
  CASE s.link \notin Nics -> UNCHANGED kernel
    [] s.link \in Nics /\ c = "link" -> set_link_up(s)
    [] s.link \in Nics /\ c = "address" -> add_address(s)
    [] s.link \in Nics /\ c = "route" ->
         IF RouteAccepted(s) THEN add_route(s) ELSE UNCHANGED kernel

-----------------------------------------------------------------------------
(* reconcile_finalized, for one input after the other: the finalizer, the  *)
(* call, the status.  The first error ends the reconcile.                  *)

Finalizing == {"link", "address", "route"}

add_finalizer(c, s) ==
  LET t == Applies(c) IN
  /\ c \in Finalizing /\ at[c] = "each" /\ s \in todo[c]
  /\ held' = [held EXCEPT ![t] = @ \cup {s.id}]
  /\ wake' = IF s.id \in held[t] THEN wake ELSE wake \cup Watchers(t)
  /\ Goto(c, "apply", todo[c] \ {s})
  /\ cur' = [cur EXCEPT ![c] = s]
  /\ UNCHANGED <<config, specs, status, kernel>>

Publish(c, s) ==
  /\ status' = [status EXCEPT ![Applies(c)] = @ \cup {s.id}]
  /\ wake' = wake \cup StatusWatchers(Applies(c))

(* The call and, when it succeeds, the status, which is announced even     *)
(* when it is the one already there.  No other controller's calls tell the *)
(* two apart.                                                              *)
Apply(c) ==
  LET s == cur[c] IN
  /\ at[c] = "apply"
  /\ Calls(c, s)
  /\ IF Succeeds(c, s)
     THEN Publish(c, s) /\ Goto(c, "each", todo[c])
     ELSE Goto(c, "idle", {}) /\ UNCHANGED <<status, wake>>
  /\ cur' = [cur EXCEPT ![c] = None]
  /\ UNCHANGED <<config, specs, held>>

(* HostnameController and ResolverController write what they list          *)
(* wholesale, the resolver by renaming a whole file into place.            *)
set_hostname ==
  /\ "hostname" \in wake
  /\ wake' = wake \ {"hostname"}
  /\ \E i \in DOMAIN specs["HostnameSpec"] : name' = specs["HostnameSpec"][i].value
  /\ UNCHANGED <<config, specs, held, status, at, todo, cur, up, addrs, fib, resolv>>

write_resolv ==
  /\ "resolver" \in wake
  /\ wake' = wake \ {"resolver"}
  /\ \E i \in DOMAIN specs["ResolverSpec"] : resolv' = specs["ResolverSpec"][i].value
  /\ UNCHANGED <<config, specs, held, status, at, todo, cur, up, addrs, fib, name>>

Config == Begin("network-config") \/ \E n \in 1..Len(spec_types) : reconcile_owned(n)

Finalized(c) == Begin(c) \/ Apply(c) \/ \E s \in todo[c] : add_finalizer(c, s)

Next ==
  \/ Config
  \/ \E c \in Finalizing : Finalized(c)
  \/ set_hostname
  \/ write_resolv

Spec == Init /\ [][Next]_vars

(* Every loop is a tokio task and a netlink call returns.                  *)
Fairness ==
  /\ WF_vars(Config)
  /\ \A c \in Finalizing : WF_vars(Finalized(c))
  /\ WF_vars(set_hostname) /\ WF_vars(write_resolv)

LiveSpec == Spec /\ Fairness

-----------------------------------------------------------------------------
TypeOK ==
  /\ \A t \in Types : /\ DOMAIN specs[t] \subseteq Ids(t)
                       /\ status[t] \subseteq held[t] /\ held[t] \subseteq DOMAIN specs[t]
  /\ wake \subseteq Controllers
  /\ at["network-config"] \in Types \cup {"idle"}
  /\ \A c \in Finalizing : at[c] \in {"idle", "each", "apply"}
  /\ up \subseteq Nics
  /\ \A a \in addrs : a[1] \in Nics /\ from_str(a[2])

(* Whether a spec is in force.                                             *)
InForce(t, s) ==
  CASE t = "LinkSpec" -> s.link \in Nics /\ (s.link \in up <=> s.up)
    [] t = "AddressSpec" -> <<s.link, s.address>> \in addrs
    [] t = "RouteSpec" -> s \in fib
    [] t = "HostnameSpec" -> name = s.value
    [] t = "ResolverSpec" -> resolv = s.value

(* Whether the config has a link down.                                     *)
TakenDown(link) == \E s \in desired["LinkSpec"] : s.link = link /\ ~s.up

(* What a controller publishes is what the kernel has: a LinkStatus, an    *)
(* AddressStatus and a RouteStatus stand only for a link, an address and a *)
(* route in force, whatever the other specs of the config do to it later.  *)
(* One thing is left out: a link the config has down may take an address   *)
(* or a route with it after its status was published, for no controller    *)
(* watches LinkStatus.                                                     *)
StatusTrue ==
  \A t \in Types : \A i \in status[t] :
    LET s == specs[t][i]
    IN InForce(t, s) \/ (t \in {"AddressSpec", "RouteSpec"} /\ TakenDown(s.link))

AllInForce(t) == \A s \in desired[t] : InForce(t, s)

AtRest == wake = {} /\ \A c \in Controllers : at[c] = "idle"

(* Whether the kernel can take all of the config's links: every one is     *)
(* there, wanted up, and takes its MTU.                                    *)
LinksAppliable ==
  \A n \in DOMAIN config.interfaces :
    LET i == config.interfaces[n] IN i.name \in Nics /\ i.up /\ i.mtu \notin BadMtu

(* Whether the kernel can take each of its routes as soon as the addresses *)
(* are there: the link is up by itself and the gateway in a prefix.        *)
RoutesAppliable ==
  \A r \in desired["RouteSpec"] :
    /\ ~Mixed(r) /\ r.link \in UpAtBoot
    /\ \E a \in desired["AddressSpec"] : a.link = r.link /\ <<a.address, r.gateway>> \in OnLink

InEffect ==
  /\ AllInForce("HostnameSpec") /\ AllInForce("ResolverSpec")
  /\ LinksAppliable => AllInForce("LinkSpec") /\ AllInForce("AddressSpec")
  /\ LinksAppliable /\ RoutesAppliable /\ desired["RouteSpec"] # {} =>
       \E r \in desired["RouteSpec"] : InForce("RouteSpec", r)

(* In the end the links and addresses of a config the kernel can take are  *)
(* in force, in whatever order the controllers run, and the route too: it  *)
(* is tried again when its address is published ("this is the retry chain  *)
(* that lets the route converge", network/route.rs:41-42).  Of several     *)
(* routes one is promised: adding one that is there is an error that ends  *)
(* the reconcile before the others (rtnetlink_backend.rs:182).  A route    *)
(* whose link comes up after its address is not: nobody watches            *)
(* LinkStatus.  What the kernel refuses keeps neither the hostname nor the *)
(* nameservers back.                                                       *)
Converges == <>[]InEffect

(* The loops come to rest: the config controller, which watches what it    *)
(* writes, does not keep waking itself.  "Idempotency (no-op on equal      *)
(* spec) keeps this from self-storming." (network/config_controller.rs:58) *)
Settles == <>[]AtRest
=============================================================================
