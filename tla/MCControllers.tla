--------------------------- MODULE MCControllers ----------------------------
(***************************************************************************)
(* The controllers that face the world outside the store: the clock, the   *)
(* network and the pods.  Each drives a system of its own (NTP servers,    *)
(* the kernel's links, containerd) and shares no resource with the others, *)
(* so they are checked side by side: which says what a behaviour is about. *)
(***************************************************************************)
EXTENDS Network, Integers

CONSTANTS
  PodSeq, Image, Pause, Hangs, PodFaults, web, imgWeb,  \* of Pods
  Configured, Starts, Clocks, Unix, Era, Threshold, Timeout, MaxTime, MaxSyncs,
  MaxFaults, Unset                                      \* of TimeSync

VARIABLES
  which,  \* the part the behaviour is about
  p_disabled, p_serving, p_sock, p_images, p_sandbox, p_container,
  p_importer, p_tars, p_hpc, p_hready, p_status, p_pc, p_pod, p_desired,
  p_podStatus, p_faults,
  t_now, t_skew, t_disabled, t_unset, t_pc, t_server, t_t1, t_t2, t_synced,
  t_offset, t_count, t_passed, t_syncs, t_faults

A(ip, prefix) == [ip |-> ip, prefix |-> prefix]
R(to, via, metric) == [to |-> to, via |-> via, metric |-> metric]

MCV4 == {"10.0.0.1", "10.0.0.2", "10.0.1.1", "10.9.0.0", "0.0.0.0"}
MCV6 == {"fd00::2"}
MCOnLink == {<<A("10.0.0.2", 24), "10.0.0.1">>}

(* A link with a bad prefix and an address that does not parse among its   *)
(* addresses, and a bad prefix among its routes.                           *)
eth0 == [name |-> "eth0", up |-> TRUE, mtu |-> None,
         addresses |-> <<A("10.0.0.2", 24), A("10.0.0.2", 33), A("nonsense", 24)>>,
         routes |-> <<R(None, "10.0.0.1", 0), R(A("10.9.0.0", 99), "10.0.0.1", 0)>>]

(* A link that is down, whose driver refuses the MTU, and a route of       *)
(* another address family.                                                 *)
eth1 == [name |-> "eth1", up |-> TRUE, mtu |-> 9000, addresses |-> <<>>,
         routes |-> <<R(A("fd00::2", 64), "10.0.1.1", 10)>>]

(* A link that the config has down, with an address and a route on it.     *)
down0 == [eth0 EXCEPT !.up = FALSE, !.addresses = <<A("10.0.0.2", 24)>>,
                      !.routes = <<R(None, "10.0.0.1", 0)>>]

(* Two routes through one gateway.                                         *)
two0 == [down0 EXCEPT !.up = TRUE,
                      !.routes = <<R(None, "10.0.0.1", 0), R(A("10.9.0.0", 16), "10.0.0.1", 0)>>]

(* A link that is down until the daemon brings it up.                      *)
late1 == [down0 EXCEPT !.name = "eth1", !.up = TRUE]

(* A link the kernel does not have.                                        *)
eth9 == [name |-> "eth9", up |-> TRUE, mtu |-> None, addresses |-> <<>>, routes |-> <<>>]

MCConfigs ==
  {[interfaces |-> <<eth0>>, hostname |-> None, nameservers |-> <<>>],
   [interfaces |-> <<down0>>, hostname |-> None, nameservers |-> <<>>],
   [interfaces |-> <<two0>>, hostname |-> None, nameservers |-> <<>>],
   [interfaces |-> <<late1>>, hostname |-> None, nameservers |-> <<>>],
   [interfaces |-> <<eth1>>, hostname |-> None, nameservers |-> <<>>],
   [interfaces |-> <<eth9>>, hostname |-> "node", nameservers |-> <<"10.0.0.1">>]}

OnePod == <<web>>
OneImage == [q \in {web} |-> imgWeb]

P == INSTANCE Pods WITH
  MaxFaults <- PodFaults, disabled <- p_disabled,
  serving <- p_serving, sock <- p_sock, images <- p_images,
  sandbox <- p_sandbox, container <- p_container, importer <- p_importer,
  tars <- p_tars, hpc <- p_hpc, hready <- p_hready, status <- p_status,
  pc <- p_pc, pod <- p_pod, desired <- p_desired, podStatus <- p_podStatus,
  faults <- p_faults

T == INSTANCE TimeSync WITH
  now <- t_now, skew <- t_skew,
  disabled <- t_disabled, unset <- t_unset, pc <- t_pc, server <- t_server,
  t1 <- t_t1, t2 <- t_t2, synced <- t_synced, offset <- t_offset,
  count <- t_count, passed <- t_passed, syncs <- t_syncs, faults <- t_faults

-----------------------------------------------------------------------------
networkState == <<config, specs, held, status, wake, at, todo, cur, up,
  addrs, fib, name, resolv>>
podsState == <<p_disabled, p_serving, p_sock, p_images, p_sandbox,
  p_container, p_importer, p_tars, p_hpc, p_hready, p_status, p_pc, p_pod,
  p_desired, p_podStatus, p_faults>>
timeState == <<t_now, t_skew, t_disabled, t_unset, t_pc, t_server, t_t1,
  t_t2, t_synced, t_offset, t_count, t_passed, t_syncs, t_faults>>

ASSUME ControllersAssumption ==
  NetworkAssumption /\ P!PodsAssumption /\ T!TimeAssumption /\ T!Before2106

(* A part that a behaviour is not about rests in an initial state.         *)
NetworkRests == config = (CHOOSE c \in Configs : c.hostname = "node") /\ Init
TimeRests ==
  /\ t_now = (CHOOSE s \in Starts : TRUE) /\ t_skew = (CHOOSE c \in Clocks : TRUE) - t_now
  /\ t_disabled = TRUE /\ t_unset = FALSE /\ T!Init
PodsRests ==
  /\ p_disabled = TRUE /\ p_images = {} /\ p_sandbox = [q \in P!Pods |-> "none"]
  /\ P!Init

MCInit ==
  \/ which = "network" /\ Init /\ PodsRests /\ TimeRests
  \/ which = "pods" /\ P!Init /\ NetworkRests /\ TimeRests
  \/ which = "time" /\ T!Init /\ NetworkRests /\ PodsRests

MCNext ==
  \/ /\ which = "network" /\ Next
     /\ UNCHANGED <<which, podsState, timeState>>
  \/ /\ which = "pods" /\ P!Next
     /\ UNCHANGED <<which, networkState, timeState>>
  \/ /\ which = "time" /\ T!Next
     /\ UNCHANGED <<which, networkState, podsState>>

state == <<which, networkState, podsState, timeState>>

(* Every controller is a tokio task, and nothing is assumed of what it     *)
(* talks to: the fairness of the components' own specifications, and for   *)
(* the network less, that one of the loops that are not at rest moves.     *)
MCSpec ==
  /\ MCInit /\ [][MCNext]_state
  /\ WF_timeState(which = "time" /\ T!Controller)
  /\ WF_networkState(which = "network" /\ Next)
  /\ WF_podsState(which = "pods" /\ P!Import)
  /\ WF_podsState(which = "pods" /\ P!Health)
  /\ WF_podsState(which = "pods" /\ P!PodStep)

-----------------------------------------------------------------------------
(* Network: what a controller publishes is what the kernel has, also when  *)
(* a link of the config is missing, down or refuses its MTU.               *)
StatusesTrue == which = "network" => TypeOK /\ StatusTrue

(* Network: the loops come to rest, and then the links and addresses of a  *)
(* config that can be applied are in force, and its route by being tried   *)
(* again when an address is published; of several routes one.              *)
NetworkConverges == <>[](which = "network" => InEffect /\ AtRest)

(* Pods: Running is reported only of a container that was started, Failed  *)
(* only of one that exited.                                                *)
ReportTrue == which = "pods" => P!TypeOK /\ P!ReportTrue

(* Pods: RuntimeStatus follows containerd down and up, and once it stays   *)
(* up with the images every pod gets to run, wherever an earlier attempt   *)
(* was cut off, but for one whose sandbox is not ready: its name is taken. *)
PodsRun == P!StatusFollows /\ P!PodsRun

(* TimeSync: a node that says it is synced has the right time, to within   *)
(* the threshold and half the longest round trip.                          *)
SyncedIsClose == which = "time" => T!TypeOK /\ T!SyncedIsClose

(* TimeSync: a step of the clock lands within half a round trip of the     *)
(* time, and a server that answers is enough in the end.                   *)
ClockSet == T!StepImproves /\ T!Syncs
=============================================================================
