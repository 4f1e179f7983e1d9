----------------------------- MODULE Machinectl -----------------------------
(* The management CLI and the API handlers it calls (machinectl/src/main.rs,  *)
(* apiserver/src/service.rs): one invocation per client, a node that may be   *)
(* down, hang or die at any time, and the daemon that takes actions from the  *)
(* channel of one slot.                                                       *)
(*                                                                            *)
(* Every call is bounded by a timeout; the handler of a call that timed out   *)
(* runs until the server notices the reset stream, so its action may still be *)
(* queued.  What the daemon does with an action is module Lifecycle.          *)
EXTENDS Naturals, Sequences

CONSTANTS
    Clients,
    Command,    \* what each client runs
    Known       \* the resource types parse_resource_type has a name for

Actions == {"Reboot", "Shutdown", "Reset", "Upgrade"}

\* A reset without --yes, a listing of a type, the version, or an action.
CommandAssumption ==
    \A c \in Clients : Command[c].does \in Actions \cup {"Version", "Get"}

VARIABLES
    node,      \* "up", "hung" (accepts and never answers) or "down"
    at,        \* where each client is
    handler,   \* the node's handler of each client's call
    chan,      \* the action channel: the clients whose actions it holds
    queued     \* the clients whose actions were ever in the channel

vars == <<node, at, handler, chan, queued>>

Ended == {"printed", "error", "refused"}

TypeOK ==
    /\ node \in {"up", "hung", "down"}
    /\ at \in [Clients -> {"start", "connect", "call"} \cup Ended]
    /\ handler \in [Clients -> {"none", "pending", "ok", "invalid", "gone"}]
    /\ Len(chan) <= 1 /\ queued \subseteq Clients

Init ==
    /\ node = "up" /\ at = [c \in Clients |-> "start"]
    /\ handler = [c \in Clients |-> "none"] /\ chan = <<>> /\ queued = {}

Goto(c, here, there) == at[c] = here /\ at' = [at EXCEPT ![c] = there]

\* A reset is refused before anything is sent unless it is confirmed.
Main(c) ==
    /\ IF Command[c].does = "Reset" /\ ~Command[c].yes
       THEN Goto(c, "start", "refused") ELSE Goto(c, "start", "connect")
    /\ UNCHANGED <<node, handler, chan, queued>>

\* The TLS handshake needs a node that answers.
Connect(c) ==
    /\ node = "up" /\ Goto(c, "connect", "call")
    /\ handler' = [handler EXCEPT ![c] = "pending"]
    /\ UNCHANGED <<node, chan, queued>>

\* version, and list_resources with a type that parses or not.
Answer(c) ==
    /\ node = "up" /\ handler[c] = "pending" /\ Command[c].does \notin Actions
    /\ handler' = [handler EXCEPT ![c] =
          IF Command[c].does = "Get" /\ Command[c].type \notin Known THEN "invalid" ELSE "ok"]
    /\ UNCHANGED <<node, at, chan, queued>>

\* A handler that answers and leaves the sending to a task, for the mutant.
SendLater(c) ==
    /\ node = "up" /\ handler[c] = "pending" /\ Command[c].does \in Actions
    /\ handler' = [handler EXCEPT ![c] = "ok"]
    /\ IF chan = <<>> THEN chan' = <<c>> /\ queued' = queued \cup {c}
       ELSE UNCHANGED <<chan, queued>>
    /\ UNCHANGED <<node, at>>

\* reboot, shutdown, reset, upgrade: the action is sent, when there is room.
Send(c) ==
    /\ node = "up" /\ handler[c] = "pending" /\ Command[c].does \in Actions
    /\ chan = <<>> /\ chan' = <<c>> /\ queued' = queued \cup {c}
    /\ handler' = [handler EXCEPT ![c] = "ok"]
    /\ UNCHANGED <<node, at>>

\* The answer reaches the client, which prints it or fails.
Reply(c) ==
    /\ node = "up" /\ handler[c] \in {"ok", "invalid"}
    /\ Goto(c, "call", IF handler[c] = "ok" THEN "printed" ELSE "error")
    /\ UNCHANGED <<node, handler, chan, queued>>

\* A client that only times out while it connects, for the mutant.
TimeoutConnect(c) ==
    /\ Goto(c, "connect", "error")
    /\ UNCHANGED <<node, handler, chan, queued>>

\* 5 seconds to connect, 10 seconds a request.
Timeout(c) ==
    /\ Goto(c, "connect", "error") \/ Goto(c, "call", "error")
    /\ UNCHANGED <<node, handler, chan, queued>>

\* The server drops the handler of a call its client gave up.
Dropped(c) ==
    /\ node = "up" /\ at[c] = "error" /\ handler[c] = "pending"
    /\ handler' = [handler EXCEPT ![c] = "gone"]
    /\ UNCHANGED <<node, at, chan, queued>>

\* The daemon's main loop takes an action.
Take ==
    /\ node = "up" /\ chan # <<>> /\ chan' = Tail(chan)
    /\ UNCHANGED <<node, at, handler, queued>>

\* The node stops answering, or dies with its handlers and its channel.
Hang == node = "up" /\ node' = "hung" /\ UNCHANGED <<at, handler, chan, queued>>

Die ==
    /\ node # "down" /\ node' = "down" /\ chan' = <<>>
    /\ handler' = [c \in Clients |-> "gone"] /\ UNCHANGED <<at, queued>>

Client(c) == Main(c) \/ Connect(c) \/ Reply(c) \/ Timeout(c)

Next ==
    \/ \E c \in Clients : Client(c) \/ Answer(c) \/ Send(c) \/ Dropped(c)
    \/ Take \/ Hang \/ Die

\* Only the client's own steps, its timers among them, are sure to happen.
Spec == Init /\ [][Next]_vars /\ \A c \in Clients : WF_vars(Client(c))

-----------------------------------------------------------------------------
\* "A management CLI must never block forever on a dead node": every command
\* ends, whatever the node does, and while others hold the channel.
CommandsEnd == <>(\A c \in Clients : at[c] \in Ended)

\* A client that reports its action as requested had it accepted by the daemon
\* ("handed to the daemon main loop"): the handler answers after its send.
ReportedIsQueued ==
    \A c \in Clients : at[c] = "printed" /\ Command[c].does \in Actions => c \in queued
=============================================================================
