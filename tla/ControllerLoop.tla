--------------------------- MODULE ControllerLoop ---------------------------
(***************************************************************************)
(* One controller's reconcile loop (crates/runtime-core/src/runtime.rs)    *)
(* over the store and its broadcast channel (state.rs, watch.rs).  Other   *)
(* tasks write to the store; each event is sent only after the write's     *)
(* mutex is released, so a reconcile can fall between a write and its      *)
(* event, and events can be sent out of order.  The channel is bounded: a  *)
(* receiver that falls behind loses the oldest events and is told so.      *)
(***************************************************************************)
EXTENDS StateOps, Sequences

CONSTANTS
  Inputs,    \* the keys matched by the controller's inputs()
  Writers,   \* the other tasks that write to the store
  Self,      \* the controller, which writes while it reconciles
  Unseen,    \* the view of an input before the first reconcile
  Capacity,  \* CHANNEL_CAPACITY
  Resync,    \* does the controller have a resync interval?
  MaxWrites  \* bound: writes to the store

ASSUME LoopAssumption ==
  /\ Inputs \subseteq Keys
  /\ Capacity \in Nat \ {0}
  /\ Resync \in BOOLEAN
  /\ Unseen \notin Object \cup {None}

VARIABLES
  objects,   \* the store
  emitting,  \* the event each task is about to send, or None
  queue,     \* the events retained for the loop's receiver, oldest first
  lagged,    \* the receiver has lost events and has not been told
  pc,        \* where the loop is
  toRead,    \* the inputs the reconcile under way has still to read
  view,      \* the inputs as the loop last read them
  cancelled, \* the shutdown token
  writes     \* how many writes there were

storeVars == <<objects, writes>>
chanVars == <<queue, lagged>>
loopVars == <<pc, toRead, view>>
vars == <<storeVars, chanVars, loopVars, emitting, cancelled>>

Tasks == Writers \cup {Self}

PC == {"Start", "Reading", "Working", "Waiting", "Debounce", "Drain", "Stopped"}

(* The loop looks at nothing of an event but its key, so the retained      *)
(* events are kept as keys.                                                *)
TypeOK ==
  /\ objects \in [Keys -> Object \cup {None}]
  /\ emitting \in [Tasks -> Event \cup {None}]
  /\ queue \in Seq(Keys) /\ Len(queue) <= Capacity
  /\ lagged \in BOOLEAN
  /\ pc \in PC
  /\ toRead \subseteq Inputs /\ (toRead # {} => pc = "Reading")
  /\ view \in [Inputs -> Object \cup {None, Unseen}]
  /\ cancelled \in BOOLEAN
  /\ writes \in Nat

(* Objects seeded before the runtime starts are there at the beginning.    *)
Init ==
  /\ objects \in [Keys -> {None} \cup
                    {[version |-> 1, owner |-> None, finalizers |-> {},
                      phase |-> "Running", spec |-> s] : s \in Specs}]
  /\ emitting = [w \in Tasks |-> None]
  /\ queue = <<>> /\ lagged = FALSE
  /\ pc = "Start" /\ toRead = {}
  /\ view = [k \in Inputs |-> Unseen]
  /\ cancelled = FALSE
  /\ writes = 0

-----------------------------------------------------------------------------
(* The writers.                                                            *)

(* The calls on key k that change the store.                               *)
Calls(k) ==
  IF objects[k] = None
  THEN {create(objects, k, [version |-> 0, owner |-> None, finalizers |-> {},
                            phase |-> "Running", spec |-> s]) : s \in Specs}
  ELSE {update(objects, k, objects[k].version, s) : s \in Specs}
       \cup {add_finalizer(objects, k, f) : f \in Finalizers}
       \cup {remove_finalizer(objects, k, f) : f \in Finalizers}
       \cup {teardown(objects, k), destroy(objects, k, objects[k].version)}

(* A controller writes only inside its own reconcile.                      *)
Write(w) ==
  /\ emitting[w] = None
  /\ w = Self => pc = "Working"
  /\ writes < MaxWrites
  /\ \E k \in Keys : \E r \in Calls(k) :
       /\ r.event # None
       /\ objects' = r.objects
       /\ emitting' = [emitting EXCEPT ![w] = r.event]
  /\ writes' = writes + 1
  /\ UNCHANGED <<chanVars, loopVars, cancelled>>

(* Sending to a full channel drops its oldest event.                       *)
Send(k) ==
  IF Len(queue) < Capacity
  THEN queue' = Append(queue, k) /\ UNCHANGED lagged
  ELSE queue' = Append(Tail(queue), k) /\ lagged' = TRUE

(* An event sent while nobody has subscribed is gone.                      *)
Emit(w) ==
  /\ emitting[w] # None
  /\ IF pc \in {"Start", "Stopped"} THEN UNCHANGED chanVars
                                    ELSE Send(emitting[w].key)
  /\ emitting' = [emitting EXCEPT ![w] = None]
  /\ UNCHANGED <<storeVars, loopVars, cancelled>>

-----------------------------------------------------------------------------
(* The loop.  A reconcile reads each input at a moment of its own (one     *)
(* list call per resource type), then acts, writing as Self.               *)

BeginReconcile ==
  /\ pc' = "Reading" /\ toRead' = Inputs
  /\ UNCHANGED view

(* The subscription comes first, then the initial reconcile.               *)
Subscribe ==
  /\ pc = "Start"
  /\ BeginReconcile
  /\ UNCHANGED <<storeVars, chanVars, emitting, cancelled>>

ReadInput(k) ==
  /\ pc = "Reading" /\ k \in toRead
  /\ view' = [view EXCEPT ![k] = objects[k]]
  /\ toRead' = toRead \ {k}
  /\ UNCHANGED <<storeVars, chanVars, pc, emitting, cancelled>>

InputsRead ==
  /\ pc = "Reading" /\ toRead = {}
  /\ pc' = "Working"
  /\ UNCHANGED <<storeVars, chanVars, toRead, view, emitting, cancelled>>

(* An error is logged: to the loop a failed reconcile is a reconcile.      *)
EndReconcile ==
  /\ pc = "Working" /\ emitting[Self] = None
  /\ pc' = "Waiting"
  /\ UNCHANGED <<storeVars, chanVars, toRead, view, emitting, cancelled>>

(* Mutant: a tick that is due goes before the shutdown token.              *)
ShutdownAfterTicks ==
  /\ pc = "Waiting" /\ cancelled /\ ~Resync
  /\ pc' = "Stopped"
  /\ queue' = <<>> /\ lagged' = FALSE
  /\ UNCHANGED <<storeVars, toRead, view, emitting, cancelled>>

(* The arms of the select: shutdown, resync tick, and the receiver.        *)
Shutdown ==
  /\ pc = "Waiting" /\ cancelled
  /\ pc' = "Stopped"
  /\ queue' = <<>> /\ lagged' = FALSE
  /\ UNCHANGED <<storeVars, toRead, view, emitting, cancelled>>

Tick ==
  /\ pc = "Waiting" /\ Resync
  /\ BeginReconcile
  /\ UNCHANGED <<storeVars, chanVars, emitting, cancelled>>

RecvEvent ==
  /\ pc = "Waiting" /\ ~lagged /\ queue # <<>>
  /\ queue' = Tail(queue)
  /\ pc' = IF Head(queue) \in Inputs THEN "Debounce" ELSE "Waiting"
  /\ UNCHANGED <<storeVars, lagged, toRead, view, emitting, cancelled>>

(* Mutant: a lag is logged and the loop waits for the next event.          *)
RecvLaggedIgnored ==
  /\ pc = "Waiting" /\ lagged
  /\ lagged' = FALSE
  /\ UNCHANGED <<storeVars, queue, loopVars, emitting, cancelled>>

RecvLagged ==
  /\ pc = "Waiting" /\ lagged
  /\ lagged' = FALSE
  /\ pc' = "Debounce"
  /\ UNCHANGED <<storeVars, queue, toRead, view, emitting, cancelled>>

DebounceOver ==
  /\ pc = "Debounce"
  /\ pc' = "Drain"
  /\ UNCHANGED <<storeVars, chanVars, toRead, view, emitting, cancelled>>

(* try_recv until it fails: on an empty channel, and also on a lag, which  *)
(* it reports (and clears) while later events stay queued.                 *)
DrainEvent ==
  /\ pc = "Drain" /\ ~lagged /\ queue # <<>>
  /\ queue' = Tail(queue)
  /\ UNCHANGED <<storeVars, lagged, loopVars, emitting, cancelled>>

(* Mutant: a burst that was drained is taken as handled.                   *)
DrainForgets ==
  /\ pc = "Drain" /\ (lagged \/ queue = <<>>)
  /\ lagged' = FALSE
  /\ pc' = "Waiting"
  /\ UNCHANGED <<storeVars, queue, toRead, view, emitting, cancelled>>

DrainOver ==
  /\ pc = "Drain" /\ (lagged \/ queue = <<>>)
  /\ lagged' = FALSE
  /\ BeginReconcile
  /\ UNCHANGED <<storeVars, queue, emitting, cancelled>>

Cancel ==
  /\ ~cancelled
  /\ cancelled' = TRUE
  /\ UNCHANGED <<storeVars, chanVars, loopVars, emitting>>

LoopStep ==
  \/ Subscribe \/ InputsRead \/ EndReconcile
  \/ RecvEvent \/ RecvLagged
  \/ DebounceOver \/ DrainEvent \/ DrainOver
  \/ \E k \in Inputs : ReadInput(k)

Next ==
  \/ LoopStep \/ Tick \/ Shutdown \/ Cancel
  \/ \E w \in Tasks : Write(w) \/ Emit(w)

(* A task that is able to run gets to run; reconciles return; select picks *)
(* among its ready arms at random, so a ready shutdown arm is not passed   *)
(* over for ever.  Nothing forces a write, a tick or the shutdown.         *)
Fairness ==
  /\ WF_vars(LoopStep)
  /\ SF_vars(Shutdown)
  /\ \A w \in Tasks : WF_vars(Emit(w))

Spec == Init /\ [][Next]_vars /\ Fairness

-----------------------------------------------------------------------------

(* What still tells the loop that input k is not as it last read it.       *)
WakePending(k) ==
  \/ pc \in {"Start", "Debounce", "Drain"}
  \/ k \in toRead
  \/ lagged
  \/ \E i \in 1..Len(queue) : queue[i] = k
  \/ \E w \in Tasks : emitting[w] # None /\ emitting[w].key = k

(* No wakeup is lost: as long as the loop runs, an input that differs from *)
(* what the loop last read of it is still going to be read, or the loop is *)
(* still going to be woken for it, whatever was drained in a debounce,     *)
(* dropped from a full channel, or written in the middle of a reconcile    *)
(* or before the subscription.                                             *)
NoLostWakeup ==
  pc # "Stopped" => \A k \in Inputs : view[k] # objects[k] => WakePending(k)

(* The loop implements the level-triggered contract: an input that stays   *)
(* changed is eventually read, until the loop stops.                       *)
LT == INSTANCE LevelTrigger WITH
        Values   <- Object \cup {None},
        current  <- [k \in Inputs |-> objects[k]],
        observed <- view,
        stopped  <- pc = "Stopped"

LevelTriggered == LT!Spec

(* A cancelled loop returns, even under a resync tick that is always due   *)
(* and events that keep arriving: Runtime::run waits for that.             *)
CancelStopsLoop == cancelled ~> (pc = "Stopped")
=============================================================================
