------------------------ MODULE ControllerLoopProofs ------------------------
(***************************************************************************)
(* No wakeup of a controller is lost, for every set of keys and writers,   *)
(* every channel capacity and any number of writes; and the safety part of *)
(* the level-triggered contract.                                           *)
(***************************************************************************)
EXTENDS ControllerLoop, TLAPS

(* The provers get more time than by default, not every machine is fast.   *)
USE SMTT(30), ZenonT(20)

ObjectMap == [Keys -> Object \cup {None}]

(* What create is handed, and the object it makes of it.                   *)
Draft ==
  [version : {0}, owner : Owners \cup {None}, finalizers : SUBSET Finalizers,
   phase : Phase, spec : Specs]

(* An object that create stores is an object with version 1.               *)
LEMMA NewObjectType ==
  ASSUME NEW obj \in Draft, NEW v \in Nat \ {0}, NEW p \in Phase
  PROVE  [obj EXCEPT !.version = v, !.phase = p] \in Object
  BY Zenon DEF Draft, Object

-----------------------------------------------------------------------------
(* An operation on k touches no other key, and what it broadcasts is about *)
(* k; if it broadcasts nothing it changes nothing.                         *)

Confined(objs, k, r) ==
  /\ r.objects \in ObjectMap
  /\ \A j \in Keys : j # k => r.objects[j] = objs[j]
  /\ r.event # None => r.event \in Event /\ r.event.key = k

(* A call that fails or finds nothing to do changes no key.                *)
LEMMA SameConfined ==
  ASSUME NEW objs \in ObjectMap, NEW k \in Keys, NEW code
  PROVE  Confined(objs, k, Same(objs, code))
  BY DEF Confined, Same

(* A versioned write changes only its key.                                 *)
LEMMA BumpConfined ==
  ASSUME NEW objs \in ObjectMap, NEW k \in Keys, NEW code,
         NEW obj \in Object, objs[k] # None
  PROVE  Confined(objs, k, Bump(objs, k, code, obj))
<1> DEFINE v   == objs[k].version + 1
           new == [obj EXCEPT !.version = v]
<1>1. v \in Nat \ {0}
  BY DEF ObjectMap, Object
<1> HIDE DEF v
<1>2. new \in Object /\ new.version = v
  BY <1>1 DEF Object
<1> HIDE DEF new
<1>3. /\ Bump(objs, k, code, obj).objects = [objs EXCEPT ![k] = new]
      /\ Bump(objs, k, code, obj).event
           = [kind |-> "Updated", key |-> k, version |-> new.version]
  BY DEF Bump, new, v
<1> QED BY <1>1, <1>2, <1>3 DEF Confined, ObjectMap, Event, EventKind

(* create changes only its key.                                            *)
LEMMA CreateConfined ==
  ASSUME NEW objs \in ObjectMap, NEW k \in Keys, NEW obj \in Draft
  PROVE  Confined(objs, k, create(objs, k, obj))
<1> DEFINE new == [obj EXCEPT !.version = 1, !.phase = "Running"]
<1>1. new \in Object
  <2>1. 1 \in Nat \ {0} /\ "Running" \in Phase
    BY DEF Phase
  <2> QED BY <2>1, NewObjectType, Zenon
<1>2. CASE objs[k] # None
  BY <1>2, SameConfined DEF create
<1>3. CASE objs[k] = None
  <2>1. create(objs, k, obj)
          = [code |-> "Ok", objects |-> [objs EXCEPT ![k] = new],
             event |-> [kind |-> "Created", key |-> k, version |-> 1]]
    BY <1>3 DEF create
  <2> HIDE DEF new
  <2> QED BY <1>1, <2>1 DEF Confined, ObjectMap, Event, EventKind
<1> QED BY <1>2, <1>3

(* The remaining operations, on a key that is taken.                       *)
LEMMA OpsConfined ==
  ASSUME NEW objs \in ObjectMap, NEW k \in Keys, objs[k] # None
  PROVE  /\ \A v \in Nat, s \in Specs : Confined(objs, k, update(objs, k, v, s))
         /\ \A f \in Finalizers :
              /\ Confined(objs, k, add_finalizer(objs, k, f))
              /\ Confined(objs, k, remove_finalizer(objs, k, f))
         /\ Confined(objs, k, teardown(objs, k))
         /\ \A v \in Nat : Confined(objs, k, destroy(objs, k, v))
<1>1. objs[k] \in Object
  BY DEF ObjectMap
<1>2. ASSUME NEW v \in Nat, NEW s \in Specs
      PROVE  Confined(objs, k, update(objs, k, v, s))
  <2>1. [objs[k] EXCEPT !.spec = s] \in Object
    BY <1>1 DEF Object
  <2> QED BY <2>1, SameConfined, BumpConfined DEF update
<1>3. ASSUME NEW f \in Finalizers
      PROVE  /\ Confined(objs, k, add_finalizer(objs, k, f))
             /\ Confined(objs, k, remove_finalizer(objs, k, f))
  <2>1. [objs[k] EXCEPT !.finalizers = @ \cup {f}] \in Object
    BY <1>1 DEF Object
  <2>2. [objs[k] EXCEPT !.finalizers = @ \ {f}] \in Object
    BY <1>1 DEF Object
  <2>3. Confined(objs, k, add_finalizer(objs, k, f))
    BY <2>1, SameConfined, BumpConfined DEF add_finalizer
  <2>4. Confined(objs, k, remove_finalizer(objs, k, f))
    BY <2>2, SameConfined, BumpConfined DEF remove_finalizer
  <2> QED BY <2>3, <2>4
<1>4. Confined(objs, k, teardown(objs, k))
  <2>1. [objs[k] EXCEPT !.phase = "TearingDown"] \in Object
    BY <1>1 DEF Object, Phase
  <2> QED BY <2>1, SameConfined, BumpConfined DEF teardown
<1>5. ASSUME NEW v \in Nat
      PROVE  Confined(objs, k, destroy(objs, k, v))
  <2>1. CASE objs[k].version # v \/ objs[k].finalizers # {}
    BY <2>1, SameConfined DEF destroy
  <2>2. CASE objs[k].version = v /\ objs[k].finalizers = {}
    BY <1>1, <2>2 DEF destroy, Confined, ObjectMap, Event, EventKind, Object
  <2> QED BY <2>1, <2>2
<1> QED BY <1>2, <1>3, <1>4, <1>5

-----------------------------------------------------------------------------
(* The loop.                                                               *)

IInv == TypeOK /\ NoLostWakeup

(* None is no event.                                                       *)
LEMMA NoneIsNotAnEvent == None \notin Event
  BY NoneAssumption

(* A call on k that changes the store leaves the other keys alone and      *)
(* announces k.                                                            *)
LEMMA CallsConfined ==
  ASSUME TypeOK, NEW k \in Keys, NEW r \in Calls(k)
  PROVE  Confined(objects, k, r)
<1>1. objects \in ObjectMap
  BY DEF TypeOK, ObjectMap
<1>2. CASE objects[k] = None
  <2>1. PICK s \in Specs :
          r = create(objects, k,
                     [version |-> 0, owner |-> None, finalizers |-> {},
                      phase |-> "Running", spec |-> s])
    BY Zenon, <1>2 DEF Calls
  <2> DEFINE d == [version |-> 0, owner |-> None, finalizers |-> {},
                   phase |-> "Running", spec |-> s]
  <2>2. d \in Draft
    BY DEF Draft, Phase
  <2> HIDE DEF d
  <2>3. r = create(objects, k, d)
    BY <2>1 DEF d
  <2> QED BY <1>1, <2>2, <2>3, CreateConfined
<1>3. CASE objects[k] # None
  <2>1. objects[k].version \in Nat
    BY <1>3 DEF TypeOK, Object
  <2> QED BY <1>1, <1>3, <2>1, OpsConfined DEF Calls
<1> QED BY <1>2, <1>3

(* Where a key of the queue is after the channel has been used.            *)
LEMMA TailKeeps ==
  ASSUME NEW q \in Seq(Keys), q # <<>>, NEW k \in Keys,
         \E i \in 1..Len(q) : q[i] = k, Head(q) # k
  PROVE  \E i \in 1..Len(Tail(q)) : Tail(q)[i] = k
<1>1. PICK i \in 1..Len(q) : q[i] = k
  OBVIOUS
<1>2. i # 1 /\ i - 1 \in 1..Len(Tail(q)) /\ Tail(q)[i - 1] = q[i]
  BY <1>1
<1> QED BY <1>1, <1>2

(* An event that is sent stays behind the ones already queued.             *)
LEMMA AppendKeeps ==
  ASSUME NEW q \in Seq(Keys), NEW k \in Keys, NEW j \in Keys,
         j = k \/ \E i \in 1..Len(q) : q[i] = j
  PROVE  \E i \in 1..Len(Append(q, k)) : Append(q, k)[i] = j
<1>1. Len(Append(q, k)) = Len(q) + 1 /\ Append(q, k)[Len(q) + 1] = k
  OBVIOUS
<1>2. CASE j = k
  BY <1>1, <1>2
<1>3. CASE \E i \in 1..Len(q) : q[i] = j
  <2>1. PICK i \in 1..Len(q) : q[i] = j
    BY <1>3
  <2>2. i \in 1..Len(Append(q, k)) /\ Append(q, k)[i] = q[i]
    OBVIOUS
  <2> QED BY <2>1, <2>2
<1> QED BY <1>2, <1>3

-----------------------------------------------------------------------------

(* The invariant holds before the loop subscribes.                         *)
LEMMA InitInv == Init => IInv
<1> SUFFICES ASSUME Init PROVE IInv
  OBVIOUS
<1>1. \A s \in Specs :
        [version |-> 1, owner |-> None, finalizers |-> {},
         phase |-> "Running", spec |-> s] \in Object
  BY DEF Object, Phase
<1>2. objects \in [Keys -> Object \cup {None}]
  BY <1>1 DEF Init
<1>3. TypeOK
  <2>1. queue \in Seq(Keys) /\ Len(queue) <= Capacity
    BY LoopAssumption DEF Init
  <2>2. view \in [Inputs -> Object \cup {None, Unseen}]
        /\ emitting \in [Tasks -> Event \cup {None}]
    BY DEF Init
  <2> QED BY Zenon, <1>2, <2>1, <2>2 DEF Init, TypeOK, PC
<1>4. NoLostWakeup
  BY DEF Init, NoLostWakeup, WakePending
<1> QED BY <1>3, <1>4 DEF IInv

(* A write announces the key it changes before its task goes on.           *)
LEMMA WriteInv ==
  ASSUME IInv, NEW w \in Tasks, Write(w)
  PROVE  IInv'
<1>1. PICK k \in Keys : \E r \in Calls(k) :
        /\ r.event # None
        /\ objects' = r.objects
        /\ emitting' = [emitting EXCEPT ![w] = r.event]
  BY Zenon DEF Write
<1>2. PICK r \in Calls(k) :
        /\ r.event # None
        /\ objects' = r.objects
        /\ emitting' = [emitting EXCEPT ![w] = r.event]
  BY Zenon, <1>1
<1>3. Confined(objects, k, r)
  BY CallsConfined DEF IInv
<1>4. /\ objects' \in ObjectMap
      /\ r.event \in Event /\ r.event.key = k
      /\ \A j \in Keys : j # k => objects'[j] = objects[j]
  BY <1>2, <1>3 DEF Confined
<1>5. TypeOK'
  BY <1>2, <1>4 DEF IInv, TypeOK, ObjectMap, Write, chanVars, loopVars
<1>6. NoLostWakeup'
  <2> SUFFICES ASSUME pc # "Stopped", NEW j \in Inputs, view[j] # objects'[j]
               PROVE  WakePending(j)'
    BY DEF NoLostWakeup, Write, loopVars
  <2>1. UNCHANGED <<pc, toRead, lagged, queue>>
    BY DEF Write, chanVars, loopVars
  <2>2. CASE j = k
    <3>1. emitting'[w] # None /\ emitting'[w].key = j
      BY <1>2, <1>4, <2>2 DEF IInv, TypeOK
    <3> QED BY <3>1 DEF WakePending
  <2>3. CASE j # k
    <3>1. WakePending(j)
      BY <1>4, <2>3, LoopAssumption DEF IInv, NoLostWakeup
    <3>2. \A x \in Tasks : emitting[x] # None => emitting'[x] = emitting[x]
      BY <1>2 DEF IInv, TypeOK, Write
    <3> QED BY <2>1, <3>1, <3>2 DEF WakePending
  <2> QED BY <2>2, <2>3
<1> QED BY <1>5, <1>6 DEF IInv

(* A sent event is queued; what a full channel drops for it is a lag.      *)
LEMMA EmitInv ==
  ASSUME IInv, NEW w \in Tasks, Emit(w)
  PROVE  IInv'
<1> DEFINE k == emitting[w].key
<1>1. emitting[w] \in Event /\ k \in Keys
  BY DEF IInv, TypeOK, Emit, Event
<1> HIDE DEF k
<1>2. UNCHANGED <<objects, writes, pc, toRead, view, cancelled>>
      /\ emitting' = [emitting EXCEPT ![w] = None]
  BY DEF Emit, storeVars, loopVars
<1>3. CASE pc \in {"Start", "Stopped"}
  <2>1. UNCHANGED <<queue, lagged>>
    BY <1>3 DEF Emit, chanVars
  <2> QED BY <1>2, <1>3, <2>1
         DEF IInv, TypeOK, NoLostWakeup, WakePending
<1>4. CASE pc \notin {"Start", "Stopped"}
  <2>1. Send(k)
    BY <1>4 DEF Emit, k
  <2>2. /\ queue' \in Seq(Keys) /\ Len(queue') <= Capacity
        /\ lagged' \in BOOLEAN /\ (lagged => lagged')
    <3>1. CASE Len(queue) < Capacity
      BY <1>1, <2>1, <3>1, LoopAssumption DEF Send, IInv, TypeOK
    <3>2. CASE ~(Len(queue) < Capacity)
      <4>1. queue # <<>> /\ Len(queue) = Capacity
        BY <3>2, LoopAssumption DEF IInv, TypeOK
      <4>2. queue' = Append(Tail(queue), k) /\ lagged' = TRUE
        BY <2>1, <3>2 DEF Send
      <4>3. Tail(queue) \in Seq(Keys) /\ Len(Tail(queue)) = Len(queue) - 1
        BY <4>1 DEF IInv, TypeOK
      <4> QED BY <1>1, <4>1, <4>2, <4>3, LoopAssumption
    <3> QED BY <3>1, <3>2
  <2>3. TypeOK'
    BY <1>2, <2>2 DEF IInv, TypeOK
  <2>4. \A j \in Keys : (j = k \/ \E i \in 1..Len(queue) : queue[i] = j) =>
          lagged' \/ \E i \in 1..Len(queue') : queue'[i] = j
    <3>1. CASE Len(queue) < Capacity
      <4>1. queue' = Append(queue, k) /\ queue \in Seq(Keys)
        BY <2>1, <3>1 DEF Send, IInv, TypeOK
      <4> QED BY <1>1, <4>1, AppendKeeps
    <3>2. CASE ~(Len(queue) < Capacity)
      BY <2>1, <3>2 DEF Send
    <3> QED BY <3>1, <3>2
  <2>5. NoLostWakeup'
    <3> SUFFICES ASSUME pc # "Stopped", NEW j \in Inputs, view[j] # objects[j]
                 PROVE  WakePending(j)'
      BY <1>2 DEF NoLostWakeup
    <3>1. WakePending(j) /\ j \in Keys
      BY LoopAssumption DEF IInv, NoLostWakeup
    <3>2. ASSUME NEW x \in Tasks, emitting[x] # None, emitting[x].key = j
          PROVE  WakePending(j)'
      <4>1. CASE x = w
        BY <2>4, <3>1, <3>2, <4>1 DEF WakePending, k
      <4>2. CASE x # w
        <5>1. emitting'[x] = emitting[x]
          BY <1>2, <4>2 DEF IInv, TypeOK
        <5> QED BY <3>2, <5>1 DEF WakePending
      <4> QED BY <4>1, <4>2
    <3> QED BY <1>2, <2>2, <2>4, <3>1, <3>2 DEF WakePending
  <2> QED BY <2>3, <2>5 DEF IInv
<1> QED BY <1>3, <1>4

(* A reconcile begins with every input still to be read.                   *)
LEMMA BeginInv ==
  ASSUME IInv, BeginReconcile, UNCHANGED <<storeVars, emitting, cancelled>>,
         queue' \in Seq(Keys), Len(queue') <= Capacity, lagged' \in BOOLEAN
  PROVE  IInv'
<1>1. TypeOK'
  BY DEF IInv, TypeOK, BeginReconcile, storeVars, PC
<1>2. NoLostWakeup'
  BY DEF BeginReconcile, NoLostWakeup, WakePending
<1> QED BY <1>1, <1>2 DEF IInv

(* Reading an input brings the view of it up to date.                      *)
LEMMA ReadInv ==
  ASSUME IInv, NEW k \in Inputs, ReadInput(k)
  PROVE  IInv'
<1>1. /\ pc = "Reading" /\ view' = [view EXCEPT ![k] = objects[k]]
      /\ toRead' = toRead \ {k}
      /\ UNCHANGED <<objects, writes, queue, lagged, pc, emitting, cancelled>>
  BY DEF ReadInput, storeVars, chanVars
<1>2. TypeOK'
  BY <1>1, LoopAssumption DEF IInv, TypeOK
<1>3. NoLostWakeup'
  <2> SUFFICES ASSUME NEW j \in Inputs, view'[j] # objects[j]
               PROVE  WakePending(j)'
    BY <1>1 DEF NoLostWakeup
  <2>1. j # k /\ view'[j] = view[j]
    BY <1>1 DEF IInv, TypeOK
  <2>2. WakePending(j)
    BY <1>1, <2>1 DEF IInv, NoLostWakeup
  <2> QED BY <1>1, <2>1, <2>2 DEF WakePending
<1> QED BY <1>2, <1>3 DEF IInv

(* Steps that only move the loop from a state without inputs to read.      *)
LEMMA MoveInv ==
  ASSUME IInv, UNCHANGED <<storeVars, view, emitting, cancelled, toRead>>,
         toRead = {}, pc' \in PC,
         pc \notin {"Start", "Debounce", "Drain"} \/ pc' = "Drain",
         queue' \in Seq(Keys), Len(queue') <= Capacity, lagged' \in BOOLEAN,
         pc # "Stopped",
         \/ pc' \in {"Debounce", "Drain", "Stopped"}
         \/ /\ lagged => lagged'
            /\ \A j \in Inputs : (\E i \in 1..Len(queue) : queue[i] = j) =>
                                   \E i \in 1..Len(queue') : queue'[i] = j
  PROVE  IInv'
<1>1. TypeOK'
  BY DEF IInv, TypeOK, storeVars
<1>2. NoLostWakeup'
  BY DEF IInv, NoLostWakeup, WakePending, storeVars
<1> QED BY <1>1, <1>2 DEF IInv

(* What a receive leaves in the queue is a queue.                          *)
LEMMA QueueTail ==
  ASSUME TypeOK, queue # <<>>
  PROVE  Tail(queue) \in Seq(Keys) /\ Len(Tail(queue)) <= Capacity
<1>1. Tail(queue) \in Seq(Keys) /\ Len(Tail(queue)) = Len(queue) - 1
  BY DEF TypeOK
<1> QED BY <1>1, LoopAssumption DEF TypeOK

(* The loop's own steps lose no wake-up.                                   *)
LEMMA LoopInv ==
  ASSUME IInv, LoopStep \/ Tick \/ Shutdown \/ Cancel
  PROVE  IInv'
<1>0. /\ queue \in Seq(Keys) /\ Len(queue) <= Capacity /\ lagged \in BOOLEAN
      /\ TypeOK
      /\ pc # "Reading" => toRead = {}
  BY DEF IInv, TypeOK
<1>1. CASE Subscribe \/ Tick \/ DrainOver
  BY Zenon, <1>0, <1>1, BeginInv DEF Subscribe, Tick, DrainOver, chanVars
<1>2. CASE \E k \in Inputs : ReadInput(k)
  BY <1>2, ReadInv
<1>3. CASE InputsRead
  BY <1>0, <1>3, MoveInv DEF InputsRead, chanVars, PC
<1>4. CASE EndReconcile
  BY <1>0, <1>4, MoveInv DEF EndReconcile, chanVars, PC
<1>5. CASE Shutdown
  <2>1. queue' \in Seq(Keys) /\ Len(queue') <= Capacity
    BY <1>5, LoopAssumption DEF Shutdown
  <2> QED BY Zenon, <1>0, <1>5, <2>1, MoveInv DEF Shutdown, PC
<1>6. CASE RecvEvent
  <2>1. queue' \in Seq(Keys) /\ Len(queue') <= Capacity
    BY <1>0, <1>6, QueueTail DEF RecvEvent
  <2>2. CASE Head(queue) \in Inputs
    BY <1>0, <1>6, <2>1, <2>2, MoveInv DEF RecvEvent, PC
  <2>3. CASE Head(queue) \notin Inputs
    <3>1. \A j \in Inputs : (\E i \in 1..Len(queue) : queue[i] = j) =>
                             \E i \in 1..Len(queue') : queue'[i] = j
      BY <1>0, <1>6, <2>3, TailKeeps, LoopAssumption DEF RecvEvent
    <3> QED BY <1>0, <1>6, <2>1, <2>3, <3>1, MoveInv DEF RecvEvent, PC
  <2> QED BY <2>2, <2>3
<1>7. CASE RecvLagged
  BY Zenon, <1>0, <1>7, MoveInv DEF RecvLagged, PC
<1>8. CASE DebounceOver
  BY <1>0, <1>8, MoveInv DEF DebounceOver, chanVars, PC
<1>9. CASE DrainEvent
  <2>1. queue' \in Seq(Keys) /\ Len(queue') <= Capacity
    BY <1>0, <1>9, QueueTail DEF DrainEvent
  <2>2. TypeOK' /\ NoLostWakeup'
    BY <1>9, <2>1 DEF DrainEvent, IInv, TypeOK, NoLostWakeup, WakePending,
                      storeVars, loopVars
  <2> QED BY <2>2 DEF IInv
<1>10. CASE Cancel
  <2>1. TypeOK' /\ NoLostWakeup'
    BY <1>10 DEF Cancel, IInv, TypeOK, NoLostWakeup, WakePending, storeVars,
                 chanVars, loopVars
  <2> QED BY <2>1 DEF IInv
<1> QED BY <1>1, <1>2, <1>3, <1>4, <1>5, <1>6, <1>7, <1>8, <1>9, <1>10
       DEF LoopStep

(* Every step keeps the invariant.                                         *)
LEMMA NextInv == IInv /\ [Next]_vars => IInv'
<1> SUFFICES ASSUME IInv, [Next]_vars PROVE IInv'
  OBVIOUS
<1>1. CASE UNCHANGED vars
  BY <1>1 DEF vars, storeVars, chanVars, loopVars, IInv, TypeOK,
              NoLostWakeup, WakePending
<1>2. CASE Next
  BY <1>2, WriteInv, EmitInv, LoopInv DEF Next
<1> QED BY <1>1, <1>2

-----------------------------------------------------------------------------

(* No wakeup is lost, for any capacity, any inputs and any number of       *)
(* concurrent writers (runtime.rs, controller_loop: the level-triggered    *)
(* claim of its comment).                                                  *)
THEOREM NoWakeupLost == Spec => []NoLostWakeup
<1>1. IInv => NoLostWakeup
  BY DEF IInv
<1> QED BY InitInv, NextInv, <1>1, PTL DEF Spec

(* Every step of the loop, its channel and the writers is a step that the  *)
(* level-triggered contract allows: inputs change, an input is observed as *)
(* it is at that moment, or the loop stops for good (runtime.rs,           *)
(* controller_loop).                                                       *)
THEOREM LoopRefines == Spec => LT!Init /\ [][LT!Next]_(LT!vars)
<1>1. Init => LT!Init
  <2> SUFFICES ASSUME Init PROVE LT!Init
    OBVIOUS
  <2>1. objects \in [Keys -> Object \cup {None}] /\ pc = "Start"
        /\ view = [k \in Inputs |-> Unseen]
    BY InitInv DEF IInv, TypeOK, Init
  <2> QED BY <2>1, LoopAssumption DEF LT!Init
<1>2. IInv /\ [Next]_vars => [LT!Next]_(LT!vars)
  <2> SUFFICES ASSUME IInv, [Next]_vars PROVE [LT!Next]_(LT!vars)
    OBVIOUS
  <2>1. ASSUME UNCHANGED <<objects, view>>, pc' = "Stopped" <=> pc = "Stopped"
        PROVE  [LT!Next]_(LT!vars)
    BY <2>1 DEF LT!vars
  <2>2. CASE UNCHANGED vars
    BY <2>1, <2>2 DEF vars, storeVars, loopVars
  <2>3. ASSUME NEW w \in Tasks, Write(w)
        PROVE  [LT!Next]_(LT!vars)
    <3>1. objects' \in [Keys -> Object \cup {None}] /\ UNCHANGED <<view, pc>>
      BY Zenon, <2>3, WriteInv DEF IInv, TypeOK, Write, loopVars
    <3> QED BY <3>1, LoopAssumption DEF LT!Next, LT!Change
  <2>4. ASSUME NEW w \in Tasks, Emit(w)
        PROVE  [LT!Next]_(LT!vars)
    BY <2>1, <2>4 DEF Emit, storeVars, loopVars
  <2>5. ASSUME NEW k \in Inputs, ReadInput(k)
        PROVE  [LT!Next]_(LT!vars)
    BY Zenon, <2>5 DEF ReadInput, storeVars, LT!Next, LT!Observe
  <2>6. CASE Shutdown
    BY <2>6 DEF Shutdown, storeVars, LT!Next, LT!Stop
  <2>7. CASE Subscribe \/ Tick \/ DrainOver
    BY <2>1, <2>7 DEF Subscribe, Tick, DrainOver, BeginReconcile, storeVars
  <2>8. CASE InputsRead \/ EndReconcile \/ RecvEvent \/ RecvLagged
             \/ DebounceOver
    BY <2>1, <2>8 DEF InputsRead, EndReconcile, RecvEvent, RecvLagged,
                      DebounceOver, storeVars
  <2>9. CASE DrainEvent \/ Cancel
    BY <2>1, <2>9 DEF DrainEvent, Cancel, storeVars, loopVars
  <2> QED BY <2>2, <2>3, <2>4, <2>5, <2>6, <2>7, <2>8, <2>9
         DEF Next, LoopStep
<1> QED BY InitInv, NextInv, <1>1, <1>2, PTL DEF Spec
=============================================================================
