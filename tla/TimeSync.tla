------------------------------ MODULE TimeSync ------------------------------
(***************************************************************************)
(* Setting the clock: TimeSyncController asks one NTP server after the     *)
(* other, steps the clock when it is off by more than the threshold and    *)
(* publishes TimeStatus (crates/controllers/src/time/sync.rs, crates/time).*)
(*                                                                         *)
(* Time is in ticks since the Unix epoch.  An NTP timestamp counts from    *)
(* 1900, Unix ticks earlier, in a field that wraps after Era ticks.        *)
(***************************************************************************)
EXTENDS Integers

CONSTANTS
  Configured, \* how many servers machine.time.servers has
  Starts,     \* the true times the node may boot at
  Clocks,     \* what its clock may then say
  Unix, Era,
  Threshold,  \* STEP_THRESHOLD_NS
  Timeout,    \* how long an answer is waited for
  MaxTime,    \* bound: ticks that pass
  MaxSyncs,   \* bound: reconciles
  MaxFaults,  \* bound: queries that go unanswered
  Unset       \* may the kernel refuse to set the clock?

(* What the constants are.                                                 *)
TimeAssumption ==
  /\ Era \in Nat /\ Unix \in Nat /\ Unix < Era /\ Threshold \in Nat /\ Timeout \in Nat
  /\ Starts \subseteq Nat /\ Clocks \subseteq Nat /\ Configured \in Nat
  /\ {MaxTime, MaxSyncs, MaxFaults} \subseteq Nat

(* The node runs before the seconds since the Unix epoch outgrow the field *)
(* too, in 2106; that the NTP era ends before, in 2036, is not excluded.   *)
Before2106 == \A s \in Starts : s + MaxTime + Threshold + (Timeout + 1) \div 2 < Era

VARIABLES
  now,      \* the time it is
  skew,     \* the clock minus the time
  disabled, \* machine.time.disabled
  unset,    \* does the kernel refuse to set the clock (not privileged)?
  pc, server, t1, t2,  \* the reconcile: where, which server, when it was asked, its answer
  synced, offset,      \* TimeStatus
  count,    \* sync_count
  passed, syncs, faults

vars == <<now, skew, disabled, unset, pc, server, t1, t2, synced, offset, count, passed, syncs, faults>>

(* How many servers there are to ask: the two of the pool when the config  *)
(* names none.                                                             *)
servers == IF Configured = 0 THEN 2 ELSE Configured

Abs(x) == IF x < 0 THEN -x ELSE x

(* Division as Rust does it: towards zero.                                 *)
half(x) == IF x < 0 THEN -((-x) \div 2) ELSE x \div 2

(* What a server puts in its answer, and what the client reads there.      *)
unix_to_ntp(t) == (t + Unix) % Era
ntp_to_unix(n) == n - Unix

(* The offset from one answer: the server's receive and transmit stamps    *)
(* are one here, for the time it takes to answer is part of the way back.  *)
parse_offset(asked, stamp, received) ==
  half((ntp_to_unix(stamp) - asked) + (ntp_to_unix(stamp) - received))

TypeOK ==
  /\ now \in Nat /\ skew \in Int /\ now + skew >= 0
  /\ pc \in {"idle", "ask", "sent", "answered"}
  /\ server \in 1..(servers + 1)
  /\ synced \in BOOLEAN /\ (synced => count > 0) /\ (disabled => ~synced)
  /\ count \in 0..MaxSyncs

Init ==
  /\ now \in Starts /\ \E c \in Clocks : skew = c - now
  /\ disabled \in BOOLEAN /\ unset \in {FALSE, Unset}
  /\ pc = "idle" /\ server = 1 /\ t1 = 0 /\ t2 = 0
  /\ synced = FALSE /\ offset = 0 /\ count = 0
  /\ passed = 0 /\ syncs = 0 /\ faults = 0

(* The local clock.                                                        *)
SystemTime == now + skew

Tick ==
  /\ passed < MaxTime
  /\ now' = now + 1 /\ passed' = passed + 1
  /\ UNCHANGED <<skew, disabled, unset, pc, server, t1, t2, synced, offset, count, syncs, faults>>

Publish(ok, off, n) == synced' = ok /\ offset' = off /\ count' = n

(* The timer fires.                                                        *)
Reconcile ==
  /\ pc = "idle" /\ syncs < MaxSyncs
  /\ syncs' = syncs + 1
  /\ IF disabled THEN Publish(FALSE, 0, count) /\ UNCHANGED pc
     ELSE pc' = "ask" /\ UNCHANGED <<synced, offset, count>>
  /\ server' = 1
  /\ UNCHANGED <<now, skew, disabled, unset, t1, t2, passed, faults>>

Ask ==
  /\ pc = "ask" /\ server <= servers
  /\ pc' = "sent" /\ t1' = SystemTime
  /\ UNCHANGED <<now, skew, disabled, unset, server, t2, synced, offset, count, passed, syncs, faults>>

(* The request reaches the server, which stamps its answer.  A stamp of    *)
(* zero is refused like an answer of the wrong mode.                       *)
Serve ==
  /\ pc = "sent" /\ unix_to_ntp(now) # 0
  /\ pc' = "answered" /\ t2' = unix_to_ntp(now)
  /\ UNCHANGED <<now, skew, disabled, unset, server, t1, synced, offset, count, passed, syncs, faults>>

(* Mutant: the first server that fails ends the reconcile.                 *)
QueryFailsFatal ==
  /\ pc \in {"sent", "answered"}
  /\ faults < MaxFaults /\ faults' = faults + 1
  /\ pc' = "idle"
  /\ UNCHANGED <<now, skew, disabled, unset, server, t1, t2, synced, offset, count, passed, syncs>>

(* No answer in time, or one that is refused: the next server is tried.    *)
QueryFails ==
  /\ pc \in {"sent", "answered"}
  /\ \/ SystemTime - t1 > Timeout /\ UNCHANGED faults
     \/ faults < MaxFaults /\ faults' = faults + 1
     \/ pc = "sent" /\ unix_to_ntp(now) = 0 /\ UNCHANGED faults
  /\ pc' = "ask" /\ server' = server + 1
  /\ UNCHANGED <<now, skew, disabled, unset, t1, t2, synced, offset, count, passed, syncs>>

(* The clock cannot be set before the epoch.                               *)
step_clock(off) == ~unset /\ SystemTime + off >= 0 /\ skew' = skew + off

(* Mutant: the step is taken against the offset.                           *)
AnsweredBackwards ==
  LET off == parse_offset(t1, t2, SystemTime)
  IN /\ pc = "answered" /\ SystemTime - t1 <= Timeout
     /\ IF Abs(off) > Threshold THEN step_clock(-off) ELSE UNCHANGED skew
     /\ Publish(TRUE, off, count + 1)
     /\ pc' = "idle"
     /\ UNCHANGED <<now, disabled, unset, server, t1, t2, passed, syncs, faults>>

(* An answer in time: the clock is stepped when it is off by more than the *)
(* threshold, and the sync is published.                                   *)
Answered ==
  LET off == parse_offset(t1, t2, SystemTime)
  IN /\ pc = "answered" /\ SystemTime - t1 <= Timeout
     /\ IF Abs(off) > Threshold THEN step_clock(off) ELSE UNCHANGED skew
     /\ Publish(TRUE, off, count + 1)
     /\ pc' = "idle"
     /\ UNCHANGED <<now, disabled, unset, server, t1, t2, passed, syncs, faults>>

(* A step that fails ends the reconcile: nothing is published and no other *)
(* server is asked.                                                        *)
StepFails ==
  LET off == parse_offset(t1, t2, SystemTime)
  IN /\ pc = "answered" /\ SystemTime - t1 <= Timeout
     /\ Abs(off) > Threshold
     /\ unset \/ SystemTime + off < 0
     /\ pc' = "idle"
     /\ UNCHANGED <<now, skew, disabled, unset, server, t1, t2, synced, offset, count,
                    passed, syncs, faults>>

NoneAnswered ==
  /\ pc = "ask" /\ server > servers
  /\ Publish(FALSE, 0, count)
  /\ pc' = "idle"
  /\ UNCHANGED <<now, skew, disabled, unset, server, t1, t2, passed, syncs, faults>>

Controller == Reconcile \/ Ask \/ Serve \/ QueryFails \/ Answered \/ StepFails \/ NoneAnswered

Next == Tick \/ Controller

Spec == Init /\ [][Next]_vars

(* The timer fires, and what is neither lost nor late arrives.             *)
LiveSpec == Spec /\ WF_vars(Controller)

-----------------------------------------------------------------------------
(* A node that says it is synced has the right time, to within the         *)
(* threshold and half the longest round trip that is accepted: however the *)
(* time of the trip was split, and whatever the clock said before.         *)
SyncedIsClose == synced => Abs(skew) <= Threshold + (Timeout + 1) \div 2

(* A step lands within half a round trip of the time, so a clock that is   *)
(* nearly right is not made worse by a slow answer.                        *)
StepImproves ==
  [][skew' # skew => Abs(skew') <= (Timeout + 1) \div 2]_vars

(* A server that answers is enough in the end, whichever ones before it do *)
(* not, when the kernel lets the clock be set and the NTP era is not over: *)
(* "try each configured server in order until one answers"                 *)
(* (2026-06-11-machined-rs-m2c-time-design.md:104).                        *)
Syncs == <>[](disabled \/ unset \/ count > 0 \/ now + Unix >= Era)
=============================================================================
