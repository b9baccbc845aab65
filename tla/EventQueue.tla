------------------------------ MODULE EventQueue ------------------------------
(***************************************************************************)
(* What the clock event queue of Device promises, without its heap: a set *)
(* of pending events, each with the SYS tick it is due at and a priority. *)
(* The clock only moves forward, to the earliest due tick, and an event   *)
(* fires at its tick, only when no pending event is due before it or at   *)
(* the same tick with a lower priority value. A fired event is re-armed   *)
(* later or dropped. Events are scheduled in the future and unscheduled   *)
(* at will; reset empties the queue and schedules the CPU event.          *)
(***************************************************************************)
EXTENDS Integers, FiniteSets, TLC

CONSTANTS
  Handles,   \* event identities
  Prios,     \* priorities blocks pass to schedule()
  CpuPrio    \* priority of the CPU step event

VARIABLES
  pending,   \* [scheduled handles -> [tick, prio]]
  now        \* the current SYS tick

vars == <<pending, now>>

Key(t, p) == [tick |-> t, prio |-> p]

\* k1 fires no later than k2.
NotAfter(k1, k2) ==
  k1.tick < k2.tick \/ (k1.tick = k2.tick /\ k1.prio <= k2.prio)

Init ==
  /\ now = 0
  /\ \E h \in Handles : pending = h :> Key(1, CpuPrio)

\* The clock moves to the earliest due tick.
Advance ==
  /\ DOMAIN pending # {}
  /\ \E h \in DOMAIN pending :
       /\ \A g \in DOMAIN pending : pending[h].tick <= pending[g].tick
       /\ now' = pending[h].tick
  /\ now' >= now
  /\ UNCHANGED pending

\* The other events are left as they are.
Others(h) == \A g \in DOMAIN pending \ {h} : pending'[g] = pending[g]

\* An event due now and first in (tick, priority) order fires; it is
\* re-armed at a later tick, or dropped.
Fire(h) ==
  /\ h \in DOMAIN pending
  /\ pending[h].tick = now
  /\ \A g \in DOMAIN pending : NotAfter(pending[h], pending[g])
  /\ \/ DOMAIN pending' = DOMAIN pending \ {h}
     \/ /\ DOMAIN pending' = DOMAIN pending
        /\ pending'[h].tick > now
        /\ pending'[h].prio = pending[h].prio
  /\ Others(h)
  /\ UNCHANGED now

\* A new event, due after the current tick.
Schedule(h) ==
  /\ h \notin DOMAIN pending
  /\ DOMAIN pending' = DOMAIN pending \cup {h}
  /\ pending'[h].tick > now
  /\ pending'[h].prio \in Prios
  /\ Others(h)
  /\ UNCHANGED now

Unschedule(h) ==
  /\ pending' = [g \in DOMAIN pending \ {h} |-> pending[g]]
  /\ UNCHANGED now

Reset ==
  /\ now' = 0
  /\ \E h \in Handles : pending' = h :> Key(1, CpuPrio)

Next ==
  \/ Advance
  \/ \E h \in Handles : Fire(h) \/ Schedule(h)
  \/ \E h \in Handles : Unschedule(h)
  \/ Reset

Spec == Init /\ [][Next]_vars

=============================================================================
