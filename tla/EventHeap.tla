------------------------------ MODULE EventHeap ------------------------------
(***************************************************************************)
(* The clock event queue of Device (src/device.cpp) as the code keeps it: *)
(* clk_sys_queue_, a vector of ClockEvent pointers arranged as a binary   *)
(* heap by the std::push_heap, pop_heap and make_heap of libstdc++ under  *)
(* clock_queue_cmp, and the loop of Device::step that fires the events    *)
(* due at the front, one callback at a time.                              *)
(*                                                                         *)
(* A ClockEvent is identified by the address it is allocated at: a handle *)
(* not in the queue, which schedule() may reuse after an event was freed. *)
(* Its fields are the tick (uint32_t, kept modulo 2^TickWidth), the       *)
(* priority and which callback it runs: the CPU step (Device::stepCPU,    *)
(* which returns 1) or a block's (which returns a value of Rets). All     *)
(* events are on the SYS clock (scale 1); the scales are the subject of   *)
(* ClockScheduler.                                                          *)
(*                                                                         *)
(* Blocks run only inside a callback (the CPU event's instructions write  *)
(* their I/O registers, or their own step event fires), so schedule() is  *)
(* called from a callback. unschedule() is called between two steps, as   *)
(* device.h requires ("Event callbacks must not schedule or unschedule    *)
(* events"); scheduling from a callback is allowed here, against that     *)
(* note, because the blocks the specification describes do it.            *)
(***************************************************************************)
EXTENDS Integers, SequencesExt, TLC

CONSTANTS
  Handles,     \* addresses a ClockEvent may be allocated at
  Prios,       \* priorities blocks pass to schedule()
  CpuPrio,     \* priority of the CPU step event (100)
  Rets,        \* values a block's callback may return
  SchedTicks,  \* tick counts blocks pass to schedule()
  TickWidth,   \* width of clk_sys_tick_ and ClockEvent::tick (32 in the code)
  MaxTick      \* bound on clk_sys_tick_ explored

ASSUME Prios \subseteq Nat /\ CpuPrio \in Nat /\ Rets \subseteq Nat
ASSUME SchedTicks \subseteq Nat \ {0} /\ TickWidth \in Nat \ {0} /\ MaxTick \in Nat

TickMod == 2^TickWidth

VARIABLES
  heap,   \* clk_sys_queue_: handles in array order
  ev,     \* [allocated handles -> [tick, prio, cb]]: the ClockEvents
  now,    \* clk_sys_tick_
  pc,     \* "idle" between steps, "loop" in the loop of step(), "cb" in a callback
  cur,    \* the ClockEvent* ev of the loop iteration
  order,  \* history: the queued handles in the order they were (re)inserted
  held    \* the handles schedule() returned that blocks keep to unschedule by

vars == <<heap, ev, now, pc, cur, order, held>>

Event(t, p, cb) == [tick |-> t, prio |-> p, cb |-> cb]

-----------------------------------------------------------------------------
(* clock_queue_cmp(a, b): a fires after b. It compares the two fields a   *)
(* ClockEvent has, the tick (unsigned) and then the priority.             *)

Later(k, a, b) ==
  \/ k[a].tick > k[b].tick
  \/ k[a].tick = k[b].tick /\ k[a].prio > k[b].prio

(* The heap algorithms of libstdc++ (bits/stl_heap.h), on a sequence s    *)
(* used as the 0-based array first[0..Len(s)-1]; k gives the fields       *)
(* clock_queue_cmp reads. At(s, i) is first[i].                            *)

At(s, i) == s[i + 1]
Put(s, i, v) == [s EXCEPT ![i + 1] = v]

\* __push_heap: move the hole up from hole while its parent fires after v.
RECURSIVE SiftUp(_, _, _, _, _)
SiftUp(k, s, hole, top, v) ==
  IF hole > top /\ Later(k, At(s, (hole - 1) \div 2), v)
    THEN SiftUp(k, Put(s, hole, At(s, (hole - 1) \div 2)), (hole - 1) \div 2, top, v)
    ELSE Put(s, hole, v)

\* The first loop of __adjust_heap: move the hole down to a leaf, always
\* to the child that fires first (the right one on a tie).
RECURSIVE HoleDown(_, _, _, _)
HoleDown(k, s, hole, len) ==
  IF hole < (len - 1) \div 2
    THEN LET c == IF Later(k, At(s, 2 * hole + 2), At(s, 2 * hole + 1))
                     THEN 2 * hole + 1 ELSE 2 * hole + 2
         IN  HoleDown(k, Put(s, hole, At(s, c)), c, len)
    ELSE IF len % 2 = 0 /\ hole = (len - 2) \div 2
      THEN [seq |-> Put(s, hole, At(s, 2 * hole + 1)), hole |-> 2 * hole + 1]
      ELSE [seq |-> s, hole |-> hole]

\* __adjust_heap: place v in the heap first[hole..len) rooted at hole.
AdjustHeap(k, s, hole, len, v) ==
  LET d == HoleDown(k, s, hole, len) IN SiftUp(k, d.seq, d.hole, hole, v)

\* std::push_heap: the last element joins the heap before it.
PushHeap(k, s) == SiftUp(k, s, Len(s) - 1, 0, At(s, Len(s) - 1))

\* Mutant: pop_heap swapping the front and the back without sifting down.
PopHeapSwapOnly(k, s) ==
  IF Len(s) > 1 THEN Put(Put(s, Len(s) - 1, At(s, 0)), 0, At(s, Len(s) - 1)) ELSE s

\* std::pop_heap: the front moves to the back, the rest stays a heap.
PopHeap(k, s) ==
  IF Len(s) > 1
    THEN AdjustHeap(k, Put(s, Len(s) - 1, At(s, 0)), 0, Len(s) - 1, At(s, Len(s) - 1))
    ELSE s

\* std::make_heap: adjust every parent, from the last one to the root.
RECURSIVE MakeFrom(_, _, _)
MakeFrom(k, s, parent) ==
  LET t == AdjustHeap(k, s, parent, Len(s), At(s, parent))
  IN  IF parent = 0 THEN t ELSE MakeFrom(k, t, parent - 1)

MakeHeap(k, s) == IF Len(s) < 2 THEN s ELSE MakeFrom(k, s, (Len(s) - 2) \div 2)

-----------------------------------------------------------------------------
(* Actions *)

\* Device::reset: clk_sys_tick_ = 0, the queue cleared (its ClockEvents
\* freed), then schedule(CPU, stepCPU, 1, 100): tick (0/1 + 1) * 1, at an
\* address that may be one just freed; then each block->reset(), in which
\* blocks drop or re-acquire the handles they held, as the specification
\* requires of them (no block's reset is in src/).
Reset ==
  /\ pc = "idle"
  /\ \E h \in Handles :
       /\ heap' = <<h>>
       /\ ev' = h :> Event(1, CpuPrio, "cpu")
       /\ order' = <<h>>
       /\ cur' = h
  /\ now' = 0
  /\ held' = {}
  /\ UNCHANGED pc

Init ==
  /\ \E h \in Handles :
       /\ heap = <<h>>
       /\ ev = h :> Event(1, CpuPrio, "cpu")
       /\ order = <<h>>
       /\ cur = h
  /\ now = 0
  /\ pc = "idle"
  /\ held = {}

\* Device::step: clk_sys_tick_ = clk_sys_queue_.front()->tick.
StepBegin ==
  /\ pc = "idle"
  /\ heap # <<>>
  /\ now < MaxTick
  /\ now' = ev[Head(heap)].tick
  /\ pc' = "loop"
  /\ UNCHANGED <<heap, ev, cur, order, held>>

\* The front is not due: the loop breaks and step() returns.
StepEnd ==
  /\ pc = "loop"
  /\ ev[Head(heap)].tick > now
  /\ pc' = "idle"
  /\ UNCHANGED <<heap, ev, now, cur, order, held>>

\* ev = front; the front is due: ev->callback() starts.
Call ==
  /\ pc = "loop"
  /\ ev[Head(heap)].tick <= now
  /\ cur' = Head(heap)
  /\ pc' = "cb"
  /\ UNCHANGED <<heap, ev, now, order, held>>

\* Mutant: the re-arm pushing the event without first popping it.
ReturnPushOnly(next) ==
  /\ pc = "cb"
  /\ next \in IF ev[cur].cb = "cpu" THEN {1} ELSE Rets
  /\ IF next > 0
       THEN LET k == [ev EXCEPT ![cur].tick = (@ + next) % TickMod]
            IN  /\ ev' = k
                /\ heap' = PushHeap(k, heap)
                /\ order' = Append(Remove(order, cur), cur)
       ELSE LET popped == PopHeap(ev, heap)
            IN  /\ heap' = Front(popped)
                /\ ev' = [h \in DOMAIN ev \ {Last(popped)} |-> ev[h]]
                /\ order' = Remove(order, Last(popped))
  /\ held' = IF next > 0 THEN held ELSE held \ {cur}
  /\ pc' = "loop"
  /\ UNCHANGED <<now, cur>>

\* The callback returns next. next > 0: ev->tick += next * ev->scale, then
\* pop_heap and push_heap. next = 0: pop_heap, then pop_back frees the
\* element popped.
Return(next) ==
  /\ pc = "cb"
  /\ next \in IF ev[cur].cb = "cpu" THEN {1} ELSE Rets
  /\ IF next > 0
       THEN LET k == [ev EXCEPT ![cur].tick = (@ + next) % TickMod]
            IN  /\ ev' = k
                /\ heap' = PushHeap(k, PopHeap(k, heap))
                /\ order' = Append(Remove(order, cur), cur)
       ELSE LET popped == PopHeap(ev, heap)
            IN  /\ heap' = Front(popped)
                /\ ev' = [h \in DOMAIN ev \ {Last(popped)} |-> ev[h]]
                /\ order' = Remove(order, Last(popped))
  /\ held' = IF next > 0 THEN held ELSE held \ {cur}
  /\ pc' = "loop"
  /\ UNCHANGED <<now, cur>>

\* Device::schedule from a block inside a callback: a new ClockEvent at a
\* free address, tick (clk_sys_tick_/1 + ticks) * 1, then push_heap.
Schedule(h, ticks, prio) ==
  /\ pc = "cb"
  /\ h \notin DOMAIN ev
  /\ LET k == (h :> Event((now + ticks) % TickMod, prio, "block")) @@ ev
     IN  /\ ev' = k
         /\ heap' = PushHeap(k, Append(heap, h))
  /\ order' = Append(order, h)
  /\ held' = held \cup {h}
  /\ UNCHANGED <<now, pc, cur>>

\* Device::unschedule between two steps, by a handle a block holds: erase
\* the event at that address if one is queued (freeing it), then
\* make_heap; otherwise log an error and change nothing.
Unschedule(h) ==
  /\ pc = "idle"
  /\ h \in held
  /\ IF h \in DOMAIN ev
       THEN /\ heap' = MakeHeap(ev, Remove(heap, h))
            /\ ev' = [g \in DOMAIN ev \ {h} |-> ev[g]]
            /\ order' = Remove(order, h)
       ELSE UNCHANGED <<heap, ev, order>>
  /\ held' = held \ {h}
  /\ UNCHANGED <<now, pc, cur>>

Next ==
  \/ StepBegin \/ StepEnd \/ Call
  \/ \E n \in Rets \cup {1} : Return(n)
  \/ \E h \in Handles, t \in SchedTicks, p \in Prios : Schedule(h, t, p)
  \/ \E h \in Handles : Unschedule(h)
  \/ Reset

Spec == Init /\ [][Next]_vars

-----------------------------------------------------------------------------
(* Properties *)

\* The position of h in the insertion history.
Inserted(h) == SelectInSeq(order, LAMBDA x : x = h)

TypeOK ==
  /\ heap \in Seq(Handles)
  /\ DOMAIN ev \subseteq Handles
  /\ \A h \in DOMAIN ev : ev[h].tick \in 0..TickMod - 1 /\ ev[h].cb \in {"cpu", "block"}
  /\ now \in 0..TickMod - 1
  /\ pc \in {"idle", "loop", "cb"}
  /\ held \subseteq Handles

\* After any interleaving of schedule() calls inside callbacks, re-arms,
\* drops and unschedule() calls, clk_sys_queue_ holds every live
\* ClockEvent exactly once (none lost, leaked or freed while queued), and
\* it is a heap under clock_queue_cmp: no element fires before its parent.
QueueConsistent ==
  /\ Len(heap) = Cardinality(ToSet(heap))
  /\ ToSet(heap) = DOMAIN ev
  /\ \A i \in 1..Len(heap) - 1 : ~Later(ev, At(heap, (i - 1) \div 2), At(heap, i))

\* The queue, seen through the events it holds, behaves as EventQueue: the
\* clock only moves forward to the earliest due tick, and Device::step
\* fires each event at its tick and in (tick, priority) order, re-arming
\* it later or dropping it; schedule() only adds events in the future.
Abstract == INSTANCE EventQueue
  WITH pending <- [h \in ToSet(heap) |-> [tick |-> ev[h].tick, prio |-> ev[h].prio]]

FiresInOrder == Abstract!Spec

\* "Events due at the same SYS tick fire in strict (priority ascending,
\* insertion order)": when a callback returns, no queued event with the
\* same tick and priority was inserted before the one that fired.
FiresInInsertionOrder ==
  [][pc = "cb" /\ pc' = "loop" =>
       \A g \in ToSet(heap) \ {cur} :
         ev[g].tick = ev[cur].tick /\ ev[g].prio = ev[cur].prio
           => Inserted(cur) < Inserted(g)]_vars

=============================================================================
