--------------------------- MODULE ClockScheduler ---------------------------
(***************************************************************************)
(* The clock event queue of Device (src/device.cpp) and the CLK prescaler  *)
(* register that sets the scale of the derived clocks (src/block/clk.cpp). *)
(*                                                                         *)
(* An event is a handle from Events. The queue maps each scheduled handle *)
(* to the two fields the code computes with: the SYS tick of its next     *)
(* firing and the scale it was last scaled with. Ticks are kept relative  *)
(* to the current SYS tick clk_sys_tick_ ("due" = tick - clk_sys_tick_),  *)
(* and clk_sys_tick_ itself only modulo Period, the largest scale: every  *)
(* scale is a power of two dividing Period, so (clk_sys_tick_ / scale)    *)
(* and the alignment of events are exactly those of the unbounded code.   *)
(* The 32-bit wrap of clk_sys_tick_ is therefore not part of this module. *)
(*                                                                         *)
(* Callbacks are abstracted to their return value: the CPU event          *)
(* (Device::stepCPU) always returns 1, a peripheral callback returns any  *)
(* value of PeriphNext, 0 detaching it.                                    *)
(***************************************************************************)
EXTENDS Integers, FiniteSets, FiniteSetsExt, TLC

CONSTANTS
  Events,        \* event handles
  CpuEvent,      \* the handle of the CPU step event scheduled by reset
  EventClock,    \* [Events -> Clocks]: clock domain of each event
  PeriphNext,    \* values a peripheral callback may return
  ScheduleTicks, \* tick counts a block may pass to schedule()
  Psadivs,       \* PSADIV values the guest may write to CLK.PSCTRL
  Psbcdivs       \* PSBCDIV values the guest may write to CLK.PSCTRL

Clocks == {"SYS", "CPU", "PER", "PER2", "PER4", "ASY"}

ASSUME CpuEvent \in Events /\ EventClock[CpuEvent] = "CPU"
ASSUME EventClock \in [Events -> Clocks]
ASSUME PeriphNext \subseteq Nat /\ ScheduleTicks \subseteq Nat \ {0}
ASSUME Psadivs \subseteq 0..31 /\ Psbcdivs \subseteq 0..3

Periph == Events \ {CpuEvent}


VARIABLES
  queue,    \* [scheduled handles -> [due, scale]]: clk_sys_queue_
  phase,    \* clk_sys_tick_ % Period
  psadiv,   \* CLK.PSCTRL.PSADIV
  psbcdiv,  \* CLK.PSCTRL.PSBCDIV
  fired     \* history: the events the last Device::step fired

vars == <<queue, phase, psadiv, psbcdiv, fired>>

Event(due, scale) == [due |-> due, scale |-> scale]

-----------------------------------------------------------------------------
(* Mutants: plausible slips in the code, used to check the properties.    *)

\* schedule() counting the current tick as the first of the ticks.
ScheduleDueOffByOne(s, ticks) == (ticks - 1) * s - (phase % s)

\* schedule() placing the event ticks * scale after the current tick,
\* without rounding clk_sys_tick_ down to a tick of the event's domain.
ScheduleDueUnaligned(s, ticks) == ticks * s

\* step() breaking out of the loop on an event due at the current tick.
FiresFloor(m) == {e \in DOMAIN queue : queue[e].due < m}

\* CLK::setIo shifting by one more than PSADIV.
PrescalerAShifted == 2^(psadiv + 1)

-----------------------------------------------------------------------------
(* CLK prescalers, kept in sync with PSCTRL by CLK::setIo, and            *)
(* Device::getClockScale.                                                  *)

PrescalerBOf(bc) == IF bc \in {2, 3} THEN 2^(4 - bc) ELSE 1
PrescalerCOf(bc) == 2^(bc % 2)

PrescalerA == 2^psadiv
PrescalerB == PrescalerBOf(psbcdiv)
PrescalerC == PrescalerCOf(psbcdiv)

\* The largest scale A*B*C the accepted PSCTRL values give (PSADIV 0 is
\* the reset value).
Period == Max({2^a * PrescalerBOf(bc) * PrescalerCOf(bc) :
                 a \in {x \in Psadivs : x <= 9} \cup {0}, bc \in Psbcdivs \cup {0}})

ClockScale(c) ==
  CASE c \in {"CPU", "PER"} -> PrescalerA * PrescalerB * PrescalerC
    [] c = "PER2"           -> PrescalerA * PrescalerB
    [] c = "PER4"           -> PrescalerA
    [] c \in {"SYS", "ASY"} -> 1

\* Device::schedule: tick = (clk_sys_tick_/scale + ticks) * scale, as an
\* offset from clk_sys_tick_.
ScheduleDue(s, ticks) == ticks * s - (phase % s)

\* Device::onClockConfigChange: dt = ceil((tick - clk_sys_tick_) / scale).
RemainingDomainTicks(r) == (r.due + r.scale - 1) \div r.scale

\* Device::step: the events whose tick is <= the new clk_sys_tick_, the
\* tick of the queue front, m ticks ahead.
Fires(m) == {e \in DOMAIN queue : queue[e].due <= m}

-----------------------------------------------------------------------------
(* Actions *)

\* Device::reset: clk_sys_tick_ = 0, queue cleared, CLK reset, then the CPU
\* step event scheduled on the CPU clock 1 tick ahead.
Reset ==
  /\ queue' = CpuEvent :> Event(1, 1)
  /\ phase' = 0
  /\ psadiv' = 0
  /\ psbcdiv' = 0
  /\ fired' = {}

Init ==
  /\ queue = CpuEvent :> Event(1, 1)
  /\ phase = 0
  /\ psadiv = 0
  /\ psbcdiv = 0
  /\ fired = {}

\* A block schedules its event (a fresh ClockEvent: a handle not in the
\* queue).
Schedule(e, ticks) ==
  /\ e \notin DOMAIN queue
  /\ LET s == ClockScale(EventClock[e])
     IN  queue' = queue @@ (e :> Event(ScheduleDue(s, ticks), s))
  /\ UNCHANGED <<phase, psadiv, psbcdiv, fired>>

\* Device::unschedule: removes the event if found, else logs an error.
Unschedule(e) ==
  /\ queue' = [x \in DOMAIN queue \ {e} |-> queue[x]]
  /\ UNCHANGED <<phase, psadiv, psbcdiv, fired>>

\* Device::step: advance clk_sys_tick_ to the front event's tick, then run
\* every event due at it; a callback returning next > 0 is re-armed at
\* tick + next * scale with the event's own scale, 0 drops the event.
Step ==
  /\ DOMAIN queue # {}
  /\ LET m  == Min({queue[e].due : e \in DOMAIN queue})
         fs == Fires(m)
     IN  \E ret \in [fs -> PeriphNext \cup {1}] :
           /\ \A e \in fs : e = CpuEvent => ret[e] = 1
           /\ \A e \in fs : e # CpuEvent => ret[e] \in PeriphNext
           /\ queue' = [e \in DOMAIN queue \ {x \in fs : ret[x] = 0} |->
                          IF e \in fs
                            THEN Event(queue[e].due - m + ret[e] * queue[e].scale,
                                       queue[e].scale)
                            ELSE Event(queue[e].due - m, queue[e].scale)]
           /\ phase' = (phase + m) % Period
           /\ fired' = fs
  /\ UNCHANGED <<psadiv, psbcdiv>>

\* CLK::setIo(PSCTRL), executed by an instruction of the CPU event: a valid
\* value updates the prescalers; PSADIV > 9 is rejected. The event queue
\* is not touched.
WritePsctrl(a, bc) ==
  /\ CpuEvent \in fired
  /\ IF a > 9
       THEN UNCHANGED <<psadiv, psbcdiv>>
       ELSE psadiv' = a /\ psbcdiv' = bc
  /\ UNCHANGED <<queue, phase, fired>>

\* The slowest clock in use: the largest scale of a live event or a clock.
SlowestScale ==
  Max({queue[e].scale : e \in DOMAIN queue} \cup {ClockScale(c) : c \in Clocks})

\* Device::onClockConfigChange: every event whose scale differs from its
\* clock's keeps its remaining domain ticks. No code of the repository
\* calls it; it is called between two steps on a tick of the slowest clock,
\* the precondition the comment in the code and the specification state.
OnClockConfigChange ==
  /\ phase % SlowestScale = 0
  /\ queue' = [e \in DOMAIN queue |->
                 LET r == queue[e]
                     s == ClockScale(EventClock[e])
                 IN  IF r.scale = s THEN r
                     ELSE Event(RemainingDomainTicks(r) * s, s)]
  /\ UNCHANGED <<phase, psadiv, psbcdiv, fired>>

Next ==
  \/ Step
  \/ \E e \in Periph, t \in ScheduleTicks : Schedule(e, t)
  \/ \E e \in Periph : Unschedule(e)
  \/ \E a \in Psadivs, bc \in Psbcdivs : WritePsctrl(a, bc)
  \/ OnClockConfigChange
  \/ Reset

\* The host keeps calling Device::step; blocks, guest and host are free.
Spec == Init /\ [][Next]_vars /\ WF_vars(Step)

-----------------------------------------------------------------------------
(* Properties *)

TypeOK ==
  /\ DOMAIN queue \subseteq Events
  /\ \A e \in DOMAIN queue :
       queue[e].due \in Int /\ Period % queue[e].scale = 0
  /\ phase \in 0..Period - 1
  /\ psadiv \in 0..9 /\ psbcdiv \in 0..3
  /\ fired \subseteq Events

\* Between two calls of Device::step every scheduled event is due strictly
\* after the current SYS tick, whatever blocks scheduled, the guest wrote
\* to CLK.PSCTRL or onClockConfigChange re-expressed: clk_sys_tick_ never
\* moves backwards and no event is run late.
EventsInFuture == \A e \in DOMAIN queue : queue[e].due > 0

\* Every scheduled event eventually runs (or is unscheduled): neither the
\* CPU nor a peripheral is starved by the others or by clock changes.
EveryEventRuns ==
  \A e \in Events :
    (e \in DOMAIN queue) ~> (e \in fired \/ e \notin DOMAIN queue)

\* The assert of Device::onClockConfigChange holds: when it is called on a
\* tick of the slowest clock, every event it re-expresses is an exact
\* number of its old domain ticks away. This needs schedule(), step() and
\* earlier rescales to have kept every event on a tick of its own domain.
RescaleAligned ==
  [][OnClockConfigChange =>
       \A e \in DOMAIN queue :
         queue[e].scale # ClockScale(EventClock[e]) =>
           queue[e].due % queue[e].scale = 0]_vars

\* "Live represcaling": once CLK changed the scale of an event's clock, the
\* event is eventually re-expressed in the new scale (or removed). CLK::setIo
\* (PSCTRL) only updates the prescalers, and nothing calls onClockConfigChange.
ScaleFollowsClock ==
  \A e \in Events :
    (e \in DOMAIN queue /\ queue[e].scale # ClockScale(EventClock[e]))
      ~> (e \notin DOMAIN queue \/ queue[e].scale = ClockScale(EventClock[e]))

=============================================================================
