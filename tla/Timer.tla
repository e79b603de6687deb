-------------------------------- MODULE Timer -------------------------------
(***************************************************************************)
(* The timer of earth/cpu_timer.c.  mtime and mtimecmp are 64-bit device   *)
(* registers that a 32-bit processor accesses in halves, while mtime goes  *)
(* on counting.  timer_reset() runs in the kernel with interrupts off; each *)
(* access to half a register is a step.                                    *)
(***************************************************************************)
EXTENDS Naturals

CONSTANTS
  Half,      \* values of half a register, 2^32 in the code
  QUANTUM,   \* ticks of a time slice
  MaxTime    \* bound on the ticks counted

ASSUME TimerAssumption ==
  /\ Half \in Nat \ {0} /\ QUANTUM \in Nat \ {0} /\ MaxTime \in Nat
  /\ MaxTime + QUANTUM < (Half - 1) * Half

VARIABLES
  mtime,      \* ticks counted by the device
  mtimecmp,   \* the deadline, in halves
  tm          \* timer_reset(): where it is, its locals, when it was called

timerVars == <<mtime, mtimecmp, tm>>

Deadline == mtimecmp.high * Half + mtimecmp.low
Due == mtime >= Deadline
Idle == [pc |-> "idle", high |-> 0, low |-> 0, time |-> 0, start |-> 0]

(* timer_init() sets a deadline that never comes.                          *)
TimerInit ==
  /\ mtime = 0
  /\ mtimecmp = [high |-> Half - 1, low |-> Half - 1]
  /\ tm = Idle

Tick ==
  /\ mtime < MaxTime
  /\ mtime' = mtime + 1
  /\ UNCHANGED <<mtimecmp, tm>>

-----------------------------------------------------------------------------
timer_reset == tm.pc = "idle" /\ tm' = [tm EXCEPT !.pc = "high", !.start = mtime]

(* mtime_get(): read both halves until the high one did not change.        *)
ReadHigh ==
  /\ tm.pc = "high"
  /\ tm' = [tm EXCEPT !.pc = "low", !.high = mtime \div Half]
  /\ UNCHANGED <<mtime, mtimecmp>>

ReadLow ==
  /\ tm.pc = "low"
  /\ tm' = [tm EXCEPT !.pc = "check", !.low = mtime % Half]
  /\ UNCHANGED <<mtime, mtimecmp>>

Torn_unchecked == FALSE
Torn == mtime \div Half # tm.high

CheckHigh ==
  /\ tm.pc = "check"
  /\ tm' = IF Torn THEN [tm EXCEPT !.pc = "high"]
           ELSE [tm EXCEPT !.pc = "max",
                           !.time = tm.high * Half + tm.low + QUANTUM]
  /\ UNCHANGED <<mtime, mtimecmp>>

(* mtimecmp_set(): the high half is at its maximum while the low changes.  *)
Parked_skipped == mtimecmp.high
Parked == Half - 1

ParkDeadline ==
  /\ tm.pc = "max"
  /\ mtimecmp' = [mtimecmp EXCEPT !.high = Parked]
  /\ tm' = [tm EXCEPT !.pc = "wlow"]
  /\ UNCHANGED mtime

WriteLow ==
  /\ tm.pc = "wlow"
  /\ mtimecmp' = [mtimecmp EXCEPT !.low = tm.time % Half]
  /\ tm' = [tm EXCEPT !.pc = "whigh"]
  /\ UNCHANGED mtime

DeadlineHigh_parked == Half - 1
DeadlineHigh == tm.time \div Half

WriteHigh ==
  /\ tm.pc = "whigh"
  /\ mtimecmp' = [mtimecmp EXCEPT !.high = DeadlineHigh]
  /\ tm' = Idle
  /\ UNCHANGED mtime

TimerStep == ReadHigh \/ ReadLow \/ CheckHigh
             \/ ParkDeadline \/ WriteLow \/ WriteHigh

-----------------------------------------------------------------------------
(* mtime_get() returns a time at which the counter really was while it     *)
(* ran, although it reads the halves at different times.                   *)
TimeIsReal ==
  tm.pc \in {"max", "wlow", "whigh"} =>
    tm.start + QUANTUM <= tm.time /\ tm.time <= mtime + QUANTUM

(* mtimecmp_set() never passes through a deadline before the one it sets.  *)
NoEarlyDeadline == tm.pc \in {"wlow", "whigh"} => Deadline >= tm.time

(* Once timer_reset() has run, the next timer interrupt is never more than *)
(* a QUANTUM away: no process keeps the processor for long.                *)
Unset == mtimecmp = [high |-> Half - 1, low |-> Half - 1]
SliceIsShort == tm.pc = "idle" => Unset \/ Deadline <= mtime + QUANTUM
=============================================================================
