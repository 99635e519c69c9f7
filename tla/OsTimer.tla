------------------------------- MODULE OsTimer -------------------------------
(***************************************************************************)
(* The software timers of OpenOS, core/sys/openos/timer.c, on top of the   *)
(* task queues that OsTaskFifo promises.                                   *)
(*                                                                         *)
(* The tick interrupt advances the clock and walks the list of timers      *)
(* (hal_timer_cb).  The walk starts with interrupts disabled, but          *)
(* DISABLE_INTERRUPTS does not nest: the ENABLE_INTERRUPTS at the end of   *)
(* os_scheduler_push_task, or of a timer operation called by an IRQ        *)
(* callback, lets other interrupt handlers into the rest of the walk.      *)
(*                                                                         *)
(* Assumed: a walk ends before the next tick, and the handlers that cut    *)
(* into it start and reset timers but stop none (as the UART handler of    *)
(* modbus.c does).                                                         *)
(***************************************************************************)
EXTENDS Integers, Sequences, FiniteSets, SequencesExt

CONSTANTS
  Timers,     \* the os_timer_t objects
  NoTimer,    \* NULL
  Type,       \* Type[t]: the os_timer_type_t that t is started with
  Interval,   \* Interval[t]: the interval that t is started with
  IsrTimers,  \* the timers that other interrupt handlers start and reset
  OtherTask,  \* a task of another client of the scheduler
  TimeMod,    \* hal_time_ms() counts modulo TimeMod (2^32 in the code)
  Capacity    \* the tasks that the queue of CFG_OS_TIMER_PRIORITY holds

Types == {"ONESHOT", "PERIODICAL", "IRQ_ONESHOT", "IRQ_PERIODICAL"}

ASSUME TypeAssumption == Type \in [Timers -> Types]
ASSUME IntervalAssumption == Interval \in [Timers -> Nat \ {0}]
ASSUME IsrTimersAssumption ==
  IsrTimers \subseteq {t \in Timers : Type[t] = "ONESHOT"}
ASSUME ClockAssumption == TimeMod \in Nat \ {0}
ASSUME NoTimerAssumption == NoTimer \notin Timers

VARIABLES
  timers,   \* the TAILQ, first element first
  start,    \* start[t]: t->start
  now,      \* hal_time_ms()
  cur,      \* the element the walk is at, or NoTimer
  walk,     \* "out" of the walk, about to "check" cur, or to "settle" it
  stale,    \* the entry.tqe_next left in cur when its callback stopped it
  masked,   \* interrupts are disabled
  queue, running,  \* see OsTaskFifo
  age,      \* history: the milliseconds that truly passed since start[t]
  client    \* history: what the callers of the interface know of t

list == <<timers, start>>
ghost == <<age, client>>
vars == <<timers, start, now, cur, walk, stale, masked, queue, running, age, client>>

TimerPrio == 0     \* CFG_OS_TIMER_PRIORITY

Fifo == INSTANCE OsTaskFifo WITH Prio <- {TimerPrio}, Tasks <- Timers \cup {OtherTask}

Elements(s) == {s[i] : i \in DOMAIN s}

Listed(t) == t \in Elements(timers)

PlaceOf(s, t) == CHOOSE i \in DOMAIN s : s[i] = t

(* TAILQ_REMOVE from the list s, if t is in it. *)
Without(s, t) == IF t \in Elements(s) THEN RemoveAt(s, PlaceOf(s, t)) ELSE s

(* TAILQ_NEXT in the list s, NoTimer at its end. *)
NextIn(s, t) == IF PlaceOf(s, t) < Len(s) THEN s[PlaceOf(s, t) + 1] ELSE NoTimer

(* TAILQ_NEXT(cur): a removed element keeps its link. *)
NextOfCur == IF Listed(cur) THEN NextIn(timers, cur) ELSE stale

(* hal_time_ms() - t->start, in uint32_t. *)
Elapsed(t) == (now - start[t]) % TimeMod

(* Mutant of TimedOut: the clock is compared with the time of expiry. *)
TimedOutAbsolute(t) == now >= (start[t] + Interval[t]) % TimeMod

TimedOut(t) == Elapsed(t) >= Interval[t]

(* os_scheduler_push_task; its result is ignored. *)
PushOrDrop(t) == \/ Fifo!Accept(TimerPrio, t)
                 \/ /\ Len(queue[TimerPrio]) >= Capacity
                    /\ UNCHANGED <<queue, running>>
-----------------------------------------------------------------------------
Init ==
  /\ timers = <<>>
  /\ start = [t \in Timers |-> 0]
  /\ now = 0
  /\ cur = NoTimer /\ walk = "out" /\ stale = NoTimer /\ masked = FALSE
  /\ Fifo!Init
  /\ age = [t \in Timers |-> 0]
  /\ client = [t \in Timers |-> "stopped"]

(* Mutants of ListStarted: t is inserted twice; t is inserted in front. *)
ListStartedTwice(s, t) == Append(s, t)
ListStartedInFront(s, t) == IF t \in Elements(s) THEN s ELSE <<t>> \o s

(* The list s after os_timer_start(t): t is appended unless it is in. *)
ListStarted(s, t) == IF t \in Elements(s) THEN s ELSE Append(s, t)

(* os_timer_start.  A start that cuts into the walk after t expired and    *)
(* before t is settled is "cut" short: a one-shot is removed regardless.   *)
StartTimer(t) ==
  /\ timers' = ListStarted(timers, t)
  /\ start' = [start EXCEPT ![t] = now]
  /\ age' = [age EXCEPT ![t] = 0]
  /\ client' = [client EXCEPT ![t] = IF walk = "settle" /\ cur = t
                                       THEN "cut" ELSE "started"]

(* os_timer_reset: nothing happens to a timer that is not in the list. *)
ResetTimer(t) ==
  /\ Listed(t)
  /\ start' = [start EXCEPT ![t] = now]
  /\ age' = [age EXCEPT ![t] = 0]
  /\ UNCHANGED <<timers, client>>

(* os_timer_stop. *)
StopTimer(t) ==
  /\ timers' = Without(timers, t)
  /\ client' = [client EXCEPT ![t] = "stopped"]
  /\ age' = [age EXCEPT ![t] = 0]
  /\ UNCHANGED start

(* The program calls the interface, in main context or in an interrupt     *)
(* handler that runs to its end.                                           *)
Call ==
  /\ walk = "out"
  /\ \E t \in Timers : StartTimer(t) \/ ResetTimer(t) \/ (Listed(t) /\ StopTimer(t))
  /\ UNCHANGED <<now, cur, walk, stale, masked, queue, running>>

(* Another interrupt handler cuts into the walk. *)
Interrupt ==
  /\ walk # "out" /\ ~masked
  /\ \E t \in IsrTimers : StartTimer(t) \/ ResetTimer(t)
  /\ UNCHANGED <<now, cur, walk, stale, masked, queue, running>>

(* The tick interrupt: the clock advances and the walk begins. *)
Tick ==
  /\ walk = "out"
  /\ now' = (now + 1) % TimeMod
  /\ age' = [t \in Timers |-> IF Listed(t) THEN age[t] + 1 ELSE age[t]]
  /\ IF timers = <<>> THEN UNCHANGED <<cur, walk, masked>>
                      ELSE cur' = Head(timers) /\ walk' = "check" /\ masked' = TRUE
  /\ UNCHANGED <<list, stale, queue, running, client>>

(* Mutant of WalkTo: interrupts stay disabled after the walk. *)
WalkToMasked(t) ==
  IF t = NoTimer
    THEN cur' = NoTimer /\ walk' = "out" /\ stale' = NoTimer /\ UNCHANGED masked
    ELSE cur' = t /\ walk' = "check" /\ stale' = NoTimer /\ UNCHANGED masked

(* TAILQ_FOREACH goes on with t, or the walk is over. *)
WalkTo(t) ==
  IF t = NoTimer
    THEN cur' = NoTimer /\ walk' = "out" /\ stale' = NoTimer /\ masked' = FALSE
    ELSE cur' = t /\ walk' = "check" /\ stale' = NoTimer /\ UNCHANGED masked

(* cur has not expired. *)
NotExpired ==
  /\ walk = "check"
  /\ ~TimedOut(cur)
  /\ WalkTo(NextOfCur)
  /\ UNCHANGED <<list, now, queue, running, ghost>>

Expired == walk = "check" /\ TimedOut(cur)

(* The callback of a timer is pushed as a task; the push enables interrupts. *)
ExpireToTask ==
  /\ Expired
  /\ Type[cur] \in {"ONESHOT", "PERIODICAL"}
  /\ PushOrDrop(cur)
  /\ masked' = FALSE
  /\ walk' = "settle"
  /\ client' = [client EXCEPT ![cur] = IF Type[cur] = "ONESHOT" THEN "fired" ELSE @]
  /\ UNCHANGED <<list, now, cur, stale, age>>

(* The callback of an IRQ timer runs here.  It may use the interface, which *)
(* enables interrupts: hal_led.c's period callback starts a one-shot, and,  *)
(* the last time, stops its own timer before.                               *)
IrqFired(t) == IF Type[t] = "IRQ_ONESHOT" THEN "fired" ELSE client[t]

IrqCallbackPlain ==
  /\ client' = [client EXCEPT ![cur] = IrqFired(cur)]
  /\ UNCHANGED <<list, stale, masked, age>>

IrqCallbackStops ==
  /\ Type[cur] = "IRQ_PERIODICAL"
  /\ StopTimer(cur)
  /\ stale' = NextIn(timers, cur)
  /\ masked' = FALSE

StartableInIrq == {t \in Timers : Type[t] \in {"ONESHOT", "IRQ_ONESHOT"}}

IrqCallbackStarts ==
  /\ Type[cur] = "IRQ_PERIODICAL"
  /\ \E t \in StartableInIrq : StartTimer(t)
  /\ masked' = FALSE
  /\ UNCHANGED stale

IrqCallbackStopsAndStarts ==
  /\ Type[cur] = "IRQ_PERIODICAL"
  /\ \E t \in StartableInIrq :
       /\ timers' = ListStarted(Without(timers, cur), t)
       /\ start' = [start EXCEPT ![t] = now]
       /\ age' = [age EXCEPT ![cur] = 0, ![t] = 0]
       /\ client' = [client EXCEPT ![cur] = "stopped", ![t] = "started"]
  /\ stale' = NextIn(timers, cur)
  /\ masked' = FALSE

ExpireInIrq ==
  /\ Expired
  /\ Type[cur] \in {"IRQ_ONESHOT", "IRQ_PERIODICAL"}
  /\ \/ IrqCallbackPlain \/ IrqCallbackStops
     \/ IrqCallbackStarts \/ IrqCallbackStopsAndStarts
  /\ walk' = "settle"
  /\ UNCHANGED <<now, cur, queue, running>>

(* Mutant of SettleOneShot: the timer is not removed. *)
SettleOneShotKept ==
  /\ walk = "settle"
  /\ Type[cur] = "ONESHOT"
  /\ age' = [age EXCEPT ![cur] = 0]
  /\ LET tmp == NextOfCur
     IN  WalkTo(IF tmp = NoTimer THEN NoTimer ELSE NextIn(timers, tmp))
  /\ UNCHANGED <<timers, start, now, queue, running, client>>

(* A one-shot is removed; the walk continues behind its successor. *)
SettleOneShot ==
  /\ walk = "settle"
  /\ Type[cur] = "ONESHOT"
  /\ timers' = Without(timers, cur)
  /\ age' = [age EXCEPT ![cur] = 0]
  /\ LET tmp == NextOfCur
     IN  WalkTo(IF tmp = NoTimer THEN NoTimer ELSE NextIn(timers, tmp))
  /\ UNCHANGED <<start, now, queue, running, client>>

(* Every other type, OS_TIMER_IRQ_ONESHOT too, is rearmed. *)
SettlePeriodic ==
  /\ walk = "settle"
  /\ Type[cur] # "ONESHOT"
  /\ start' = [start EXCEPT ![cur] = (@ + Interval[cur]) % TimeMod]
  /\ age' = [age EXCEPT ![cur] = IF Listed(cur) THEN @ - Interval[cur] ELSE 0]
  /\ WalkTo(NextOfCur)
  /\ UNCHANGED <<timers, now, queue, running, client>>

(* The other clients of the scheduler and its main loop. *)
OtherPush == Fifo!Accept(TimerPrio, OtherTask)
               /\ UNCHANGED <<list, now, cur, walk, stale, masked, ghost>>

RunTask == /\ walk = "out"
           /\ Fifo!Begin(TimerPrio) \/ Fifo!Finish(TimerPrio)
           /\ UNCHANGED <<list, now, cur, walk, stale, masked, ghost>>

Walk == NotExpired \/ ExpireToTask \/ ExpireInIrq \/ SettleOneShot \/ SettlePeriodic

Next == Call \/ Interrupt \/ Tick \/ Walk \/ OtherPush \/ RunTask

Spec == Init /\ [][Next]_vars
-----------------------------------------------------------------------------
(* The variables hold what timer.c keeps in them, and the fields of the    *)
(* walk agree with each other.                                             *)
TypeOK ==
  /\ timers \in Seq(Timers)
  /\ start \in [Timers -> 0 .. TimeMod - 1]
  /\ now \in 0 .. TimeMod - 1
  /\ cur \in Timers \cup {NoTimer} /\ (cur = NoTimer <=> walk = "out")
  /\ walk \in {"out", "check", "settle"}
  /\ stale \in Timers \cup {NoTimer}
  /\ masked \in BOOLEAN /\ (masked => walk # "out")
  /\ age \in [Timers -> Int]
  /\ client \in [Timers -> {"started", "cut", "fired", "stopped"}]

(* No timer is linked twice: a second link would make the list a cycle.    *)
(* Restarting a running timer, from an interrupt in the walk too, must not *)
(* insert it again.                                                        *)
ListedOnce == \A i, j \in DOMAIN timers : timers[i] = timers[j] => i = j

(* A callback never comes early: when the walk takes a timer for expired,  *)
(* its interval has truly passed since it was started, reset or last       *)
(* expired, although the clock wraps around.                               *)
NeverEarly == [][walk = "check" /\ walk' = "settle" => age[cur] >= Interval[cur]]_vars

(* The timers that the walk visits before t.                               *)
Ahead(t) == {timers[i] : i \in {k \in DOMAIN timers :
                                  \E j \in DOMAIN timers : k < j /\ timers[j] = t}}

OneShots == {t \in Timers : Type[t] = "ONESHOT"}

(* No interval comes near the 2^32 ms after which the clock wraps around.  *)
ASSUME ShortIntervalAssumption ==
  /\ IsFiniteSet(Timers)
  /\ \A t \in Timers : Interval[t] + Cardinality(OneShots) < TimeMod

(* A callback is late by few ticks: after removing a one-shot the walk     *)
(* jumps over the next element, which therefore waits for another tick.    *)
(* It can happen to t once for each one-shot that was ahead of t.          *)
LateByOneShotsAhead ==
  walk = "out" =>
    \A t \in Timers : Listed(t) =>
      age[t] < Interval[t] + Cardinality((OneShots \ {t}) \ Ahead(t))

(* The list holds the timers its clients believe to be running: a one-shot *)
(* that was started stays in it until it fires or is stopped and leaves it *)
(* then; the one exception is a start that cuts into the walk while the    *)
(* same timer is being settled, which is lost.                             *)
ListedIffRunning ==
  \A t \in Timers :
    Type[t] # "IRQ_ONESHOT" /\ ~(walk = "settle" /\ cur = t) =>
      (Listed(t) <=> client[t] = "started")

(* "Oneshot timer - Remove timer from the queue": a one-shot timer of      *)
(* either kind leaves the list when it fires.                              *)
OneShotLeavesList ==
  \A t \in Timers :
    Type[t] \in {"ONESHOT", "IRQ_ONESHOT"} /\ client[t] = "fired"
      /\ ~(walk = "settle" /\ cur = t) => ~Listed(t)
=============================================================================
