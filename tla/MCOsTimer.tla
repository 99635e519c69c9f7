----------------------------- MODULE MCOsTimer -----------------------------
(***************************************************************************)
(* Model checking of OsTimer: two one-shots that interrupt handlers may    *)
(* restart, a periodic timer and a pair of IRQ timers as hal_led.c uses,   *)
(* a task queue that fills up and a clock that wraps around.               *)
(***************************************************************************)
EXTENDS OsTimer

CONSTANTS one, two, per, irqper, irqone

MCType == [t \in Timers |->
             CASE t \in {one, two} -> "ONESHOT"
               [] t = per -> "PERIODICAL"
               [] t = irqper -> "IRQ_PERIODICAL"
               [] t = irqone -> "IRQ_ONESHOT"]

MCInterval == [t \in Timers |-> IF t \in {one, irqone} THEN 1 ELSE 2]
=============================================================================
