------------------------------ MODULE FtdcTimer ------------------------------
(***************************************************************************)
(* When the module samples: the timer it keeps with the server, as loading *)
(* the module, FTDC.CONFIG SET and the callback arm and stop it            *)
(* (src/ftdc.c).                                                           *)
(*                                                                         *)
(* The server's timers are external.  From the calls in src/ftdc.c and the *)
(* comments of include/valkeymodule.h: a timer fires once, some time after *)
(* its period, and is then forgotten; a stopped timer does not fire; a     *)
(* module that holds a timer is not unloaded.                              *)
(***************************************************************************)
EXTENDS Integers

CONSTANTS
  Interval,  \* values of interval-ms, in ticks; loading takes 0, too
  TimerId,   \* identities the server gives to timers
  NoTimer    \* timer_id before the first timer

ASSUME TimerAssumption ==
  /\ Interval \subseteq Nat
  /\ NoTimer \notin TimerId

VARIABLES
  loaded,        \* is the module loaded?
  enabled,       \* config
  interval_ms,   \* config
  timer_active,
  timer_id,
  pending        \* server: ticks left of each timer that has not fired

vars == <<loaded, enabled, interval_ms, timer_active, timer_id, pending>>

TypeOK ==
  /\ loaded \in BOOLEAN /\ enabled \in BOOLEAN /\ timer_active \in BOOLEAN
  /\ interval_ms \in Interval
  /\ timer_id \in TimerId \cup {NoTimer}
  /\ DOMAIN pending \subseteq TimerId
  /\ pending \in [DOMAIN pending -> Nat]
-----------------------------------------------------------------------------
(* The server.                                                             *)

NoTimers == [t \in {} |-> 0]

Without(timers, id) == [t \in DOMAIN timers \ {id} |-> timers[t]]

With(timers, id, period) ==
  [t \in DOMAIN timers \cup {id} |-> IF t = id THEN period ELSE timers[t]]

Passed(left) == IF left = 0 THEN 0 ELSE left - 1

\* A timer may be late: time goes on while one is due.
Tick ==
  /\ \E t \in DOMAIN pending : pending[t] > 0
  /\ pending' = [t \in DOMAIN pending |-> Passed(pending[t])]
  /\ UNCHANGED <<loaded, enabled, interval_ms, timer_active, timer_id>>
-----------------------------------------------------------------------------
(* The module.                                                             *)

\* ftdc_schedule_timer and ftdc_stop_timer, from server timers and a
\* timer_active that the caller may just have changed.
ScheduleTimer(timers, active, period) ==
  IF active
    THEN pending' = timers /\ timer_active' = TRUE /\ UNCHANGED timer_id
    ELSE \E id \in TimerId \ DOMAIN pending :
           /\ pending' = With(timers, id, period)
           /\ timer_active' = TRUE
           /\ timer_id' = id

StoppedTimers == IF timer_active THEN Without(pending, timer_id) ELSE pending

StopTimer ==
  /\ pending' = StoppedTimers
  /\ timer_active' = FALSE
  /\ UNCHANGED timer_id

TimerCallbackMutant(id) ==  \* timer_active is not reset before scheduling
  /\ id \in DOMAIN pending /\ pending[id] = 0
  /\ IF enabled
       THEN ScheduleTimer(Without(pending, id), timer_active, interval_ms)
       ELSE /\ timer_active' = FALSE
            /\ pending' = Without(pending, id)
            /\ UNCHANGED timer_id
  /\ UNCHANGED <<loaded, enabled, interval_ms>>

\* ftdc_timer_callback: the append of the sample may fail, the next timer is
\* created all the same.  The fired one is forgotten when the callback returns.
TimerCallback(id) ==
  /\ id \in DOMAIN pending /\ pending[id] = 0
  /\ IF enabled
       THEN ScheduleTimer(Without(pending, id), FALSE, interval_ms)
       ELSE /\ timer_active' = FALSE
            /\ pending' = Without(pending, id)
            /\ UNCHANGED timer_id
  /\ UNCHANGED <<loaded, enabled, interval_ms>>

Sample(id) == enabled /\ TimerCallback(id)

SetEnabledMutant(b) ==  \* schedules over a timer that is there
  /\ loaded
  /\ enabled' = b
  /\ IF b THEN ScheduleTimer(pending, FALSE, interval_ms) ELSE StopTimer
  /\ UNCHANGED <<loaded, interval_ms>>

SetEnabled(b) ==
  /\ loaded
  /\ enabled' = b
  /\ IF b THEN ScheduleTimer(pending, timer_active, interval_ms) ELSE StopTimer
  /\ UNCHANGED <<loaded, interval_ms>>

SetIntervalMutant(i) ==  \* the timer is not stopped first
  /\ loaded
  /\ interval_ms' = i
  /\ IF enabled THEN ScheduleTimer(pending, timer_active, i) ELSE StopTimer
  /\ UNCHANGED <<loaded, enabled>>

SetIntervalUnitMutant(i) ==  \* scaled to microseconds
  /\ loaded
  /\ interval_ms' = i * 1000
  /\ IF enabled THEN ScheduleTimer(StoppedTimers, FALSE, i) ELSE StopTimer
  /\ UNCHANGED <<loaded, enabled>>

\* The timer is stopped and, if sampling is enabled, armed with the new period.
SetInterval(i) ==
  /\ loaded
  /\ interval_ms' = i
  /\ IF enabled THEN ScheduleTimer(StoppedTimers, FALSE, i) ELSE StopTimer
  /\ UNCHANGED <<loaded, enabled>>

\* The module is loaded into a process that has none of its state.
OnLoad(b, i) ==
  /\ ~loaded
  /\ loaded' = TRUE
  /\ enabled' = b
  /\ interval_ms' = i
  /\ IF b
       THEN ScheduleTimer(NoTimers, FALSE, i)
       ELSE pending' = NoTimers /\ timer_active' = FALSE /\ timer_id' = NoTimer

\* MODULE UNLOAD, which the server refuses to a module that holds a timer.
Unload ==
  /\ loaded
  /\ pending = NoTimers
  /\ loaded' = FALSE
  /\ UNCHANGED <<enabled, interval_ms, timer_active, timer_id, pending>>

\* The process ends and another takes its place.
Restart ==
  /\ loaded' = FALSE
  /\ pending' = NoTimers
  /\ timer_active' = FALSE
  /\ timer_id' = NoTimer
  /\ UNCHANGED <<enabled, interval_ms>>

Init ==
  /\ loaded = FALSE
  /\ enabled \in BOOLEAN
  /\ interval_ms \in Interval
  /\ timer_active = FALSE
  /\ timer_id = NoTimer
  /\ pending = NoTimers

Next ==
  \/ Tick
  \/ \E id \in TimerId : TimerCallback(id)
  \/ \E b \in BOOLEAN : SetEnabled(b)
  \/ \E i \in Interval : SetInterval(i)
  \/ \E b \in BOOLEAN, i \in Interval : OnLoad(b, i)
  \/ Unload
  \/ Restart

\* Time passes, and the server's event loop runs the callbacks that are due.
Fairness ==
  /\ WF_vars(Tick)
  /\ \A id \in TimerId : WF_vars(TimerCallback(id))

Spec == Init /\ [][Next]_vars /\ Fairness
-----------------------------------------------------------------------------
(* Properties.                                                             *)

\* The server holds exactly the timer the module knows of, and holds one if
\* and only if sampling is enabled: none is lost, so that sampling would stop,
\* and none is doubled, so that samples would come at twice the rate
\* (src/ftdc.c:67-101, 296-308, 430-432).
OneTimer ==
  /\ loaded => (enabled <=> timer_active)
  /\ DOMAIN pending = IF timer_active THEN {timer_id} ELSE {}
  /\ timer_active => loaded /\ timer_id # NoTimer

\* The next sample is never further away than the interval that is configured
\* now: a shorter one does not wait for the timer of the longer one
\* (src/ftdc.c:304-308).
NextSampleWithinInterval ==
  \A id \in DOMAIN pending : pending[id] <= interval_ms

Reconfigure == \E i \in Interval : SetInterval(i)

\* As long as the module stays loaded and enabled, it samples again and again,
\* unless interval-ms is set over and over: each time starts the period anew
\* (src/ftdc.c:81-83).
SamplingGoesOn ==
  (<>[](loaded /\ enabled) /\ <>[][~Reconfigure]_vars)
    => []<><<\E id \in TimerId : Sample(id)>>_vars
=============================================================================
