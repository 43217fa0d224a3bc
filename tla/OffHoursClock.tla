--------------------------- MODULE OffHoursClock ---------------------------
(***************************************************************************)
(* A wall clock that runs through the hours of the week under an arbitrary *)
(* schedule configuration, to compare _desired_stopped with what the       *)
(* configuration comments promise about it.                                *)
(***************************************************************************)
EXTENDS OffHours

VARIABLES
    time,              \* local time, truncated to the hour
    downHour, upHour,  \* DEV_SCALE_DOWN_HOUR, DEV_SCALE_UP_HOUR
    weekdays           \* DEV_SCALE_WEEKDAYS_ONLY

clockVars == <<time, downHour, upHour, weekdays>>

ClockInit ==
    /\ time = [weekday |-> 0, hour |-> 0]
    /\ downHour \in Hours
    /\ upHour \in Hours
    /\ weekdays \in BOOLEAN

\* One hour passes.
HourPasses ==
    /\ time' = [weekday |-> IF time.hour = 23 THEN (time.weekday + 1) % 7
                                              ELSE time.weekday,
                hour    |-> (time.hour + 1) % 24]
    /\ UNCHANGED <<downHour, upHour, weekdays>>

ClockNext == HourPasses

ClockSpec == ClockInit /\ [][ClockNext]_clockVars

StoppedNow == DesiredStopped(time, downHour, upHour, weekdays)

(***************************************************************************)
(* The comparisons of _is_off_hours describe the cyclic interval           *)
(* [downHour, upHour) of the dial for every hour and every configuration,  *)
(* and the week-end is off as a whole when DEV_SCALE_WEEKDAYS_ONLY is set. *)
(***************************************************************************)
StoppedIsCyclicWindow ==
    StoppedNow <=> \/ weekdays /\ time.weekday \in {5, 6}
                   \/ OnDialBetween(time.hour, downHour, upHour)
=============================================================================
