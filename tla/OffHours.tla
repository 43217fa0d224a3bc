------------------------------ MODULE OffHours ------------------------------
(***************************************************************************)
(* The schedule of the nightly scale-to-zero worker                        *)
(* (backend/services/scale_worker.py): the pure functions that decide, for *)
(* a local time, whether development environments should be stopped.       *)
(***************************************************************************)
EXTENDS Integers

Hours == 0..23

\* datetime.weekday(): Monday is 0, Saturday 5, Sunday 6.
Weekdays == 0..6

\* A point of local time, at the precision the schedule looks at.
Times == [weekday : Weekdays, hour : Hours]

\* An off-hours window that forgets to wrap around midnight.
IsOffHoursNoWrap(hour, down, up) == down <= hour /\ hour < up

(***************************************************************************)
(* _is_off_hours: the window [down, up) of hours of the day.  Equal bounds *)
(* mean that there is no window; down > up wraps around midnight.          *)
(***************************************************************************)
IsOffHours(hour, down, up) ==
    /\ down # up
    /\ IF down < up THEN down <= hour /\ hour < up
                    ELSE hour >= down \/ hour < up

\* _desired_stopped: all week-end when weekdaysOnly, else the hourly window.
DesiredStopped(now, down, up, weekdaysOnly) ==
    \/ weekdaysOnly /\ now.weekday >= 5
    \/ IsOffHours(now.hour, down, up)

(***************************************************************************)
(* Reference definition, independent of the comparisons of the code: hour  *)
(* is met on the walk around the dial that starts at down, before up is.   *)
(***************************************************************************)
OnDialBetween(hour, down, up) ==
    (hour - down) % 24 < (up - down) % 24
=============================================================================
