----------------------------- MODULE MCSchedule -----------------------------
(* The form alone: nobody types an expression.  A short calendar: a minute *)
(* of 6 ticks, an hour of 6 minutes, a day of 4 hours, a week of 3 days.   *)
EXTENDS ScheduleForm

DefaultSchedule == Simple("daily", 3, 1, {1}, 2, "minutes")
=============================================================================
