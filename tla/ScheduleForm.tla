----------------------------- MODULE ScheduleForm -----------------------------
(***************************************************************************)
(* The schedule of a routine while it is edited: the form writes a cron    *)
(* expression (web/src/schedule.ts), the preview reads it back as a phrase *)
(* (web/src/cron.ts), and the page and the routine service both check how  *)
(* often it fires (domain/schedule.ts) - each at its own time.             *)
(*                                                                         *)
(* Time is counted in ticks; the calendar is a short one.  A field of an   *)
(* expression is <<"any">>, <<"at", n>>, <<"step", n>> for */n,            *)
(* <<"list", n, ...>> or <<"range">> for 1-5; an expression of five fields *)
(* has no seconds.                                                         *)
(***************************************************************************)
EXTENDS Integers, Sequences, FiniteSets

CONSTANTS
  MinuteTicks, HourMinutes, DayHours, WeekDays,   \* the calendar
  Workdays,      \* the days 1-5
  MinInterval,   \* MIN_SCHEDULE_INTERVAL_MS, in ticks
  Typed,         \* the expressions a user types
  Default        \* what the form shows when it cannot show the expression

VARIABLES
  cron,      \* the expression of the draft; the stored one when the page was left
  custom,    \* is the expression shown as text?
  editing
scheduleVars == <<cron, custom, editing>>

None5 == <<"none">>
Star == <<"any">>
Expression(second, minute, hour, days) == [second |-> second, minute |-> minute, hour |-> hour, days |-> days]

-----------------------------------------------------------------------------
(* When an expression fires.                                               *)

Values(field, range) ==
  CASE field[1] = "none" -> {0}
    [] field[1] = "any" -> 0 .. range - 1
    [] field[1] = "at" -> {field[2]}
    [] field[1] = "step" -> {n \in 0 .. range - 1 : n % field[2] = 0}
    [] field[1] = "list" -> {field[i] : i \in 2 .. Len(field)}
    [] field[1] = "range" -> Workdays

(* A field a schedule may have: cron-parser refuses values out of range.   *)
FieldFits(field, range) ==
  /\ Values(field, range) # {}
  /\ Values(field, range) \subseteq 0 .. range - 1
  /\ field[1] = "step" => field[2] \in Nat \ {0}
Fits(c) ==
  /\ FieldFits(c.second, MinuteTicks)
  /\ FieldFits(c.minute, HourMinutes)
  /\ FieldFits(c.hour, DayHours)

ASSUME CalendarAssumption ==
  {MinuteTicks, HourMinutes, DayHours, WeekDays} \subseteq Nat \ {0}
ASSUME TypedAssumption == \A c \in Typed : Fits(c)

HourTicks == MinuteTicks * HourMinutes
DayTicks == HourTicks * DayHours
WeekTicks == DayTicks * WeekDays

Fires(c, t) ==
  /\ t % MinuteTicks \in Values(c.second, MinuteTicks)
  /\ (t \div MinuteTicks) % HourMinutes \in Values(c.minute, HourMinutes)
  /\ (t \div HourTicks) % DayHours \in Values(c.hour, DayHours)
  /\ (t \div DayTicks) % WeekDays \in Values(c.days, WeekDays)

Lowest(values) == CHOOSE v \in values : \A w \in values : v <= w
NextFire(c, t) == Lowest({n \in t + 1 .. t + WeekTicks : Fires(c, n)})

(* validateSchedule and previewCron: only the first two occurrences from   *)
(* now on are compared.                                                    *)
SeldomEnough(c, now) ==
  LET first == NextFire(c, now) IN NextFire(c, first) - first >= MinInterval

-----------------------------------------------------------------------------
(* The form.                                                               *)

Simple(frequency, minute, hour, days, every, unit) ==
  [frequency |-> frequency, minute |-> minute, hour |-> hour, days |-> days, every |-> every, unit |-> unit]

Frequencies == {"daily", "weekdays", "weekly", "hourly", "interval"}
Forms(days) ==
  [frequency : Frequencies, minute : 0 .. HourMinutes - 1, hour : 0 .. DayHours - 1, days : days,
   every : Nat \ {0}, unit : {"minutes", "seconds"}]
ASSUME DefaultAssumption == Default \in Forms(SUBSET (0 .. WeekDays - 1))

Clock(c) == [Default EXCEPT !.minute = c.minute[2], !.hour = c.hour[2]]
IsClock(c) == c.second = None5 /\ c.minute[1] = "at" /\ c.hour[1] = "at"

(* parseSchedule: null (here FALSE) for what the form cannot show. *)
HasForm(c) ==
  \/ IsClock(c) /\ c.days[1] \in {"any", "range", "list"}
  \/ c = Expression(None5, <<"at", 0>>, Star, Star)
  \/ c.hour = Star /\ c.days = Star /\ c.second = None5 /\ c.minute[1] = "step"
  \/ c.hour = Star /\ c.days = Star /\ c.minute = Star /\ c.second[1] = "step"

Parsed(c) ==
  IF IsClock(c) THEN
    [Clock(c) EXCEPT !.frequency = CASE c.days[1] = "any" -> "daily" [] c.days[1] = "range" -> "weekdays"
                                     [] OTHER -> "weekly",
                     !.days = IF c.days[1] = "list" THEN Values(c.days, WeekDays) ELSE Default.days]
  ELSE IF c.minute[1] = "at" THEN [Default EXCEPT !.frequency = "hourly"]
  ELSE [Default EXCEPT !.frequency = "interval", !.every = IF c.second = None5 THEN c.minute[2] ELSE c.second[2],
                       !.unit = IF c.second = None5 THEN "minutes" ELSE "seconds"]
ParseSchedule(c) == IF HasForm(c) THEN Parsed(c) ELSE Default

Ascending(days) ==
  <<"list">> \o [i \in 1 .. Cardinality(days) |->
                   CHOOSE d \in days : Cardinality({e \in days : e < d}) = i - 1]

ToCron(s) ==
  CASE s.frequency = "daily" -> Expression(None5, <<"at", s.minute>>, <<"at", s.hour>>, Star)
    [] s.frequency = "weekdays" -> Expression(None5, <<"at", s.minute>>, <<"at", s.hour>>, <<"range">>)
    [] s.frequency = "weekly" -> Expression(None5, <<"at", s.minute>>, <<"at", s.hour>>, Ascending(s.days))
    [] s.frequency = "hourly" -> Expression(None5, <<"at", 0>>, Star, Star)
    [] s.frequency = "interval" ->
         IF s.unit = "seconds" THEN Expression(<<"step", s.every>>, Star, Star, Star)
         ELSE Expression(None5, <<"step", s.every>>, Star, Star)

WithFrequency(c, frequency) == ToCron([ParseSchedule(c) EXCEPT !.frequency = frequency])

(* What the form shows of it. *)
Form == IF custom \/ ~HasForm(cron) THEN "custom" ELSE ParseSchedule(cron).frequency

-----------------------------------------------------------------------------
(* The phrase of the preview: "every" so many ticks, "past" a mark of the  *)
(* hour every so many ticks, "at" these ticks of the day - or silence.     *)

Silence == <<"silence">>

(* step: 0 unless the values are evenly spaced over the whole range. *)
StepOfLength(values, range) ==   \* mutant: the grid is not compared
  IF Cardinality(values) < 2 \/ range % Cardinality(values) # 0 THEN 0 ELSE range \div Cardinality(values)
StepOf(values, range) ==
  LET size == range \div Cardinality(values)
  IN IF /\ Cardinality(values) >= 2 /\ range % Cardinality(values) = 0
        /\ values = {Lowest(values) + i * size : i \in 0 .. Cardinality(values) - 1}
        /\ Lowest(values) < size
     THEN size ELSE 0

Every(values, range) == Cardinality(values) = range

DescribeTime(seconds, minutes, hours) ==
  LET second == Lowest(seconds)
      minute == Lowest(minutes)
      whole == Every(minutes, HourMinutes) /\ Every(hours, DayHours)
      mark == minute * MinuteTicks + second
      step(values, range, unit) == StepOf(values, range) * unit
  IN IF Cardinality(seconds) > 1 THEN
       IF ~whole THEN Silence
       ELSE IF Every(seconds, MinuteTicks) THEN <<"every", 1>>
       ELSE IF StepOf(seconds, MinuteTicks) # 0 THEN <<"every", StepOf(seconds, MinuteTicks)>> ELSE Silence
     ELSE IF Every(minutes, HourMinutes) THEN
       IF Every(hours, DayHours) THEN <<"every", MinuteTicks>> ELSE Silence
     ELSE IF StepOf(minutes, HourMinutes) # 0 /\ Every(hours, DayHours)
       THEN <<"every", step(minutes, HourMinutes, MinuteTicks)>>
     ELSE IF Cardinality(minutes) # 1 THEN Silence
     ELSE IF Every(hours, DayHours) THEN <<"past", HourTicks, mark>>
     ELSE IF StepOf(hours, DayHours) # 0 THEN <<"past", step(hours, DayHours, HourTicks), mark>>
     ELSE IF Cardinality(hours) <= 3 THEN <<"at", {h * HourTicks + mark : h \in hours}>>
     ELSE Silence

Phrase(c) ==
  [days |-> Values(c.days, WeekDays),
   time |-> DescribeTime(Values(c.second, MinuteTicks), Values(c.minute, HourMinutes), Values(c.hour, DayHours))]

-----------------------------------------------------------------------------
(* What the user does.                                                     *)

ScheduleInit == cron = ToCron(Default) /\ custom = FALSE /\ editing = TRUE

Change(c, asText) == editing /\ cron' = c /\ custom' = asText /\ UNCHANGED editing

PickFrequency(frequency) == Change(WithFrequency(cron, frequency), FALSE)

PickTime(minute, hour) ==
  /\ Form \in {"daily", "weekdays", "weekly"}
  /\ Change(ToCron([ParseSchedule(cron) EXCEPT !.minute = minute, !.hour = hour]), custom)

(* At least one day - an empty week is not a schedule. *)
PickDay(day) ==
  LET days == ParseSchedule(cron).days
      new == IF day \in days THEN days \ {day} ELSE days \cup {day}
  IN Form = "weekly" /\ new # {} /\ Change(ToCron([ParseSchedule(cron) EXCEPT !.days = new]), custom)

PickInterval(every, unit) ==
  /\ Form = "interval"
  /\ LET s == ParseSchedule(cron)
     IN Change(ToCron([s EXCEPT !.every = every, !.unit = unit]), custom) /\ (every = s.every \/ unit = s.unit)

TypeExpression(c) == Change(c, ~HasForm(c))

(* save: checked by the page when the user saves, and by the service when  *)
(* it arrives, at some time of the hour.                                   *)
SaveSchedule ==
  /\ editing
  /\ {now \in 0 .. HourTicks - 1 : SeldomEnough(cron, now)} # {}
  /\ editing' = FALSE
  /\ UNCHANGED <<cron, custom>>

(* The routine is opened again, with what is stored. *)
Reopen == ~editing /\ editing' = TRUE /\ custom' = ~HasForm(cron) /\ UNCHANGED cron

ScheduleNext ==
  \/ \E frequency \in Frequencies : PickFrequency(frequency)
  \/ \E minute \in 0 .. HourMinutes - 1, hour \in 0 .. DayHours - 1 : PickTime(minute, hour)
  \/ \E day \in 0 .. WeekDays - 1 : PickDay(day)
  \/ \E every \in 1 .. HourMinutes - 1, unit \in {"minutes", "seconds"} : PickInterval(every, unit)
  \/ \E c \in Typed : TypeExpression(c)
  \/ SaveSchedule
  \/ Reopen

ScheduleSpec == ScheduleInit /\ [][ScheduleNext]_scheduleVars

-----------------------------------------------------------------------------
FiresOn(day) == {t \in 0 .. DayTicks - 1 : Fires(cron, day * DayTicks + t)}
Evenly(n, r) == {t \in 0 .. DayTicks - 1 : t % n = r}

(* A preview that says something says what will happen: on the days it     *)
(* names, and on no other, the schedule fires exactly at the times, or in  *)
(* exactly the even rhythm, of its phrase - whichever way the expression   *)
(* was written.                                                            *)
PreviewSaysWhatRuns ==
  LET phrase == Phrase(cron).time
  IN editing => \A day \in 0 .. WeekDays - 1 :
       IF day \notin Phrase(cron).days THEN FiresOn(day) = {}
       ELSE CASE phrase = Silence -> TRUE
              [] phrase[1] = "every" -> \E r \in 0 .. phrase[2] - 1 : FiresOn(day) = Evenly(phrase[2], r)
              [] phrase[1] = "past" -> \E r \in 0 .. phrase[2] - 1 :
                                         r % HourTicks = phrase[3] /\ FiresOn(day) = Evenly(phrase[2], r)
              [] phrase[1] = "at" -> FiresOn(day) = phrase[2]

(* "Cron with 5 or 6 fields (seconds), minimum interval 10 s": no two      *)
(* occurrences of a schedule the service accepted are closer.  The code    *)
(* compares only the two that come first when the routine is saved.        *)
MinimumIntervalHolds ==
  ~editing => \A t \in 0 .. WeekTicks - 1 : Fires(cron, t) => NextFire(cron, t) - t >= MinInterval
=============================================================================
