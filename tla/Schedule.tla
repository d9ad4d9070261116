------------------------------- MODULE Schedule -------------------------------
(***************************************************************************)
(* The schedule of a workflow: chosen in the editor as a frequency, a day  *)
(* and a time of the user's time zone, stored as a cron expression in UTC  *)
(* (getUTCSchedule), and read back from it when the editor is opened again *)
(* (getInitialFormState).                                                  *)
(*                                                                         *)
(* Time is counted in hours, in local time, from the start of a year that  *)
(* is followed by others like it; the zone is a fixed number of hours.     *)
(* A cron expression is a set of hours, of dates and of days of the week,  *)
(* where the empty set stands for "*"; a macro is an expression of its own.*)
(*                                                                         *)
(* WorkflowProofs extends this module and WorkflowDetail, so the names     *)
(* that every module has (Init, Next) are longer here.                     *)
(***************************************************************************)
EXTENDS Integers, Sequences, FiniteSetsExt

CONSTANTS Zones,          \* hours ahead of UTC
          Nows,           \* hours at which something is done
          Frequencies, DaysOfWeek, DaysOfMonth,
          Hours,          \* of the day
          Customs,        \* cron expressions a user may write
          NoSchedule

Star == {}
Cron(h, dates, days) == [hours |-> h, dates |-> dates, days |-> days]

ASSUME ScheduleAssumption ==
    /\ Zones \subseteq -12..14 /\ Hours \subseteq 0..23 /\ Nows \subseteq (24 * 31)..(24 * 365)
    /\ Frequencies \subseteq {"daily", "weekly", "monthly", "custom"}
    /\ DaysOfWeek \subseteq 0..6 /\ DaysOfMonth \subseteq 1..31
    /\ Customs \subseteq [hours : SUBSET (0..23), dates : SUBSET (1..31), days : SUBSET (0..6)]

-----------------------------------------------------------------------------
(* The calendar. Day 0 is the first of January, a Sunday.                    *)

MonthStarts == {0, 31, 59, 90, 120, 151, 181, 212, 243, 273, 304, 334}
FirstOfMonth(d) == (d - (d % 365)) + Max({s \in MonthStarts : s <= (d % 365)})
getDate(d) == d - FirstOfMonth(d) + 1
getDay(d) == d % 7
Horizon == 70                \* days: any date comes again within two months

VARIABLES zone, now, form,
          schedule,          \* the workflow's
          chosen,            \* what was last saved with an edit made to it
          edited             \* since the editor was opened or the form saved
scheduleVars == <<zone, now, form, schedule, chosen, edited>>

-----------------------------------------------------------------------------
(* The form.                                                                 *)

To24(h, period) ==
    h + (IF h = 12 THEN (IF period = "AM" THEN -12 ELSE 0)
         ELSE IF period = "PM" THEN 12 ELSE 0)
To12(h) == [hour |-> IF h % 12 = 0 THEN 12 ELSE h % 12, period |-> IF h > 11 THEN "PM" ELSE "AM"]

Form(type, frequency, dayOfMonth, dayOfWeek, time, custom) ==
    [type |-> type, frequency |-> frequency, dayOfMonth |-> dayOfMonth, dayOfWeek |-> dayOfWeek,
     time |-> time, custom |-> custom]

\* getDefaultFormState
Default(t) ==
    Form("none", "weekly", getDate(t \div 24), getDay(t \div 24), [hour |-> 12, period |-> "AM"],
         NoSchedule)

\* getUTCSchedule: today's date with the chosen time, moved to the chosen day.
localDate(f, d) ==
    IF f.frequency = "monthly" THEN FirstOfMonth(d) + f.dayOfMonth - 1
    ELSE IF f.frequency = "weekly" /\ f.dayOfWeek # 0 THEN d + f.dayOfWeek - getDay(d)
    ELSE d
getUTCSchedule_local(f, t, z) ==
    LET utc == localDate(f, t \div 24) * 24 + To24(f.time.hour, f.time.period) - z IN
    Cron({utc % 24},
         IF f.frequency = "monthly" THEN {f.dayOfMonth} ELSE Star,
         IF f.frequency = "weekly" THEN {f.dayOfWeek} ELSE Star)
getUTCSchedule(f, t, z) ==
    LET utc == localDate(f, t \div 24) * 24 + To24(f.time.hour, f.time.period) - z IN
    Cron({utc % 24},
         IF f.frequency = "monthly" THEN {getDate(utc \div 24)} ELSE Star,
         IF f.frequency = "weekly" THEN {getDay(utc \div 24)} ELSE Star)

\* The schedule of parseConfig.
scheduleOf(f, t, z) ==
    IF f.type = "none" THEN NoSchedule
    ELSE IF f.frequency = "custom" THEN f.custom
    ELSE getUTCSchedule(f, t, z)

-----------------------------------------------------------------------------
(* Cron expressions.                                                         *)

RunsOn(c, d) ==
    /\ c.dates # Star => getDate(d) \in c.dates
    /\ c.days # Star => getDay(d) \in c.days
\* The hours, in UTC, at which c runs in the days from d on.
Runs(c, d) == {e * 24 + h : e \in {x \in d..(d + Horizon) : RunsOn(c, x)}, h \in c.hours}
getNextDate(c, utc) == Min({t \in Runs(c, utc \div 24) : t > utc})

\* An expression whose hours are "*", or a macro, has none.
getScheduleInterval(c) ==
    CASE c.hours # Star /\ c.dates = Star /\ c.days = Star -> "daily"
      [] c.hours # Star /\ c.dates = Star /\ c.days # Star -> "weekly"
      [] c.hours # Star /\ c.dates # Star /\ c.days = Star -> "monthly"
      [] OTHER -> "custom"

getInitialFormState_utc(c, t, z) ==
    IF c = NoSchedule THEN Default(t)
    ELSE IF getScheduleInterval(c) = "custom"
    THEN [Default(t) EXCEPT !.type = "cron", !.frequency = "custom", !.custom = c]
    ELSE LET next == getNextDate(c, t - z) + z IN
         Form("cron", getScheduleInterval(c), getDate((next - z) \div 24), getDay((next - z) \div 24),
              To12(next % 24), NoSchedule)
getInitialFormState(c, t, z) ==
    IF c = NoSchedule THEN Default(t)
    ELSE IF getScheduleInterval(c) = "custom"
    THEN [Default(t) EXCEPT !.type = "cron", !.frequency = "custom", !.custom = c]
    ELSE LET next == getNextDate(c, t - z) + z IN
         Form("cron", getScheduleInterval(c), getDate(next \div 24), getDay(next \div 24),
              To12(next % 24), NoSchedule)

-----------------------------------------------------------------------------
\* What a form asks for: a frequency, the hour of the day and the day.
Choice(f) ==
    [frequency |-> f.frequency,
     hour |-> To24(f.time.hour, f.time.period),
     day |-> CASE f.frequency = "weekly"  -> f.dayOfWeek
               [] f.frequency = "monthly" -> f.dayOfMonth
               [] OTHER                   -> 0]

Edited == edited' = TRUE /\ UNCHANGED <<zone, now, schedule, chosen>>

ScheduleInit ==
    /\ zone \in Zones /\ now \in Nows
    /\ schedule = NoSchedule /\ form = Default(now)
    /\ chosen = Choice(form) /\ edited = FALSE

\* The radio group of the schedule type.
ChooseType(y) ==
    /\ form.type # y
    /\ form' = [form EXCEPT !.type = y]
    /\ Edited
\* A frequency other than "custom" clears the custom expression.
ChooseFrequency(q) ==
    /\ form.type = "cron" /\ form.frequency # q
    /\ form' = [form EXCEPT !.frequency = q, !.custom = IF q = "custom" THEN @ ELSE NoSchedule]
    /\ Edited
ChooseDayOfWeek(d) ==
    /\ form.type = "cron" /\ form.frequency = "weekly"
    /\ form' = [form EXCEPT !.dayOfWeek = d]
    /\ Edited
ChooseDayOfMonth(d) ==
    /\ form.type = "cron" /\ form.frequency = "monthly"
    /\ form' = [form EXCEPT !.dayOfMonth = d]
    /\ Edited
ChooseTime(h) ==
    /\ form.type = "cron" /\ form.frequency # "custom"
    /\ form' = [form EXCEPT !.time = To12(h)]
    /\ Edited
\* The expression is required.
ChooseCustom(c) ==
    /\ form.type = "cron" /\ form.frequency = "custom"
    /\ form' = [form EXCEPT !.custom = c]
    /\ Edited

Save ==
    /\ form.type = "cron" /\ form.frequency = "custom" => form.custom # NoSchedule
    /\ schedule' = scheduleOf(form, now, zone)
    /\ chosen' = IF edited THEN Choice(form) ELSE chosen
    /\ edited' = FALSE
    /\ UNCHANGED <<zone, now, form>>

\* The editor is opened again, at another time.
Reopen ==
    /\ now' \in {t \in Nows : t >= now}
    /\ form' = getInitialFormState(schedule, now', zone)
    /\ edited' = FALSE
    /\ UNCHANGED <<zone, schedule, chosen>>

ScheduleNext ==
    \/ \E y \in {"none", "cron"} : ChooseType(y)
    \/ \E q \in Frequencies : ChooseFrequency(q)
    \/ \E d \in DaysOfWeek : ChooseDayOfWeek(d)
    \/ \E d \in DaysOfMonth : ChooseDayOfMonth(d)
    \/ \E h \in Hours : ChooseTime(h)
    \/ \E c \in Customs : ChooseCustom(c)
    \/ Save \/ Reopen
ScheduleSpec == ScheduleInit /\ [][ScheduleNext]_scheduleVars

-----------------------------------------------------------------------------
\* The form shows an hour of 1 to 12 with its period, and the stored expression
\* names hours, dates and days that exist, whatever the conversions do.
ScheduleTypeOK ==
    /\ zone \in Zones /\ now \in Nows
    /\ form.type \in {"none", "cron"}
    /\ form.frequency \in {"daily", "weekly", "monthly", "custom"}
    /\ form.dayOfMonth \in 1..31 /\ form.dayOfWeek \in 0..6
    /\ form.time.hour \in 1..12 /\ form.time.period \in {"AM", "PM"}
    /\ schedule # NoSchedule =>
          /\ schedule.hours \subseteq 0..23
          /\ schedule.dates \subseteq 1..31 /\ schedule.days \subseteq 0..6

\* The days of local time that were chosen.
Meant(d) ==
    /\ chosen.frequency = "weekly" => getDay(d) = chosen.day
    /\ chosen.frequency = "monthly" => getDate(d) = chosen.day

\* The crawls run at the hours the user chose, and at no others, in the user's
\* time zone ("A crawl will run at this time in your current timezone").  Not so
\* on Sundays, whose number getUTCSchedule takes for none, on dates that some
\* months do not have, and on dates that are others in UTC.
RunsAsChosen ==
    LET days == (now \div 24 + 1)..(now \div 24 + 64)
        runs == {t + zone : t \in Runs(schedule, now \div 24 - 1)} IN
    /\ ~edited /\ schedule # NoSchedule /\ chosen.frequency # "custom"
    /\ chosen.frequency = "weekly" => chosen.day # 0
    /\ chosen.frequency = "monthly" => chosen.day <= 28 /\ chosen.hour - zone \in 0..23
    => {t \in runs : t \div 24 \in days} = {d * 24 + chosen.hour : d \in {x \in days : Meant(x)}}

\* One hour and one day, which is no Sunday in the user's time zone, on a date every month
\* has and UTC shares.
Plain(c) ==
    /\ \A set \in {c.hours, c.dates, c.days} : Cardinality(set) <= 1
    /\ c.dates \subseteq 1..28
    /\ c.dates # Star => \A h \in c.hours : h + zone \in 0..23
    /\ \A h \in c.hours, w \in c.days : getDay((24 * w + h + zone) \div 24) # 0

\* Opening the editor and saving without a change leaves the schedule alone.
\* Not so for one that names several hours or days, which the form cannot say
\* and opens as one, and for Sundays and dates as above.
SaveKeeps ==
    [][Save /\ ~edited /\ (schedule # NoSchedule => Plain(schedule))
       => schedule' = schedule]_scheduleVars

\* The stored expression is a valid one that says what was chosen (getUTCSchedule).
ScheduleSound == ScheduleTypeOK /\ RunsAsChosen
=============================================================================
