------------------------------ MODULE Schedule ------------------------------
(***************************************************************************)
(* When jobs run: the calendar of shared/schedule.ts and the store of      *)
(* src/scheduler/schedule-store.ts.                                        *)
(*                                                                         *)
(* The store keeps the jobs the user has changed in a file; the others     *)
(* follow the environment.  The file may be of an older form or edited by  *)
(* hand, and every reader makes of it what it can, on any day, so reading  *)
(* must not depend on the day.  The calendar says on which days a schedule *)
(* is due and searches for the next and the last run.                      *)
(*                                                                         *)
(* A day is counted from 1 January 2026; a time of day is one of a few.    *)
(* Labels and messages are left out.                                       *)
(***************************************************************************)
EXTENDS Integers, FiniteSets, FiniteSetsExt

CONSTANTS
    Days,       \* the days the clock stops at
    Hours,      \* times of day, 0 .. n
    Written,    \* per job, what a file or a request may hold for it
    EnvTimes,   \* times of day the environment may give for the daily jobs
    Probes,     \* schedules whose runs are searched for
    MaxEdits    \* bound: saves, edits by hand and changes of the environment

Jobs == {"news", "skills", "lotto"}

-----------------------------------------------------------------------------
(* The calendar: 2026 to 2029 *)

YearStart == <<0, 365, 730, 1096, 1461>>
MonthStart == <<0, 31, 59, 90, 120, 151, 181, 212, 243, 273, 304, 334>>
LeapYear == 3
MonthFirsts ==
    {YearStart[y] + MonthStart[m] + (IF y = LeapYear /\ m > 2 THEN 1 ELSE 0) : y \in 1 .. 4, m \in 1 .. 12}
    \cup {YearStart[5]}
LastKnown == YearStart[5] - 1

\* Evaluated once: the day of the month of every day.
DayOfMonth == [d \in 0 .. LastKnown |-> d + 1 - Max({f \in MonthFirsts : f <= d})]
Weekday(d) == (d + 4) % 7
LastOfMonth(d) == d + 1 \in MonthFirsts
MondayOf(d) == d - ((Weekday(d) + 6) % 7)

NoAnchor == -1

WeeksBetween(d, anchor) == (MondayOf(d) - MondayOf(anchor)) \div 7

(* isDueDate *)
IsDueDate(repeat, d) ==
    CASE repeat.kind = "daily" -> TRUE
      [] repeat.kind = "weekly" ->
            /\ Weekday(d) \in repeat.days
            /\ repeat.interval > 1 /\ repeat.anchor # NoAnchor
                  => WeeksBetween(d, repeat.anchor) % repeat.interval = 0
      [] repeat.kind = "monthly" ->
            DayOfMonth[d] \in repeat.dates \/ (-1 \in repeat.dates /\ LastOfMonth(d))

(* The search looks this many days ahead and back; the slip looks a month. *)
ScanMonth == 31
ScanDays == 400

\* An instant is a day and a time of day in one number.
PerDay == Cardinality(Hours)
DayOf(t) == t \div PerDay
HourOf(t) == t % PerDay
Never == -1

\* What the rules let a schedule be: the days of a week, of every few weeks, or of a month.
Repeats(repeat) ==
    \/ repeat.kind = "daily"
    \/ /\ repeat.kind = "weekly"
       /\ repeat.days # {} /\ repeat.days \subseteq 0 .. 6
       /\ repeat.interval \in 1 .. 4 /\ repeat.anchor \in Int
       /\ repeat.interval > 1 => repeat.anchor # NoAnchor
    \/ /\ repeat.kind = "monthly"
       /\ repeat.dates # {} /\ repeat.dates \subseteq {-1} \cup 1 .. 31

\* The clock stays where the calendar covers the search, and a probe is a schedule that is on.
ASSUME ScheduleAssumption ==
    /\ PerDay \in Nat \ {0} /\ Hours = 0 .. PerDay - 1
    /\ Days # {} /\ Days \subseteq ScanDays .. LastKnown - ScanDays
    /\ \A job \in Probes : /\ job.enabled /\ Repeats(job.repeat)
                          /\ job.times # {} /\ job.times \subseteq Hours

NextOccurrence(job, t) ==
    LET days == {d \in DayOf(t) .. DayOf(t) + ScanDays : IsDueDate(job.repeat, d)}
        after == {d \in days : \E h \in job.times : d * PerDay + h > t}
        first == Min(after)
    IN  IF ~job.enabled \/ after = {} THEN Never
        ELSE Min({x \in {first * PerDay + h : h \in job.times} : x > t})

LastOccurrence(job, t) ==
    LET days == {d \in DayOf(t) - ScanDays .. DayOf(t) : IsDueDate(job.repeat, d)}
        before == {d \in days : \E h \in job.times : d * PerDay + h <= t}
        last == Max(before)
    IN  IF ~job.enabled \/ before = {} THEN Never
        ELSE Max({x \in {last * PerDay + h : h \in job.times} : x <= t})

-----------------------------------------------------------------------------
(* What a schedule may be: SCHEDULE_RULES and normalizeJobSchedule *)

Kinds(id) == CASE id = "news" -> {"daily", "weekly", "monthly"}
               [] id = "skills" -> {"weekly", "monthly"}
               [] id = "lotto" -> {"weekly"}
MaxOf(id) == IF id = "news" THEN [times |-> 24, days |-> 7, dates |-> 32, weeks |-> 4]
             ELSE [times |-> 1, days |-> 1, dates |-> 1, weeks |-> IF id = "lotto" THEN 1 ELSE 4]

(* The lottery is drawn on Saturday evening. *)
Saturday == 6
Evening == Max(Hours)
Blackout(id, t) == id = "lotto" /\ Weekday(DayOf(t)) = Saturday /\ HourOf(t) = Evening

Invalid == [kind |-> "invalid"]
Bad == -1       \* a time that cannot be read

\* What is written is read as far as its fields go: its times, each good or not, and its repeat.
Shaped(raw) ==
    /\ DOMAIN raw = {"form", "enabled", "repeat", "times"} /\ raw.times \subseteq Hours \cup {Bad}
    /\ raw.repeat.kind = "weekly" => DOMAIN raw.repeat = {"kind", "days", "interval", "anchor"}

ASSUME WrittenAssumption == \A id \in Jobs : \A raw \in Written[id] : Shaped(raw)

NormalRepeat(id, repeat, now) ==
    IF repeat.kind \notin Kinds(id) THEN Invalid
    ELSE CASE repeat.kind = "daily" -> repeat
           [] repeat.kind = "weekly" ->
                IF \/ repeat.days = {} \/ Cardinality(repeat.days) > MaxOf(id).days
                   \/ repeat.interval \notin 1 .. MaxOf(id).weeks THEN Invalid
                ELSE IF repeat.interval = 1 THEN [repeat EXCEPT !.anchor = NoAnchor]
                ELSE IF repeat.anchor = NoAnchor THEN [repeat EXCEPT !.anchor = now] ELSE repeat
           [] repeat.kind = "monthly" ->
                IF repeat.dates = {} \/ Cardinality(repeat.dates) > MaxOf(id).dates THEN Invalid
                ELSE repeat

GoodTimes(id, times) == Bad \notin times /\ times # {} /\ Cardinality(times) <= MaxOf(id).times

HitsBlackout(id, repeat, times) ==
    /\ id = "lotto" /\ Evening \in times
    /\ repeat.kind = "weekly" => Saturday \in repeat.days

(* A bare list of times, the older form, stands for every day. *)
AsObject(raw) ==
    IF raw.form = "list" THEN [raw EXCEPT !.form = "object", !.enabled = TRUE, !.repeat = [kind |-> "daily"]]
    ELSE raw

NormalizeJobSchedule(input, id, now) ==
    LET raw == AsObject(input)
        repeat == NormalRepeat(id, raw.repeat, now)
    IN  IF repeat = Invalid \/ ~GoodTimes(id, raw.times) \/ HitsBlackout(id, repeat, raw.times)
        THEN Invalid
        ELSE [raw EXCEPT !.repeat = repeat]

-----------------------------------------------------------------------------
(* The store *)

VARIABLES
    today,
    env,        \* the times of the daily jobs in the environment
    file,       \* the jobs the file holds, as they were written
    edits

scheduleVars == <<today, env, file, edits>>

Weekly(day) == [form |-> "object", enabled |-> TRUE, times |-> {0},
                repeat |-> [kind |-> "weekly", days |-> {day}, interval |-> 1, anchor |-> NoAnchor]]
Daily(times) == [form |-> "object", enabled |-> TRUE, times |-> times, repeat |-> [kind |-> "daily"]]

Default(id, times) ==
    CASE id = "news" -> Daily(times) [] id = "skills" -> Weekly(1) [] id = "lotto" -> Weekly(0)

(* The fixed day a reader takes for a missing anchor. *)
ReadAnchor == 4

(* lenientJob: as it stands, else without the times that cannot be read, else
   the default; what is read has passed every rule.                        *)
Salvaged(raw) == [raw EXCEPT !.times = @ \ {Bad}]

Read(id, anchor) ==
    IF id \notin DOMAIN file THEN Default(id, env)
    ELSE LET job == NormalizeJobSchedule(file[id], id, anchor)
             mended == NormalizeJobSchedule(Salvaged(file[id]), id, anchor)
         IN  IF job # Invalid THEN job ELSE IF mended # Invalid THEN mended ELSE Default(id, env)

GetSchedule == [id \in Jobs |-> Read(id, ReadAnchor)]

-----------------------------------------------------------------------------
ScheduleInit ==
    /\ today = Min(Days)
    /\ env \in EnvTimes
    /\ file = <<>>
    /\ edits = 0

NextDay ==
    /\ \E d \in Days : d > today
    /\ today' = Min({d \in Days : d > today})
    /\ UNCHANGED <<env, file, edits>>

EditOnce == edits < MaxEdits /\ edits' = edits + 1

With(f, id, v) == [x \in DOMAIN f \cup {id} |-> IF x = id THEN v ELSE f[x]]

(* saveSchedule: a request for some jobs, written only if every part of it keeps
   the rules.  A schedule equal to the default is taken out of the file, and the
   jobs the request does not name are left alone.                          *)
SaveSchedule ==
    /\ EditOnce
    /\ \E ids \in SUBSET Jobs : \E patch \in [ids -> UNION {Written[id] : id \in ids}] :
        LET job == [id \in ids |-> NormalizeJobSchedule(patch[id], id, today)]
            own == {id \in ids : job[id] # Default(id, env)}
        IN  /\ ids # {} /\ Cardinality(ids) <= 2
            /\ \A id \in ids : patch[id] \in Written[id] /\ job[id] # Invalid
            /\ file' = [id \in (DOMAIN file \ ids) \cup own |-> IF id \in own THEN job[id] ELSE file[id]]
    /\ UNCHANGED <<today, env>>

(* The file is edited by hand, or is what an older version wrote. *)
EditFile ==
    /\ EditOnce
    /\ \E id \in Jobs : \E raw \in Written[id] : file' = With(file, id, raw)
    /\ UNCHANGED <<today, env>>

(* The environment is changed and the process restarted. *)
ChangeEnv ==
    /\ EditOnce
    /\ \E times \in EnvTimes : times # env /\ env' = times
    /\ UNCHANGED <<today, file>>

ScheduleNext == NextDay \/ SaveSchedule \/ EditFile \/ ChangeEnv

ScheduleSpec == ScheduleInit /\ [][ScheduleNext]_scheduleVars

-----------------------------------------------------------------------------
(* Properties *)

Instants(d) == {d * PerDay + h : h \in Hours}

(* The search finds every run: of a schedule that is on, the next run after any
   moment exists, is due, and is the last run as of itself; nothing is due in
   between (nextOccurrence, lastOccurrence).  The searches do not read the store:
   they are compared once per day, before the first edit.                  *)
SearchFindsRuns ==
    edits = 0 => \A job \in Probes, t \in Instants(today) :
        LET n == NextOccurrence(job, t)
            p == LastOccurrence(job, t)
        IN  /\ p # Never /\ n # Never /\ p <= t /\ t < n
            /\ LastOccurrence(job, n) = n
            /\ LastOccurrence(job, n - 1) = p
            /\ IsDueDate(job.repeat, DayOf(n)) /\ HourOf(n) \in job.times

(* A schedule of every n weeks runs in whole weeks, from Monday on: the days of
   a week agree, and exactly one of n weeks in a row is a week it runs in.  *)
WeeksAlternate ==
    \A job \in {j \in Probes : j.repeat.kind = "weekly"} :
        LET runs(w) == {x \in job.repeat.days : IsDueDate(job.repeat, MondayOf(today) + 7 * w + ((x + 6) % 7))}
            n == job.repeat.interval
        IN  /\ \A w \in 0 .. n - 1 : runs(w) \in {{}, job.repeat.days}
            /\ Cardinality({w \in 0 .. n - 1 : runs(w) # {}}) = 1

(* No reading of the file, whatever it holds, lets the numbers of the lottery be
   drawn up while the draw is on.                                          *)
NoRunInBlackout ==
    LET lotto == GetSchedule["lotto"]
    IN  \A d \in today .. today + 7, h \in lotto.times :
            lotto.enabled /\ IsDueDate(lotto.repeat, d) => ~Blackout("lotto", d * PerDay + h)
=============================================================================
