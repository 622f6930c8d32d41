------------------------------ MODULE Autopsy ------------------------------
(***************************************************************************)
(* What is said of a gap (src/uptime): the traces a Mac leaves while it    *)
(* sleeps, wakes, loses its power or restarts, the reading of them         *)
(* (evidence.ts), the verdict (classify.ts), the event it makes or joins   *)
(* (store.ts) and the account that is given of the event (narrate.ts).     *)
(* Uptime has the life of the events; here is what they say.               *)
(*                                                                         *)
(* One unit of time is a minute.  The windows of an hour, of a quarter and *)
(* the samples kept of the power log are scaled down to the length of a    *)
(* run.  The account is a set of claims; wording, clock times, durations   *)
(* and the lost collections are left out.                                  *)
(***************************************************************************)
EXTENDS Integers, FiniteSets, FiniteSetsExt

CONSTANTS
    MaxMinute,      \* bound: the run ends here
    MaxMishaps,     \* bound: sleeps, ends of power or process, clock jumps, failed reads
    MaxEvents       \* bound: gaps that are judged

Unknown == 0        \* a number that could not be read
FirstMinute == 5    \* before it: an orderly shutdown and the boot
FirstBoot == 3
FirstClean == 1

ShortestGap == 2
CoverTolerance == 2
CleanBefore == 2
CleanAfter == 1
ClockThreshold == 1
JoinWindow == 1
FreezeMargin == 4
FreezeBefore == 3
FreezeHead == 2
FreezeTail == 2
FreezeAfter == 1
FreezeCap == 40
BatteryDead == 1

VARIABLES
    minute,
    machine,    \* "awake", "dark" (a dark wake), "asleep" or "off"
    boot,       \* kern.boottime
    charge, plugged,
    log,        \* pmset -g log: the four kinds of line that are kept
    cleanAt,    \* the last orderly shutdown in the shutdown logs
    panics,     \* the times of the panic reports
    proc,       \* the process: its reading of the boot time and its last tick
    record,     \* the beacon file
    gap,        \* a gap found and not yet judged
    event,      \* the last event of the ledger
    happened,   \* what really happened, and when
    mishaps, judged

mac == <<machine, boot, charge, plugged, log, cleanAt, panics>>
autopsyVars == <<minute, mac, proc, record, gap, event, happened, mishaps, judged>>

NoProc == [runs |-> FALSE]
NoBeacon == [mode |-> "none"]
NoGap == [source |-> "none"]
NoEvent == [cause |-> "none"]
NoWindow == [start |-> Unknown, end |-> Unknown, reason |-> "none", from |-> Unknown, to |-> Unknown]

Abs(n) == IF n < 0 THEN -n ELSE n
Mishap == mishaps < MaxMishaps /\ mishaps' = mishaps + 1
Note(what) == happened' = happened \cup {[what |-> what, at |-> minute]}

-----------------------------------------------------------------------------
(* The power log *)

Line(kind, reason) ==
    [at |-> minute, kind |-> kind, reason |-> reason, battery |-> ~plugged, charge |-> charge]
StartLine(t) == [at |-> t, kind |-> "Start", reason |-> "none", battery |-> FALSE, charge |-> Unknown]

(* buildSleepWindows: the first Sleep opens a window, the next Wake closes it;
   neither a dark wake nor the Start of another boot does.                 *)
Opens(lines, l) ==
    /\ l.kind = "Sleep"
    /\ \A k \in lines : k.kind = "Sleep" /\ k.at < l.at =>
          \E m \in lines : m.kind = "Wake" /\ k.at < m.at /\ m.at < l.at

Closes(lines, l, m) ==
    /\ m.kind = "Wake" /\ l.at < m.at
    /\ \A k \in lines : k.kind = "Wake" /\ l.at < k.at => m.at <= k.at

SleepWindows(lines) ==
    {[start |-> p[1].at, end |-> p[2].at, reason |-> p[1].reason, from |-> p[1].charge, to |-> p[2].charge] :
        p \in {q \in lines \X lines : Opens(lines, q[1]) /\ Closes(lines, q[1], q[2])}}

(* sleepWindowCoversGap; a window that was not closed covers nothing. *)
Covers(w, start, end) == w.start <= start + CoverTolerance /\ w.end >= end - CoverTolerance

(* sleepWindowsCoverGap, and pickCoveringWindow: the first that does. *)
Covering(windows, start, end) ==
    LET covering == {w \in windows : Covers(w, start, end)}
    IN  IF covering = {} THEN NoWindow
        ELSE CHOOSE w \in covering : \A v \in covering : w.start <= v.start

CountDarkWakes(lines, start, end) ==
    Cardinality({l \in lines : l.kind = "DarkWake" /\ start <= l.at /\ l.at <= end})

(* batteryAtGapStart: the last line before the gap that tells the charge; only
   lines of kind Start tell neither it nor the supply.                     *)
BatteryAt(lines, start) ==
    LET told == {l \in lines : l.at <= start /\ l.charge # Unknown}
        last == CHOOSE l \in told : \A k \in told : k.at <= l.at
    IN  IF told = {} THEN [percent |-> Unknown, onBattery |-> FALSE]
        ELSE [percent |-> last.charge, onBattery |-> last.battery]

LastOf(n, lines) == {l \in lines : Cardinality({k \in lines : l.at < k.at}) < n}
FirstOf(n, lines) == {l \in lines : Cardinality({k \in lines : k.at < l.at}) < n}

Near(lines, start, end) == {l \in lines : start - FreezeMargin <= l.at /\ l.at <= end + FreezeMargin}

(* Slip: no sample is kept of the lines inside the gap but its end. *)
FreezeWithoutHead(lines, start, end) ==
    LET near == Near(lines, start, end)
    IN  LastOf(FreezeBefore, {l \in near : l.at < start})
        \cup LastOf(FreezeTail, {l \in near : start <= l.at /\ l.at <= end})

(* freezePmsetLines: the sample of the lines that goes into the ledger. *)
Freeze(lines, start, end) ==
    LET near == Near(lines, start, end)
        inside == {l \in near : start <= l.at /\ l.at <= end}
        picked == UNION {LastOf(FreezeBefore, {l \in near : l.at < start}),
                         FirstOf(FreezeHead, inside), LastOf(FreezeTail, inside),
                         FirstOf(FreezeAfter, {l \in near : end < l.at}),
                         {l \in near : l.kind \in {"Wake", "Start"}}}
    IN  IF Cardinality(picked) <= FreezeCap THEN picked
        ELSE FirstOf(FreezeCap \div 2, picked) \cup LastOf(FreezeCap \div 2, picked)

-----------------------------------------------------------------------------
(* collectEvidence *)

(* isBootChanged: what could not be read is no change. *)
BootChanged(before, after) == before # Unknown /\ after # Unknown /\ before # after

(* isClockSuspect: the wall clock against os.uptime, which counts from boot. *)
ClockSuspect(wall, uptime) == Abs(wall - uptime) > ClockThreshold

PanicIn(start, end) ==
    LET inside == {p \in panics : start <= p /\ p <= end}
    IN  IF inside = {} THEN Unknown ELSE Max(inside)

(* An empty power log counts as one that could not be read. *)
Lines(unread) == IF "power" \in unread THEN {} ELSE log

Evidence(g, unread) ==
    [before |-> g.prev.epoch, bootNow |-> proc.epoch,
     changed |-> BootChanged(g.prev.epoch, proc.epoch), fallback |-> proc.fallback,
     same |-> g.source = "tick", mode |-> g.prev.mode,
     clean |-> IF "shutdown" \in unread THEN Unknown ELSE cleanAt,
     panicAt |-> IF "panic" \in unread THEN Unknown ELSE PanicIn(g.start, g.end),
     panicRead |-> "panic" \notin unread,
     powerRead |-> Lines(unread) # {},
     lines |-> Freeze(Lines(unread), g.start, g.end),
     dark |-> CountDarkWakes(Lines(unread), g.start, g.end),
     battery |-> BatteryAt(Lines(unread), g.start),
     fails |-> g.fails, suspect |-> g.suspect]

(* fallbackEvidence: nothing could be collected. *)
BlindEvidence(g) ==
    [before |-> g.prev.epoch, bootNow |-> Unknown, changed |-> FALSE, fallback |-> FALSE,
     same |-> FALSE, mode |-> g.prev.mode, clean |-> Unknown,
     panicAt |-> Unknown, panicRead |-> FALSE, powerRead |-> FALSE,
     lines |-> {}, dark |-> 0, battery |-> [percent |-> Unknown, onBattery |-> FALSE],
     fails |-> g.fails, suspect |-> g.source = "tick" /\ g.suspect]

-----------------------------------------------------------------------------
(* classify *)

Branch(cause, confidence) == [cause |-> cause, confidence |-> confidence]

SameBoot(ev, covered) ==
    IF ev.same THEN Branch("sleep", IF covered THEN "certain" ELSE "likely")
    ELSE IF ev.mode = "stopping" THEN Branch("restart-intended", "certain")
    ELSE IF covered THEN Branch("sleep", "likely")
    ELSE Branch("app-gap", "likely")

(* Slip: no entry of a shutdown is read as no shutdown. *)
RebootedUnread(ev, start) ==
    IF ev.panicAt # Unknown THEN Branch("panic", "certain")
    ELSE IF ev.clean >= start - CleanBefore /\ ev.clean <= ev.bootNow + CleanAfter
         THEN Branch("reboot-clean", "certain")
    ELSE IF ev.battery.percent # Unknown /\ ev.battery.percent <= BatteryDead /\ ev.battery.onBattery
         THEN Branch("battery-dead", "likely")
    ELSE Branch("power-cut", "certain")

Rebooted(ev, start) ==
    IF ev.panicAt # Unknown THEN Branch("panic", "certain")
    ELSE IF ev.clean = Unknown THEN Branch("unknown", "unsure")
    ELSE IF ev.clean >= start - CleanBefore /\ ev.clean <= ev.bootNow + CleanAfter
         THEN Branch("reboot-clean", "certain")
    ELSE IF ev.battery.percent # Unknown /\ ev.battery.percent <= BatteryDead /\ ev.battery.onBattery
         THEN Branch("battery-dead", "likely")
    ELSE Branch("power-cut", "certain")

Lower(confidence) == IF confidence = "certain" THEN "likely" ELSE "unsure"

(* finalize: what could not be read lowers the confidence, never the cause. *)
Finalize(ev, branch) ==
    LET a == IF ev.suspect THEN Lower(branch.confidence) ELSE branch.confidence
        b == IF ev.fails > 0 THEN Lower(a) ELSE a
        c == IF ~ev.powerRead /\ b = "certain" THEN "likely" ELSE b
        d == IF ev.fallback THEN Lower(c) ELSE c
    IN  [cause |-> branch.cause, exact |-> ~ev.suspect,
         confidence |-> IF ev.bootNow = Unknown THEN "unsure" ELSE d]

Classify(ev, covered, start) ==
    Finalize(ev, IF BootChanged(ev.before, ev.bootNow) THEN Rebooted(ev, start)
                 ELSE SameBoot(ev, covered))

-----------------------------------------------------------------------------
(* recordDowntimeEvent *)

(* findDowntimeMergeTarget: the gap has the cause of the last event and begins
   soon after it, or one window covers both.                               *)
Joins(g, cause, windows) ==
    /\ event # NoEvent
    /\ g.start >= event.start - JoinWindow
    /\ \/ event.cause = cause /\ g.start - event.end <= JoinWindow
       \/ \E w \in windows : Covers(w, event.start, event.end) /\ Covers(w, g.start, g.end)

Rank(confidence) == CASE confidence = "certain" -> 2 [] confidence = "likely" -> 1 [] OTHER -> 0

(* mergeEvidence: the facts of the beginning are kept, those read later win,
   doubts add up.                                                          *)
MergeEvidence(old, new) ==
    LET keep == ~new.powerRead /\ old.powerRead
    IN  [new EXCEPT !.before = IF old.before # Unknown THEN old.before ELSE @,
                    !.mode = old.mode,
                    !.battery = old.battery,
                    !.fallback = old.fallback \/ @, !.suspect = old.suspect \/ @,
                    !.fails = Max({old.fails, @}),
                    !.panicAt = IF @ # Unknown THEN @ ELSE old.panicAt,
                    !.panicRead = @ \/ old.panicRead,
                    !.powerRead = @ \/ old.powerRead,
                    !.lines = IF keep THEN old.lines ELSE @,
                    !.dark = Max({old.dark, @})]

(* The fields seen, verdicts and gaps are history, read by the properties alone. *)
Said(verdict) == [cause |-> verdict.cause, confidence |-> verdict.confidence]
Span(g) == [start |-> g.start, end |-> g.end]

FreshEvent(g, verdict, ev, windows) ==
    [start |-> g.start, end |-> g.end, cause |-> verdict.cause, confidence |-> verdict.confidence,
     exact |-> verdict.exact, ev |-> ev, seen |-> Covering(windows, g.start, g.end),
     verdicts |-> {Said(verdict)}, gaps |-> {Span(g)}]

JoinedEvent(g, verdict, ev, windows) ==
    LET end == Max({event.end, g.end})
        kept == event.cause = verdict.cause /\ Rank(event.confidence) > Rank(verdict.confidence)
    IN  [start |-> event.start, end |-> end, cause |-> verdict.cause,
         confidence |-> IF kept THEN event.confidence ELSE verdict.confidence,
         exact |-> event.exact /\ verdict.exact,
         ev |-> MergeEvidence(event.ev, ev),
         seen |-> Covering(windows, event.start, end),
         verdicts |-> event.verdicts \cup {Said(verdict)}, gaps |-> event.gaps \cup {Span(g)}]

-----------------------------------------------------------------------------
(* narrate: the account is made of the event alone, so of the frozen lines. *)

Window(e) == Covering(SleepWindows(e.ev.lines), e.start, e.end)
Soft(e) == e.confidence # "certain"

(* narrateHeadline: only the causes that put something down to the Mac are
   softened; a panic comes without a length.                               *)
Headline(e) ==
    (IF e.cause \in {"sleep", "power-cut", "battery-dead", "panic"}
     THEN {IF Soft(e) THEN "cause presumed" ELSE "cause stated"} ELSE {})
    \cup (IF e.cause # "panic" /\ ~e.exact THEN {"length unknown"} ELSE {})

(* honestyNote *)
Reservation(e) ==
    IF e.ev.fails > 0 THEN {"records failed"}
    ELSE IF e.confidence = "unsure" /\ e.cause # "unknown" THEN {"not proven"} ELSE {}

SleepBody(e) ==
    {"slept", "power stayed", "timeouts due to sleep"}
    \cup (IF Window(e).reason # "none" THEN {"reason"} ELSE {})
    \cup (IF e.ev.same THEN {"process survived"} ELSE {"process restarted"})
    \cup (IF Window(e).to # Unknown THEN {"charge"} ELSE {})

RebootCleanBody(e) == {"shut down in order", "no power cut"}

PowerCutBody(e) ==
    {"no shutdown record", "cut or forced off"}
    \cup (IF e.ev.panicRead /\ e.ev.panicAt = Unknown THEN {"no panic"} ELSE {})
    \cup (IF e.ev.panicRead /\ e.ev.panicAt = Unknown /\ e.ev.battery.percent # Unknown
          THEN {"not drained"} ELSE {})
    \cup (IF ~e.ev.panicRead THEN {"panics unread"} ELSE {})

BatteryDeadBody(e) == {"drained", "unplugged"}
PanicBody(e) == {"panic", "no power cut"}
AppGapBody(e) == {"ended unasked", "mac stayed on", "no stop signal"}
UnknownBody(e) ==
    {"restarted", "power cut not claimed"} \cup (IF e.ev.clean = Unknown THEN {"shutdowns unread"} ELSE {})
RestartIntendedBody(e) == {"restarted for an update", "mac stayed on"}

(* narrateBody *)
Body(e) ==
    Reservation(e) \cup
    CASE e.cause = "sleep" -> SleepBody(e)
      [] e.cause = "reboot-clean" -> RebootCleanBody(e)
      [] e.cause = "power-cut" -> PowerCutBody(e)
      [] e.cause = "battery-dead" -> BatteryDeadBody(e)
      [] e.cause = "panic" -> PanicBody(e)
      [] e.cause = "app-gap" -> AppGapBody(e)
      [] e.cause = "restart-intended" -> RestartIntendedBody(e)
      [] e.cause = "unknown" -> UnknownBody(e)

(* narrateReasonLine: which records the verdict rests on. *)
ReasonLine(e) ==
    (IF e.ev.bootNow = Unknown THEN {"boot unread"}
     ELSE IF e.ev.changed THEN {"rebooted"} ELSE {"same boot"})
    \cup (IF e.ev.fallback THEN {"boot estimated"} ELSE {})
    \cup (IF e.cause = "unknown" /\ e.ev.clean = Unknown THEN {"shutdowns unread"} ELSE {})
    \cup (IF e.ev.panicAt # Unknown THEN {"panic report"}
          ELSE IF ~e.ev.panicRead THEN {"panics unread"} ELSE {})
    \cup (IF ~e.ev.powerRead THEN {"power log unread"}
          ELSE IF Window(e) # NoWindow THEN {"sleep in the power log"}
          ELSE IF e.cause \in {"power-cut", "battery-dead"} THEN {} ELSE {"no sleep in the power log"})
    \cup (IF e.ev.mode = "stopping" THEN {"stop marker"} ELSE {})
    \cup (IF e.ev.fails > 0 THEN {"records failed"} ELSE {})
    \cup (IF e.ev.suspect THEN {"clock suspect"} ELSE {})

(* narrateStdout: the line beside the errors the sleep caused. *)
Stdout(e) ==
    (IF e.cause = "sleep" \/ e.ev.same THEN {"timeouts due to sleep"} ELSE {})
    \cup (IF e.cause = "sleep" /\ Window(e).reason # "none" THEN {"reason"} ELSE {})

(* causePhraseForSms: the text has no room for reservations. *)
Text(e) ==
    CASE e.cause = "sleep" -> {"no power cut"} \cup (IF Window(e).reason # "none" THEN {"reason"} ELSE {})
      [] e.cause = "reboot-clean" -> {"shut down in order"}
      [] e.cause = "restart-intended" -> {"mac stayed on"}
      [] e.cause = "app-gap" -> {"ended unasked"}
      [] e.cause = "power-cut" -> {"cut or forced off"}
      [] e.cause = "battery-dead" -> {"drained"}
      [] e.cause = "panic" -> {"panic", "no power cut"}
      [] e.cause = "unknown" -> {"power cut not claimed"}

Account(e) == UNION {Headline(e), Body(e), ReasonLine(e), Stdout(e), Text(e)}

-----------------------------------------------------------------------------
(* Steps *)

AutopsyInit ==
    /\ minute = FirstMinute /\ machine = "awake" /\ boot = FirstBoot
    /\ plugged \in BOOLEAN /\ charge \in {BatteryDead, BatteryDead + 1}
    /\ log = {StartLine(FirstBoot)} /\ cleanAt = FirstClean /\ panics = {}
    /\ proc = NoProc /\ record = NoBeacon /\ gap = NoGap /\ event = NoEvent
    /\ happened = {} /\ mishaps = 0 /\ judged = 0

(* The kernel's boot time as a process reads it when it starts: by sysctl, or
   computed from os.uptime, or not at all.                                 *)
Readings == {[epoch |-> boot, fallback |-> FALSE], [epoch |-> boot, fallback |-> TRUE],
             [epoch |-> Unknown, fallback |-> FALSE]}

Composed(p, at, mode) ==
    [at |-> at, epoch |-> p.epoch, mode |-> mode, uptime |-> at - boot, fails |-> p.fails]

(* tick: the beacon is written - or not - before the gap is looked at; without
   a time of the boot handleGap makes no event of it.                      *)
Tick(t, written) ==
    LET p == [proc EXCEPT !.tick = t, !.uptime = t - boot, !.fails = IF written THEN @ ELSE @ + 1]
    IN  /\ proc' = p
        /\ record' = IF written THEN Composed(proc, t, "alive") ELSE record
        /\ gap' = IF proc.epoch = Unknown \/ t - proc.tick < ShortestGap THEN NoGap
                  ELSE [source |-> "tick", start |-> proc.tick, end |-> t,
                        prev |-> Composed(proc, proc.tick, "alive"), fails |-> p.fails,
                        suspect |-> ClockSuspect(t - proc.tick, (t - boot) - proc.uptime)]

Free == gap = NoGap /\ judged < MaxEvents

(* A minute passes.  In a dark wake the timer may fire or not. *)
Minute ==
    /\ Free /\ minute < MaxMinute
    /\ minute' = minute + 1
    /\ \/ /\ proc.runs /\ machine \in {"awake", "dark"}
          /\ \E written \in BOOLEAN :
                /\ mishaps' = IF written THEN mishaps ELSE mishaps + 1
                /\ mishaps' <= MaxMishaps
                /\ Tick(minute + 1, written)
       \/ ~(proc.runs /\ machine = "awake") /\ UNCHANGED <<proc, record, gap, mishaps>>
    /\ charge' \in IF machine = "asleep" /\ ~plugged THEN {charge, Max({BatteryDead, charge - 1})} ELSE {charge}
    /\ happened' = happened \cup
         (IF machine \in {"asleep", "dark"} THEN {[what |-> "sleep", at |-> minute + 1]} ELSE {})
    /\ UNCHANGED <<machine, boot, plugged, log, cleanAt, panics, event, judged>>

(* The machine goes over to another state and notes it, a minute at least
   after it noted something else.                                          *)
Goes(from, to, kind, reason) ==
    /\ Free /\ machine \in from /\ \A l \in log : l.at < minute
    /\ machine' = to
    /\ log' = log \cup {Line(kind, reason)}
    /\ UNCHANGED <<minute, boot, charge, plugged, cleanAt, panics, proc, record, gap, event, happened, judged>>

FallsAsleep == Mishap /\ Goes({"awake"}, "asleep", "Sleep", "lid")
WakesDarkly == Goes({"asleep"}, "dark", "DarkWake", "none") /\ UNCHANGED mishaps
SleepsOn == Goes({"dark"}, "asleep", "Sleep", "maintenance") /\ UNCHANGED mishaps
Wakes == Goes({"asleep", "dark"}, "awake", "Wake", "none") /\ UNCHANGED mishaps

(* The clock is set forward; the kernel may move its boot time along. *)
ClockJumps ==
    /\ Free /\ machine = "awake" /\ minute + 2 <= MaxMinute
    /\ Mishap
    /\ minute' = minute + 2
    /\ boot' \in {boot, boot + 2}
    /\ Note("jump")
    /\ UNCHANGED <<machine, charge, plugged, log, cleanAt, panics, proc, record, gap, event, judged>>

GoesOff(what) ==
    /\ Free /\ Mishap
    /\ machine' = "off" /\ proc' = NoProc
    /\ Note(what)
    /\ UNCHANGED <<minute, boot, charge, plugged, log, gap, event, judged>>

PowerCut == machine # "off" /\ GoesOff("off") /\ UNCHANGED <<cleanAt, panics, record>>
Drained ==
    /\ machine # "off" /\ ~plugged /\ charge = BatteryDead
    /\ GoesOff("off") /\ UNCHANGED <<cleanAt, panics, record>>
Panic ==
    /\ machine = "awake" /\ GoesOff("panic")
    /\ panics' = panics \cup {minute} /\ UNCHANGED <<cleanAt, record>>
ShutDown ==
    /\ machine = "awake" /\ GoesOff("shutdown")
    /\ cleanAt' = minute
    /\ record' = IF proc.runs THEN Composed(proc, minute, "stopping") ELSE record
    /\ UNCHANGED panics

\* To come up takes a minute.
TurnsOn ==
    /\ Free /\ machine = "off" /\ \A h \in happened : h.at < minute
    /\ machine' = "awake" /\ boot' = minute
    /\ log' = log \cup {StartLine(minute)}
    /\ UNCHANGED <<minute, charge, plugged, cleanAt, panics, proc, record, gap, event, happened, mishaps, judged>>

(* A process starts: the beacon of the one before is read, then overwritten. *)
Launch ==
    /\ Free /\ machine = "awake" /\ ~proc.runs
    /\ \E r \in Readings :
        LET p == [runs |-> TRUE, epoch |-> r.epoch, fallback |-> r.fallback,
                  tick |-> minute, uptime |-> minute - boot, fails |-> 0]
        IN  /\ mishaps' = mishaps + (IF r = [epoch |-> boot, fallback |-> FALSE] THEN 0 ELSE 1)
            /\ mishaps' <= MaxMishaps
            /\ proc' = p
            /\ record' = Composed(p, minute, "alive")
            /\ gap' = IF record = NoBeacon THEN NoGap
                      ELSE IF record.epoch = Unknown \/ minute - record.at < ShortestGap THEN NoGap
                      ELSE [source |-> "boot", start |-> record.at, end |-> minute,
                            prev |-> record, fails |-> record.fails,
                            suspect |-> /\ ~BootChanged(record.epoch, r.epoch)
                                        /\ ClockSuspect(minute - record.at, (minute - boot) - record.uptime)]
    /\ UNCHANGED <<minute, mac, event, happened, judged>>

Ends(what) ==
    /\ Free /\ Mishap /\ proc.runs /\ machine \in {"awake", "dark"}
    /\ proc' = NoProc
    /\ Note(what)
    /\ UNCHANGED <<minute, mac, gap, event, judged>>

Killed == Ends("kill") /\ UNCHANGED record
Stopped == Ends("stop") /\ record' = Composed(proc, minute, "stopping")

(* recordDowntimeEvent *)
RecordEvent(verdict, ev, windows) ==
    /\ event' = IF Joins(gap, verdict.cause, windows) THEN JoinedEvent(gap, verdict, ev, windows)
                ELSE FreshEvent(gap, verdict, ev, windows)
    /\ gap' = NoGap /\ judged' = judged + 1
    /\ UNCHANGED <<minute, mac, proc, record, happened, mishaps>>

(* handleGap, within the minute: the records are read as far as they can be. *)
Judge ==
    /\ gap # NoGap
    /\ \E unread \in SUBSET {"shutdown", "panic", "power"} :
        LET windows == SleepWindows(Lines(unread))
            ev == Evidence(gap, unread)
            covered == Covering(windows, gap.start, gap.end) # NoWindow
        IN  RecordEvent(Classify(ev, covered, gap.start), ev, windows)

JudgeBlindly ==
    /\ gap # NoGap
    /\ RecordEvent([cause |-> "unknown", confidence |-> "unsure", exact |-> FALSE],
                   BlindEvidence(gap), {})

AutopsyNext ==
    \/ Minute \/ FallsAsleep \/ WakesDarkly \/ SleepsOn \/ Wakes \/ ClockJumps
    \/ PowerCut \/ Drained \/ Panic \/ ShutDown \/ TurnsOn
    \/ Launch \/ Killed \/ Stopped \/ Judge \/ JudgeBlindly

AutopsySpec == AutopsyInit /\ [][AutopsyNext]_autopsyVars

-----------------------------------------------------------------------------
(* Properties *)

Within(span, kinds) ==
    \E h \in happened : h.what \in kinds /\ span.start - CleanBefore <= h.at /\ h.at <= span.end

StayedOn(span) ==
    \A h \in happened : h.what \in {"off", "panic", "shutdown"} => h.at < span.start \/ span.end <= h.at

ReallyWas(cause, span) ==
    CASE cause = "sleep" -> Within(span, {"sleep"})
      [] cause = "restart-intended" -> Within(span, {"stop"}) /\ StayedOn(span)
      [] cause = "reboot-clean" -> Within(span, {"shutdown"})
      [] cause = "panic" -> Within(span, {"panic"})
      [] cause \in {"power-cut", "battery-dead"} -> Within(span, {"off"})
      [] OTHER -> TRUE

Joined(e) == \E span, other \in e.gaps : span # other

(* An account that commits itself says of each gap what happened, or names the
   record that could not be read (the contract of classify and narrate); it
   does so when each of its gaps was judged alike and for certain.  Beyond it
   are a clock that was set, for what is told by the time of the boot, as
   classify says itself, and a panic in an event that several gaps went into:
   mergeEvidence takes the panic reports as read when they were for one of the
   gaps.                                                                   *)
AccountIsHonest ==
    event # NoEvent =>
        \/ event.verdicts # {[cause |-> event.cause, confidence |-> "certain"]}
        \/ \A span \in event.gaps : ReallyWas(event.cause, span)
        \/ "panics unread" \in Account(event)
        \/ event.cause # "sleep" /\ \E h \in happened : h.what = "jump"
        \/ Joined(event) /\ Within(event, {"panic"})

(* More lines than the sample keeps were noted before the Mac fell asleep. *)
Crowded(e) ==
    Cardinality({l \in log : l.at <= e.seen.start /\ \E span \in e.gaps : span.start <= l.at}) > FreezeHead

(* The sample is that of a gap which came long after the Mac fell asleep. *)
Late(e) == Joined(e) /\ e.seen.start + FreezeMargin < e.end

(* The account of a sleep shows the sleep the verdict saw: the sample of the
   power log in the ledger rebuilds its window (freezePmsetLines), unless the
   sleep began before the last beat, as one with a beat in it does, or its
   start is not in the sample.                                             *)
SleepIsShown ==
    event # NoEvent =>
        \/ event.seen = NoWindow \/ Window(event) = event.seen
        \/ event.seen.start < event.start - 1
        \/ Crowded(event) \/ Late(event)

(* "A window that covers both gaps means that there was no boot between them,
   so the cause cannot be one of the power" (store.ts:369): what the reboot
   was put down to is not replaced by a sleep.                             *)
PowerEventStands ==
    [][event # NoEvent /\ event' # event /\ event'.start = event.start
       /\ event.cause \in {"power-cut", "battery-dead", "panic"}
       /\ event'.seen.start <= event.start /\ event.end < event'.seen.end
        => event'.cause # "sleep"]_autopsyVars
=============================================================================
