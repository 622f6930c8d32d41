# Formal verification of Price-Dashboard

Price-Dashboard is a server for one user. It collects news, events, YouTube
videos, stock briefings, lottery picks and a ranking of skills with LLM
sessions at set times, sends the results by mail and iMessage, and runs for
months on a Mac that sleeps at night. What is hard in it is not the
collecting: it is that several timers, a catch-up sweep, HTTP requests, open
pages and processes share one LLM slot and a dozen files, that anything may be
cut short by sleep, a timeout, a limit or a restart, that what an LLM answers
may be anything, and that nothing may be left hanging, sent twice, forgotten or
misreported. The modules here model that; TLC checks them on small instances
and TLAPS proves the most important results for every instance.

Paths below are relative to the repository (`src/...` in the text is
`src/src/...` in `PROJECT.json`, which counts from one level further up, and
`web/...` is `src/web/...` there).

1. Inventory — 2. The modules — 3. The runs — 4. What is proved —
5. Findings — 6. Known behaviour — 7. Not modelled

## 1. Inventory

| Component | State | Operations | Hard because | What makes it correct | Modules |
|---|---|---|---|---|---|
| LLM queue (`src/scheduler/scheduler.ts`) | `llmQueueTail`, a chain of promises; the slot holder in an `AsyncLocalStorage` | `runLlmJob`, `withLlmSlot`, giving up after 10 or 45 minutes | tickets leave from the middle of the line; nesting; exceptions | one job at a time, in order; the tail always comes free | `FifoLock`, `LlmQueue`, `LlmJob` |
| Power assertion (`src/util/power.ts`) | `refCount`, `child` | `withWakeLock` | the process dies at any time, its event comes late | no assertion without a holder | `WakeLock`, `LlmJob` |
| Scheduler (`src/scheduler/scheduler.ts`) | cron tasks, running flags, backoffs, `activeSweep` | `safeRefreshX`, `checkXCatchup`, `runCatchupSweep`, `rescheduleAll` | cron, sweep and requests race for the queue; sleep and restarts lose occurrences | one collection at a time; what was missed is made up for; sweeps end | `Scheduler`, and the module of each tab |
| Schedules (`shared/schedule.ts`, `src/scheduler/schedule-store.ts`) | `schedule.json` | due days, next and last run, reading old and edited files, saving | months, leap days, intervals of weeks; three forms of the file | the search finds every run; no run of the lottery in the draw | `Schedule` |
| Manual routes (`src/api/routes.ts`) | `manualHolder`, the phase of each request | `startManualLlmJob`, the routes that change a store | a refused request stays in line; a store changes under a collection | a refused request never collects | `Scheduler`, and the module of each tab |
| Agent query (`src/util/agent-query.ts`) | per query | `runAgentQueryText`, fallback to Claude | error texts that look like answers; a stream that breaks after the answer | only what a model wrote is returned; every query ends | `AgentQuery`, `ClaudeStream` |
| Codex process (`src/util/codex-query.ts`) | per call | `runCaptured`, `assertCodexReady`, `runCodexQueryText` | exit and close come apart; descendants hold pipes; sleep | a call ends once its pipes are free | `CodexProcess`, `AgentQuery` |
| Model store (`src/util/model-store.ts`) | `model.json` | read with migration, record, clear, choose | a query that fails late meets a new choice | the choice is the user's | `AgentQuery` |
| Deadline (`src/util/deadline.ts`) | clocks at the last tick, the charge, a timer | `createDeadline`, ticks, `dispose` | sleep, late ticks, no measurement | time awake is charged, something always stops | `Deadline` |
| Stock briefings (`src/stock/stock.ts`, `notify-ledger.ts`, `slot-role.ts`) | one row per day and market with flags per slot and channel; snapshots | `refreshStock`, `checkStockCatchup` | partial sends, a slot already handled, crashes between send and record | each slot is sent once per channel, or handled; a good briefing is kept | `StockLedger` |
| Making of a briefing (`src/stock/stock.ts`, `curate.ts`, `holdings.ts`) | holdings, registered stocks; per run what was gathered | `gather`, `buildPositionRows`, `normalizeCurated`, `toSnapshot`, `verifyWatchlist` | the agent forgets, invents, misspells; lookups fail; the user edits meanwhile | no holding is lost, nothing is said without reasons and price | `StockCuration` |
| Stock pulse (`src/stock/pulse.ts`, `pulse-gate.ts`, `src/db/repo.ts`) | the table of alerts with the overnight queue | `runPulse`, `flushPulseQueue` | caps over two ways of delivery, duplicates, quiet hours; digests that overlap, are missed or cut off | caps hold; each alert once, but for what the code cannot know; the queue empties | `Pulse` |
| Lotto cycle (`src/lotto/cycle.ts`, `store.ts`, `draws.ts`) | draws, strategies, predictions, picks, `lotto-state.json` | `runWeeklyCycle`, catch-up, button | an hour of LLM work between reading and writing; five writes with crashes between | picks stand till they are scored; each round is summed once and reported | `LottoCycle` |
| Lotto sets (`src/lotto/strategy.ts`) | per generation a design, cached | `normalizeSpec`, `generateSets`, `optimizeDesign` | steps that undo each other | the sets are what the strategy asked for | `LottoSets` |
| News, events, YouTube (`src/news`, `src/events`, `src/youtube`) | a snapshot and an attempt record each | `refreshX`, coverage, backoff | a failure must not replace a good result, nor pass for one | a time counts as served only if it was | `Collections` |
| Events of the board (`src/events/curate.ts`, `new-tracker.ts`) | snapshot; ledger of appearances | `curate`, fallback; `trackNew` | dates without a year, links out of the agent's mind; absences, gaps, lost files | shown events stand up; "new" means new | `EventCuration`, `EventTracker` |
| YouTube lists (`src/youtube`, `src/util/category-store.ts`) | snapshot, categories, blocks, dismissed, watched | collection, move, dismiss, block, watch, delete and reorder categories | a collection works for an hour with arrays that are replaced under it | exclusions reach the collection | `Videos` |
| YouTube page (`web/src/components/YoutubeBoard.tsx`) | what is shown, what is on its way | click, roll-back, poll, marking as watched on return | answers overtake each other, requests fail, the server restarts | the last word of the user stands | `VideoBoard` |
| Skills (`src/skills/skills.ts`, `store.ts`, `verify.ts`) | stars per day, snapshot, attempt, summaries | weekly run, interim look, catch-up | GitHub's quota, crashes, presses | a week that counts has its record | `Skills` |
| Skills scan (`src/skills/scan.ts`) | cached verdicts, quota | workers, cache, verdict | trees cut off, files unread, tables of signals that change | a verdict is true of what it is shown with | `SkillScan` |
| Uptime (`src/uptime/beacon.ts`, `index.ts`, `missed.ts`, `store.ts`) | beacon file, ledger of events, timers, a promise chain | beat, gap, re-evaluation, acknowledgement, text | the crash is the input; tasks give way in the middle | every outage is recorded and stays; a loss found stands | `Uptime` |
| Autopsy (`src/uptime/evidence.ts`, `classify.ts`, `narrate.ts`) | traces of the Mac; the last event | reading, verdict, merging, account | dark wakes, changed clocks, unreadable records | an account that commits itself is true | `Autopsy` |
| Settings (`src/settings/tab-settings.ts`, `web/src/components/TabConfigPanel.tsx`, `web/src/lib/tabConfigStore.ts`) | `tab-settings.json` over the environment; a store per page | load, edit, save, cron job of the held alerts | two pages, lost answers, edits by hand | nobody's edit is undone; what is shown can be saved | `TabConfig` |
| Mail account (`src/notify/google-auth.ts`, `mailer.ts`, `web/src/components/MailAuthBanner.tsx`) | `google-oauth.json`, the refresh in flight, the warning sent | `sendMail`, refresh, consent, disconnect, banner | two mails share a refresh; the grant dies at any moment | a dead account is found out and replaced | `MailAuth` |
| Stock data sources, database, server start and command line, other pages, `tools/insane-engine`, `service/` | | | | | section 7 |

How they interact: cron callbacks and the sweep call `safeRefreshX`, which sets
the flag of its tab and calls `runLlmJob`; a request calls `withLlmSlot`. Both
wait in the same queue. Who has the slot holds the power assertion and runs the
collection, which asks `runAgentQueryText` once or several times; every query
runs under a deadline. The outcome goes to a store, from which the scheduler
later reads whether an occurrence is covered; the schedule says what the
occurrences are. While a collection runs, the pages change the stores it works
with. Uptime looks at the scheduler's occurrences and the stores' coverage to
say which collections an outage swallowed, and mail and texts end most runs.

## 2. The modules

| Module | Models | Role |
|---|---|---|
| `FifoLock` | what the queue promises: a first-come first-served lock whose waiters may leave | abstract specification |
| `LlmQueue` | `llmQueueTail`, `runLlmJob`, `waitForTurn` | component |
| `WakeLock` | `power.ts` and the caffeinate process | component |
| `LlmJob` | `runLlmJob` with both; implements `FifoLock` | composition |
| `Scheduler` | cron, sweep, flags, backoff, manual requests over `LlmQueue` | composition |
| `CodexProcess` | one call of `runCaptured` | component |
| `ClaudeStream` | the stream of one Claude session | component |
| `AgentQuery` | `runAgentQueryText` with both, and `model.json` | composition |
| `Deadline` | `createDeadline` | component |
| `Schedule` | the calendar and the store of the schedules | component |
| `StockLedger` | `refreshStock`, the ledger, `checkStockCatchup` for one market | component |
| `StockCuration` | how one briefing is made | component |
| `Pulse` | the pulse with its gate, table and digest | component |
| `LottoCycle` | the weekly cycle with its tables and triggers | component |
| `LottoSets` | the making of the sets | component |
| `Collections` | one of the tabs news, events and YouTube over its schedule | component |
| `EventCuration`, `EventTracker` | what the events tab shows, and what it marks as new | components |
| `Videos` | the YouTube list and its ledgers on the server | component |
| `VideoBoard` | the page in the browser over `Videos` | composition |
| `SkillScan` | the scan of the repositories | component |
| `Skills` | the weekly run over `SkillScan` | composition |
| `Uptime`, `Autopsy` | the life of the downtime events, and what is said of them | components |
| `TabConfig` | the settings of a tab, file to page | component |
| `MailAuth` | the mail account, from the token to the banner | component |
| `MCLlm`, `MCScheduler`, `MCStock`, `MCLotto`, `MCPulse`, `MCCollections`, `MCUptime`, `MCSchedule`, `MCSettings`, `MCVideos`, `MCSkills` | instances | model checking |
| `LlmProofs` | of `LlmJob` with the queue, `Scheduler`, `AgentQuery`, `Deadline` | theorems |
| `StockProofs` | of `StockLedger`, `StockCuration` | theorems |
| `CollectionsProofs` | of `Collections`, `EventTracker`, `EventCuration` | theorems |
| `PulseProofs`, `LottoProofs`, `SkillsProofs`, `UptimeProofs` | of `Pulse`, `LottoCycle` with `LottoSets`, `Skills` with the scan, `Uptime` and `Autopsy` | theorems |
| `WebProofs` | of `TabConfig`, `Schedule`, and `VideoBoard` with `Videos` | theorems |

Several MC modules hold two to four components in one state space: a variable
`part`, chosen once, says which of them moves, and the others stand still in a
state where no property of theirs can be touched. They are not a composition;
each part behaves exactly as it does alone.

### State and actions against the code

*LlmQueue.* `chain` is the sequence of links of the promise chain that are not
resolved: `tail.then(() => held)` resolves after the link before it and after
the ticket's own `release()`. `stage` is where a call is; "left" is after
`release()`, before its link resolved. Everything up to the first `await` is
the one action `Enqueue`. `GiveUp` is possible only while somebody before the
ticket holds a link back, since promise reactions run before timers.

*WakeLock, LlmJob.* `procs` is what runs in the operating system, `child` what
the program remembers; an `exit` or `error` event is delivered after the death
of the process. `Run` takes the assertion after the slot was granted, `Return`
gives both back, `Reenter` is a nested `runLlmJob`.

*Scheduler.* `uncovered` is the one bit the checks of a tab read from its store
and the only thing that survives a restart. `running` is `xRunning`, set before
the queue and cleared in the `finally`; `collecting` is the guard inside
`refreshX`. A tab is described by the sets `Guarded`, `BackedOff`, `Looking`
and `Overwriting`, so that the three tabs checked stand for all of them. The
phase of a job is its `TabRunOutcome`, or the `phase` of a manual request.
Backoff is a bit: the time until which it holds is not modelled here, only that
it passes. `waits` is the gate of `catchupTarget`: after `Midnight` a tab that
is due again today is not made up for until the occurrence of today, which cron
fires or misses. That a briefing is never made up for on a later day is in
`StockLedger`. A dropped manual ticket runs through the queue and does nothing.

*AgentQuery.* A query is "check" (login), "exec" (the run) or "claude" (the
chosen or the fallback model). `other` is a second query, for instance of the
pulse, which does not use the queue; only its effect on `model.json` is kept.
`choice` is not in the code: it remembers what the user chose, for comparison.
`Ask` forgets the last answer, and a query that is over its attempt and its
stream, none of which the code keeps.

*Deadline.* `wall` runs on, `awake` stops during sleep. A tick may come late by
any amount, which stands for a busy event loop. `measures` is whether
`os.cpus()` gives the time awake on this machine.

*Schedule.* A day is a number from 1 January 2026, a schedule the record the
code keeps. The file holds what was once written, of any of its three forms or
edited by hand; `Read` is the parsing with its defaults and migrations, and a
save writes what is read. The searches for the next and the last run are
compared with the plain meaning of "due", day by day.

*StockLedger.* A slot is a number, its time of day the moment at which `clock`
reaches it; 0 is `MANUAL_SLOT`. `recorded` and `notified` are the row of today
(`readRawMap` is null until the first `finishStockRun` of the day), `files` the
three snapshot files, `run` one call of `refreshStock` with what it read at its
beginning. A run is cut at its awaits (session, indices, quotes, agent, mail,
iMessage); each way out rewrites the row in the same step in which it stores
its snapshot. `queued` is the scheduled call between `stockRunning = true` and
its turn in the LLM queue, whose other users appear as waiting. `open` is the
calendar: the session of a day closes at dawn of the next one. `sent` is not in
the code: it counts what really arrived, for comparison with the ledger. The
market is the American one; the Korean one is the case `split = FALSE`, apart
from the session that it asks for. What `Scheduler` calls `uncovered` is, for
stock, `NeedsCatchup` here.

*StockCuration.* One run, cut where it awaits: prices, agent, and the lookup of
each stock the agent recommends to watch. `told` is the agent's answer after
`normalizeCurated`: any stocks, in any spelling, with any field missing.
`brief` is the snapshot `toSnapshot` makes. Prices are there or not.

*Pulse.* `alerts` is `stock_pulse_alerts` with the statuses in use, `run` one
call of `runPulse`, cut at its awaits: the alerts of late are read before the
agent is asked, the counts when it has answered, and its findings are judged one
after the other. `digest` has the rows that each call of `flushPulseQueue` under
way is sending: there may be several, since nothing keeps one from starting. A
flush is cron's, in the second (`due`) in which the quiet hours end, or that of
the start, outside the quiet hours; a second in which the Mac sleeps or the
process is down (`up`) is missed. Of a row, `told` counts the deliveries, `cut`
the crashes that came between a digest of it and its mark, and `met` the flushes
that found it on its way. A day has three stretches, two of them quiet; whether
it is quiet is asked once, when a run starts.

*LottoCycle.* A call of `runWeeklyCycle` is a sequence of writes with a crash
possible after each: scores, removal of the picks, the evolved strategy, new
picks, the state file. `published` runs ahead of `known`, the draws collected
so far. A week is five stretches, so that the blackout around the draw lies in
one of its own. *LottoSets* makes the design of a round step by step (dealing,
filling up, drawing doubles again, the search) from any `spec` the agent gave;
what a draw counts for is `HitWeights`, a table by the number of hits.

*Collections.* `tab` is which of the three it is; they differ in what a run
without items stores and in what the scheduler compares. `memo` and `tried` are
the snapshot and the attempt record, `queued` the scheduler's call in the
queue, `refresh` the running collection. `goodAt` and `excused` keep what
really happened, for comparison with what the records say.

*EventCuration* is one collection: whatever the search found and the agent
answered, the board after it, whose sections are sets (the order within them
and their lengths of 8, 20 and 12 are left out). *EventTracker* is the ledger of appearances;
`collected` is the whole history of collections, from which the property says
afresh what is new.

*Videos, VideoBoard.* JavaScript's sharing is what matters here: `job` holds
either the live array of a ledger, marked as such until an operation replaces
it, or the copy made at the start. `up` and `down` are the requests and
responses on their way; requests arrive in order, responses may overtake each
other. `word` is what the user last said of each video, for comparison.

*SkillScan, Skills.* A repository is its last push, its description and its
SKILL.md files, of which only matters what they show. `rows` caches verdicts
with the table of signals they were made with, `core` is what GitHub's quota
has left, and a scan runs with several workers, one call at a time each.
`Skills` has the run around it: search, stars, scan, summaries, `points`,
snapshot, mail, and the scheduler's and the button's ways into it.

*Uptime.* `chain` is the promise chain, `work` the task that runs and the place
where it gave way (while it asks what was missed, and while a text goes out).
A beat, the timers and the acknowledgement do not use the chain. `ledger` is
the file of events, rewritten as a whole by each change.

*Autopsy.* The Mac itself is modelled (`machine`, `boot`, `charge`, `log`,
`cleanAt`, `panics`): what it does leaves traces, the traces are read with
failures, and the account is a set of claims. `happened` is what really was; a
minute counts as slept when the Mac is asleep or in a dark wake, as it does for
the code, whose windows go from a Sleep to the next Wake. The power log is a set
of lines, no two of one minute, so that reading it (`SleepWindows`, `Freeze`)
needs no order but that of time. The last event carries its history: the
verdicts, the gaps that went into it and the window the verdict saw.

*TabConfig.* `stored` holds only the leaves that were changed; everything else
follows `dotEnv`. A page has one store for two answers, the settings and the
schedule, and its panel sends a patch of what was changed in it.

*MailAuth.* A grant is a refresh token; `alive` and `scoped` are Google's view
of it. `mail` is one call of `sendMail` per sender, `inFlight` the senders that
wait for the shared refresh. The warning text, the consent screen with its
`state` ticket, the callback and the banner close the circle.

## 3. The runs

| Run | Parts | Shows |
|---|---|---|
| `llm_mail` | `LlmJob`, `AgentQuery`, `Deadline`, `MailAuth` | the queue behaves as a first-come first-served lock (`IsFifoLock`) and leaks no assertion (`NoLeakedAssertion`); only genuine answers are returned (`AnswerIsGenuine`), the choice of a Codex model survives every failure (`ChoiceSurvivesFallback`), every query ends (`QueryEnds`); time awake is charged (`AwakeIsCharged`), something always stops (`AlwaysStops`); a dead mail account is found out and replaced (`DeadAccountRecovers`) |
| `scheduler` | `Scheduler` | no two collections (`OneCollectionAtATime`), a refused request never runs (`RefusedNeverRuns`), a sweep ends (`SweepEnds`), what was missed is covered though cron never fires (`MissedIsCovered`) |
| `stock` | `StockLedger`, `StockCuration` | a briefing goes to a channel once per fault (`SentOnce`), a good one is kept (`GoodBriefingKept`), a handled slot is left alone (`HandledStaysQuiet`); what a briefing says has its grounds (`BriefingIsGrounded`) |
| `stock_outage` | the same | **violated**: a briefing without any price is no success (`OutageStaysOpen`) |
| `lotto` | `LottoCycle`, `LottoSets` | the sum counts each round once (`CumulativeIsSum`), picks stand until they are scored (`PicksStand`), each score reaches the agent or is given up (`ScoresReachAgent`); sets are what was asked for (`BuiltAsAsked`) |
| `pulse` | `Pulse` | the caps bound both ways of delivery together, whatever overlaps (`CapsHold`) |
| `pulse_morning` | `Pulse` | a row is delivered once, and again only for a crash before its mark or a flush that met it on its way (`DeliveredOnce`); what one digest misses leaves with the next or with the start (`QueuedLeaves`) |
| `collections` | `Collections`, `EventTracker`, `EventCuration` | a time counts as served only if it was (`CoveredMeansCollected`), the backoff says how the last run went (`BackoffTellsTruth`); a badge marks what was not there before, and nothing else (`NewMeansNew`), and whatever the search and the agent say, each entry of the board stands up (`BoardStandsUp`) |
| `uptime` | `Uptime`, `Autopsy` | every gap judged is recorded and stays so, events follow each other, and a moment is told of twice only where an autopsy is repeated and finds another cause (`OutagesRecorded`), a loss found is not taken back (`LossStands`); an account that commits itself is true of each of its gaps (`AccountIsHonest`) and shows the sleep the verdict saw (`SleepIsShown`) |
| `settings` | `Schedule`, `TabConfig` | the search finds every run and no other (`SearchFindsRuns`); an untouched value never blocks a save (`ShownCanBeSaved`), no page undoes another's edit (`NobodyElsesEdit`), the held alerts go at the hour set (`FlushAtQuietEnd`) |
| `videos` | `VideoBoard` | what the user said of a video stands (`LastWordStands`), what he excluded meanwhile is out of the list (`ExclusionsReachCollection`) |
| `skills` | `Skills` | a week not caught up any more has its record (`CoveredMeansRecorded`), a week's mail goes out once (`MailedOncePerCycle`), verdicts and summaries are true (`EntriesTellTruth`) |

Every property of a passing run has a mutant in `PROJECT.json`: a plausible
mistake in one mapped definition with which the same run finds the property
violated.

### Bounds and why they are enough

* `llm_mail`: three tickets, because every hazard of the queue needs one that
  runs, one that gives up and one behind it; two processes, an old one whose event is
  late and a new one; nesting of two. Two Codex models and a Claude model, one
  repetition of the login check (`Retries`), two results in a stream: a good
  one and a bad one in either order. The deadline has a budget of 5, ticks of 2,
  a ceiling of 10 and a clock up to 12, so that the budget takes several ticks
  and the ceiling lies within reach; a share of 1/4 in place of 1/50 makes the
  noise depend on the span. The mail has two senders, four grants, two attempts
  where the code has three, two faults.
* `scheduler`: three tabs, one of each kind; two tickets, no symmetry (which
  would be unsound for liveness), and any two of restarts, runs that give up and
  midnights (`MaxFaults`) at any moment.
* `stock`: two days, since a session is settled on a later one and a run may
  cross midnight; two slots, one in the band of the close and one in the
  preview's, since slots disturb each other through the row and the shared file
  of the holidays; one fault (a crash, a message that arrived although sending
  failed, or a switched channel) at any moment. Failures of the agent, the
  quotes and the channels are not bounded. Two companies at home and one of the
  other market, and one change by the user between any two steps.
* `lotto`: three weeks, so that a round is scored, its score reported or given
  up, and a next one is on its way; two faults. Six numbers, two sets of three,
  three draws of which two are close; two hits count, and the third twice; searches of two steps; two rounds asked
  for in one process, which is what the cache needs.
* `pulse`: two days of three stretches; three rows, caps of 1 per symbol, 2 for
  the day and 1 for the market, so that each can be the first to be reached, two
  symbols and the market, a window of repeats of one day; two digests at once,
  and one fault (a crash, a missed digest or a switch) at any moment.
* `pulse_morning`: three days, so that there are two nights with a morning after
  them: what the first morning misses has a second. Two rows, one from each
  night or both from one; two digests at once, which the start after a crash and
  cron make in the same morning; one fault at any moment. No repeats and one
  severity, which neither property asks for. The premise of `QueuedLeaves` is
  that more mornings are to come than faults.
* `collections`: days of three ticks, five ticks in all, a tab that collects
  twice a day, one that does so on one day only, one switched off; backoff of
  one tick doubled once; one crash and two acts of the user. Two events over
  seven days, five collections, gaps of two days, badges of one, a retention of
  three, one loss of the ledger. Years of five days, collected on the last two
  of the first, so that dates lie on both sides of New Year; one search result
  and one event from the agent with every combination of its fields.
* `uptime`: five beats with days of four, one planned time, quiet hours, three
  faults, one act of the user, one send per process and event. Two faults would
  hide what comes of an autopsy that is cut off after its entry and repeated:
  the outage, the death, and what makes the second look see another cause. Eleven minutes
  with two mishaps and two gaps judged; windows are scaled to that length.
  A third mishap would show more; what the two properties say at any length is
  proved (section 4).
* `settings`: the days around the ends of months in early 2028 with its leap
  day, and two days much earlier on which files may have been written; three
  edits; jobs of every form. Two pages (symmetric; only safety is checked), two
  saves, one fault.
* `videos`: two videos, three categories, one collection, two acts or faults at
  any moment. The second act is where interleavings begin: everything found
  needs one during the collection and one after.
* `skills`: two repositories for one place in the ranking; either seven ticks
  over two weekly times with one press and one fault, or one day with two
  presses, one change, two faults and trees of up to three files, of which two
  are read; quotas at, above and below the reserve; two workers.

### Fairness

Promise reactions and event handlers run (`WF` of `Run`, `Resolve`, `Close`,
`GetSlot`). A job returns, and a watchdog or a deadline fires, because budgets
are spent as time passes (`WF`, or `SF` where nesting interrupts it). A process
that was sent SIGKILL exits. `setInterval` starts a sweep when none is active.
Nothing is assumed of a process left to itself, of its descendants, of cron, of
the user, and no collection has to succeed: `MissedIsCovered` has the success
of the tab as its premise and `QueryEnds` the end of the descendants. `SF` of
`SweepStep` makes up for the finite number of tickets: the real queue is never
full. The occurrence of today that a tab waits for after midnight is due at
last (`WF` of `CronFires` or `CronMissed`), because time passes.

* `LottoCycle`: what a cycle awaits settles, the sweep looks again, results are
  published, a trigger gets the slot; `SF` of `Tick`, because time passes only
  between the writes of a cycle and cycles come again and again.
* `Pulse`: the sends of a run end, launchd starts the process again (`WF`); each
  digest ends, time passes, and cron fires unless its second is missed (`SF`,
  since a run that judges its findings, or a process that is down, keeps them
  from it in between). Neither cron's second nor a run is certain: a missed
  second is a fault, and `QueuedLeaves` needs no run.
* `MailAuth`: mails are sent again and again and answered, the page polls, and
  the user who sees the banner follows it through the consent screen: this is
  the premise "a user who follows the banner" of `DeadAccountRecovers`.
* `Deadline`: time passes, the Mac wakes, and a tick that is due again and
  again comes (`SF`).
* `LlmJob`, `StockLedger`, `Uptime`: fairness is stated in the modules for
  properties that no run checks; what the runs check of them is safety and
  assumes none.

## 4. What is proved

For every value of the constants, from the assumptions named in the modules:

* **LLM job** (`LlmProofs`, first part): types, mutual exclusion, no lost call,
  no leaked assertion, the count is the nesting of the running job, the Mac is
  kept awake only for a running job, and `JobSpec => Lock!Spec`: the queue
  implements `FifoLock`. Mutual exclusion is not inductive; the invariant says
  that the chain holds each call once and that a running call is the oldest.
* **Scheduler** (`LlmProofs`): types, `OneCollectionAtATime`,
  `NoEmptyHandedRun`, `FlagMatchesCalls`, `SweepAwaitsItsCall` and
  `RefusedNeverRuns`. The strengthening is `CollectorHasSlot`: who collects has
  the slot, for its own tab, and was not dropped. With mutual exclusion of the
  queue it gives `OneCollectionAtATime` and `NoEmptyHandedRun`.
* **Agent query** (`LlmProofs`): `AnswerIsGenuine`, `AnswerIsKept` and
  `ChoiceSurvivesFallback`. Behind the first is `TextsAreGenuine` (the text
  kept of a stream is never that of an error), behind the last
  `FileHoldsChoice`: as long as the choice is not the fallback model, the file
  holds it, as the model itself or as the one to come back to.
* **Deadline** (`LlmProofs`): types, `AwakeIsCharged`, `StopsInTime` and
  `SleepIsNotCharged`. `ClocksAgree` says that time awake is part of time;
  `ShareSums`, that shares rounded down do not add up to more than the whole,
  carries `SleepIsNotCharged`.
* **Stock ledger** (`StockProofs`): types, `SentOnce`, `LedgerOnlyGrows`,
  `GoodBriefingKept` and `HandledStaysQuiet`. `SentOnce` speaks of what was
  sent and not of the ledger, and is inductive only together with what a run in
  progress holds: `Held` is the record of a slot or, while a run of today works
  for it, the flags of that run, and `SentWithinRecord` bounds what was sent by
  it. `FlagsMatchLedger` and `PrevIsCurrent` say that what a run read at its
  beginning is still so when it ends; this is where the guard against two runs
  is needed. From there `HandledStaysQuiet` is a matter of one step: the row a
  catch-up reads is the one the last run left.
* **Making of a briefing** (`StockProofs`): `BriefingIsGrounded`, for any
  companies, holdings and answers. `GroundInv` goes with the run: what was
  gathered, what survived of the answer, and which stocks were looked up.
* **Pulse** (`PulseProofs`): types, `CapsHold`, `DeliveredOnce` and
  `DryRunSilent`, for any caps, symbols and issues and any number of digests at
  once. A run counts once, after the agent has answered, while digests, a crash
  and the switch go on changing rows: `CountsCover` says that what a run counts
  is never less than the rows of its day that were or may still be delivered,
  `RowsOnlyEnd` that no other row becomes deliverable again, but for one that two
  flushes had on their way. Counting needs the theorems on finite sets: one more row is
  one more in its sets. `DigestIsQueued` says that a row which no second flush
  met is in one digest at most and still queued while it is; `RowsTellDelivery`
  carries `DeliveredOnce` over the digests on their way: what was delivered of a
  row and what still may be, together, are no more than one, its crashes and its
  meetings.
* **Lotto cycle** (`LottoProofs`): types, `CumulativeIsSum` and `PicksStand`,
  for any number of weeks and faults. The sum is counted again by the property
  and added up row by row by the code. `ScoredInOrder` says that rounds are
  scored in the order of the runs, so that the last row of a run holds its sum;
  `StagesKnow` what a cycle in each stage has read and not yet written, which
  carries both over a crash between scoring and clearing; `PicksForNext` keeps
  the picks no further ahead than one round.
* **Lotto sets** (`LottoProofs`, second part): `BuiltAsAsked`, for any game,
  weights of the hits, draws and steps within `SetsAssumption`. `SetsInv` says
  what each stage has made of the sets: dealt, they hold all numbers and none
  has too many (`DealtSets`, by division); filled up, those that were looked at
  are whole (`FillingUp`); a double may be drawn again because its numbers are
  in the set that is like it (`DoubleMayGo`); a step of the search exchanges one
  number and never loses score (`ImprovedKeeps`). That the score is a number at
  all is a sum over a set, defined by recursion: `SumExists` and `SumIsInt` prove
  it for the fold of the library, by the smallest set that would be without one.
* **Collections** (`CollectionsProofs`): types, `CoveredMeansCollected` and
  `BackoffTellsTruth`, for any schedules and length of the day. Coverage
  compares dates, so the invariant is one of dates: `RecordsAreDated` (no
  record is ahead of the clock, days only grow), `RunsFollow` (the snapshot is
  no younger than the run that may replace it), `SnapshotTellsGood` (what the
  snapshot says of the last good result) and `RunTellsOutcome`.
* **Badges of the events** (`CollectionsProofs`): `NewMeansNew`, for any events,
  gaps, badges and retention within `TrackerSizes`. The property looks at the
  whole history of collections, the ledger keeps two dates per event and forgets
  it after a while; `TrackInv` says what the two dates tell of the history, and
  that what was forgotten has been absent longer than a gap.
* **Board of the events** (`CollectionsProofs`): `BoardStandsUp`, for any halls,
  titles, links and length of the year. The one hard step is that of several
  entries under one title exactly one is shown: that a set of positions has a
  least one.
* **Skills** (`SkillsProofs`): `CoveredMeansRecorded`, `EntriesTellTruth` and
  `MailedOncePerCycle`, for any repositories, sample size, budget of calls,
  number of workers and schedule. `IInv` has one part per place in which a
  verdict lives (cached rows, the run, the scan, the snapshot), and says of each
  that it is true of the files of the push it was made for; a push changes the
  key and not the truth. That a sample may stand for all files rests on
  `SampledInRange` and `AllRead`: a sample as large as the list is the list.
  `MailInv` adds what waits in the queue: a call that waits and a run that may
  still mail are for one boundary.
* **Settings** (`WebProofs`, first part): `ShownCanBeSaved`, `FlushAtQuietEnd` and
  `NobodyElsesEdit`, for any pages, hours, saves and faults. What a page shows
  was legal when the server read it and is so still, because what is legal does
  not depend on the environment; a request carries the leaves its user changed
  and no others (`SwitchSendsOne` for the switch in the header).
* **Schedules** (`WebProofs`, last part): `SearchFindsRuns`, for any schedules,
  times and days from which the search stays within the calendar of 2026 to
  2029. What it rests on is `RunsWithinYear`: a schedule the rules let pass runs
  at least once in any 367 days, one of every few weeks because some week in
  four is its turn (`SomeWeek`), one of the month because January has all dates
  and December ends on a last day. So the searches, which look 400 days ahead
  and back, are never empty; that they find the first and the last moment is
  then a matter of the order of days and times (`NextIsFirst`, `LastIsLatest`).
  Two more theorems say what no run checks, though TLC finds it true on the
  instance of `settings`: `WeeksAlternate`, that a schedule of every n
  weeks has one whole week in n, and `NoRunInBlackout`, that no reading of the
  file puts a run of the lottery into the hours of the draw.
* **YouTube list** (`WebProofs`): `ExclusionsReachCollection`, for any
  categories, videos, channels and number of collections and faults. `ListInv`
  says of a collection that filters that the arrays it holds, live or old,
  contain at least what was excluded when the answer came and is so still
  (`GoodJob`), and that a category it has gone through lets none of that stand
  (`Filtered`). A video goes to the first of the categories that list it, and
  that one has filtered it.
* **YouTube page** (`WebProofs`): `LastWordStands`. `PageInv` looks ahead: the
  last request on its way for a video asks for what the user said of it, or the
  user has said nothing (`RequestsAgree`); of the other videos the server has
  what the user said, unless the response of a failed request is still to come,
  which takes the word back (`ServerAgrees`). A group of requests that the page
  sends by itself is in accord because a video that waits to be marked is one of
  which the user has said nothing. A restart loses requests anywhere in the
  sequence, so the last of each video is what decides (`RestartStep`).
* **Uptime** (`UptimeProofs`): `OutagesRecorded` and `LossStands`, for any
  schedule, day, records of the machine and number of faults. `UptimeInv` is
  the shape of the ledger with all that is still on its way to it: events follow
  each other by beginning and by end (`GoodLedger`); the gap a task works on,
  those that wait in the chain, and the beacon, from which the next process
  makes one, each begin no earlier than the one before ends (`GoodWork`,
  `GoodChain`, `GoodBeacon`). The exception is what the property names: until
  the first beat a process that died after its entry leaves a beacon that lies
  before an event.
* **Autopsy** (`UptimeProofs`, second part): `AccountIsHonest` and
  `SleepIsShown`, for runs of any length with any number of mishaps and gaps.
  `AutopsyInv` says what the traces tell of what happened: the shutdown records
  and panic reports are those of real ones (`TracesTell`), a Wake closes a sleep
  (`LogTells`), and while nobody sets the clock the machine went off since a
  beacon was written exactly if the boot time changed (`BootTells`, `Left`).
  From these, what `classify` is certain of is true (`JudgedTruly`); joining
  keeps it so, gap by gap (`EventTells`). That the sample of the power log gives
  back the window that was seen (`SampleShows`) is a matter of counting lines:
  the Sleep that opened the window is among the last before the gap or the
  first in it, each Wake is kept, and what is left out opens no earlier window.

What the theorems assume of the constants is in the `ASSUME` of each module:
sizes are natural numbers, days and years are not empty, a value that stands
for "none" is none of the others, the sets of a round hold all numbers, and the
clock of the schedules stays where the calendar covers the search. TLC evaluates
them in the runs.

A theorem about a component holds for its specification alone; in the runs that
join components (`llm_mail`, `stock`, `lotto`, `collections`, `uptime`,
`settings`) the part that moves is that specification.

Only model-checked:

* liveness (`QueryEnds`, `SweepEnds`, `MissedIsCovered`, `ScoresReachAgent`,
  `QueuedLeaves`, `AlwaysStops`, `DeadAccountRecovers`): the prover has no
  `ENABLED`. All safety properties of the passing runs are also theorems.

## 5. Findings

`stock_outage`. `quoteOutage` (`src/stock/stock.ts:781`) asks for
`g.indices.length === 0`, and the comment above it (773–777) says that this is
what an outage of Naver looks like, that it counts as a failed collection, and
that the slot stays open. But `fetchIndexHistory` (`src/stock/quote.ts:283`)
adds an entry for every index, without points when its prices could not be had,
and `indexCards` makes a card of each: the list is empty only if the call
throws, which a failed fetch does not. A briefing with every price missing and
a card without a value is sent and closes its slot.

## 6. Known behaviour

What the code does at its edges, met while modelling. Where a property is named
it stands in the module and is not run, because the code does not keep it or
keeps it only in part; the models contain all of these behaviours unless
section 7 says otherwise.

*Queue and agents.*
`ChoiceIsKept` (`AgentQuery`): the user chooses Opus by hand while a query on a
Codex model is in progress, the query fails, and `recordCodexFallback`
(`src/util/model-store.ts:106`) writes a state that is read back as the Codex
model. `StoppedCallSettles` (`CodexProcess`): a Codex process exits by itself
while a descendant keeps its pipes; the watchdog then signals a process that is
gone (`src/util/codex-query.ts:495`), and the call, with the LLM slot, waits
for the descendant. `QueryEnds` therefore assumes that descendants end.

*Stock.*
`FailedChannelStaysOpen` (`StockLedger`, `src/stock/stock.ts:656`): a closing
briefing is stored, then mail or iMessage fails; the next catch-up reads the
snapshot just stored as the last settled session, and records the channel as
done. `NothingSentAhead` (`src/scheduler/scheduler.ts:801`, `stock.ts:634`): a
catch-up queued shortly before midnight runs after it and sends the briefing as
that of tomorrow's slot. In a briefing, the filter of the watch list
(`src/stock/curate.ts:731-743`) sees only the analyses that survived, and exact
letters, so that a registered symbol whose analysis was dropped, or written in
another form, may be in the watch list; two analyses of one stock both stay; a
holding bought after the prices were gathered is shown without one.

*Pulse.* `SeparateBudgets`: `countPulseSentToday` (`src/db/repo.ts:720`) counts
alerts on the market in the daily total, although `pulse-gate.ts` says they
have a budget of their own. Whether it is quiet is asked at a run's start.
`flushPulseQueue` (`pulse.ts:337`) has no running flag: a flush of cron that
starts while that of the start is sending, or one of the morning before that
the Mac slept over, sends the rows once more (`met`), and so does the start
after a crash between a digest and its mark (`cut`). If one of two such flushes
fails or finds the texts turned off, its rows count no more, a run spends their
budget anew, and the other flush then arrives and marks them as sent: more than
the caps allow. `CapsHold` leaves out rows that two flushes had on their way; it
counts rows, so that a text that arrived although sending it failed, or whose
row a crash kept from being stored, is not counted either.

*Lotto.* `PickedBeforeDraw`: picks are made after the draw when the draws could
not be collected or were read in an earlier week (`LateOnlyIfStale`), contrary to
the head of `cycle.ts`. The design cache (`strategy.ts:325-347`) knows version and spec
only, contrary to lines 20-22; the search may break `fullCover` (433) and bring
excluded numbers back; `normalizeSpec` turns null into 0 and then into the
lower limit (comment 89-94).

*Collections.* Moving a card of YouTube marks a missed time as served. A failed
manual collection of events overwrites the good result of the day, and catch-up
mails again. A good collection of events that passes midnight is noted as a
failure. An answer without items counts as served. Moving cards is refused
during a collection.

*Events.* "코엑스 컨벤션센터" also matches the keyword of 수원컨벤션센터
(`curate.ts:316-329`). A link from the search that is not acceptable drops the
event although its name may match another result. The fallback shows raw links
and no badges. A period "2026-06-24" is split at "-" and gives no date; one
without a year across New Year drops an event that is running or calls it
upcoming (498-546). After a gap, a second run on the same day judges normally.

*YouTube.* A refused move puts the list back that was shown before it
(`YoutubeBoard.tsx:852`), and the status asked for then ends the polling without
a load (comment 572): the page shows the list before the latest. Deleting a
category detaches the array of blocks, reordering that of categories, under a
running collection; watched videos are a copy of its start. Taking back an expired mark answers 404 and rolls the card
back. Undoing the notice leaves a video that was opened again in the queue
(`YoutubeBoard.tsx:747`): the next return marks it.

*Uptime.* `AckCancels`: a text that waits in `notify` goes out although the event
was acknowledged meanwhile (`src/uptime/index.ts:393`).
`RecoveredWasCollected`: a slot is noted as recovered by coverage that was not
a collection. A repeated autopsy past midnight judges a slot afresh; one that
finds another cause records a second event, which tells of the same stretch
once more (`store.ts:393`); a merged gap keeps "told" and
"acknowledged". `PowerEventStands` (`Autopsy`): a power cut while the Mac slept
becomes "sleep, certain", contrary to `store.ts:369-370`. The
sample of the power log does not rebuild the window when a beat fell into the
sleep, when a gap joined the event long after the Mac fell asleep, or when
several boots were noted just before it. A certain gap makes certain an event
whose other gap could only be guessed, and a window that bridges a power cut
joins gaps of two boots: `AccountIsHonest` speaks of events whose gaps were
judged alike and for certain. It speaks of each gap by itself, because what lies
between two that are joined is not looked at: an outage shorter than the least
gap between two intended restarts leaves one event of which the account says
that the Mac stayed on throughout. In an event of several gaps a panic may be
missed, since `mergeEvidence` takes the reports as read if they were for one of
them. A changed clock that moves `kern.boottime` gives a power cut, certain;
"not drained" is claimed whenever any charge is known; a clean shutdown up to
two minutes before the gap makes a power cut a clean reboot.

*Skills.* Stars are saved before anything else can fail. A partial read is
cached as a sample until the next push. A crash between save and mail loses the
mail. A repository whose tree always answers 403 ends the scan each week.

*Settings and schedules.* After the schedule was saved and the settings failed,
reverting the schedule and saving sends nothing (`TabConfigPanel.tsx:153-158`).
A reload in flight when a save's answer arrives overwrites the page's store
(`tabConfigStore.ts:46-73`). A file edited by hand is not followed by the cron
job until a restart or the next save. A stored value equal to a changed default
is dropped by any save. `schedule.json` is written in place.

*Mail.* `DisconnectStands` (`MailAuth`): a disconnect during a refresh is undone
by its end (`google-auth.ts:388`, 443-444). The `finally` of an old refresh
forgets a newer one, and a refresh in flight erases the mark of a 403. The
banner shows the last refresh as the last mail sent (`MailAuthBanner.tsx:49`).

## 7. Not modelled

* **Stock data sources** (SEC filings, the calendar of the exchange, tickers,
  quotes): fetching and parsing without state; the modules that use them let
  each have an answer or none.
* **Database**: each statement's effect is part of the action that runs it;
  SQLite's own atomicity is taken as given. Migrations are not modelled.
* **Server start, configuration, command line**: one path in a fixed order; the
  command line runs one collection by itself.
* **Service, insane-engine**: launchd's restart is the action `Restart`,
  `Crash` or `Boot`; the engine is an outside program the agent may call.
* **Other pages**: they draw what the server answers.
* **Texts**: prompts, mails, messages, status and headings; of the uptime
  report the durations, the journal's layout and the figures on battery and
  load; what makes a skill separable, as a rule on texts (its verdicts are in
  `SkillScan`).
* **Numbers**: prices and their changes, the features and filters of lotto
  numbers, which only shift chances; the rounding of defaults from `.env` that
  are no whole number of minutes (`src/settings/tab-settings.ts:125-128`).
* Of components that are modelled: the price tab of the scheduler, which uses
  no LLM; the search for news and the seeds of YouTube, recommended channels,
  descriptions and dates of videos; the Korean market beside what
  `split = FALSE` covers; changes of the schedule within a stock day; writes of
  files that fail and are only logged; the forms for holdings and categories.
