----------------------------- MODULE TabConfig ------------------------------
(***************************************************************************)
(* The settings of a tab: the file of overrides over the environment       *)
(* (src/src/settings/tab-settings.ts), its routes with the schedule's, the *)
(* one store of a page for both answers (web lib/tabConfigStore.ts), the   *)
(* panel that edits a tab (TabConfigPanel.tsx) and the switch of the       *)
(* overview that saves at once (SettingsOverview.tsx).                     *)
(*                                                                         *)
(* One tab is enough, the one with a schedule, a number and a threshold;   *)
(* the switch belongs to no tab.  The number is the hour at which the      *)
(* quiet time ends, because a cron job is registered for it.  All values   *)
(* are numbers: a threshold is its rank, a switch 0 or 1, Junk what has    *)
(* the wrong type.  Of a schedule only matters whether it is loaded and    *)
(* whether the user has changed it.                                        *)
(***************************************************************************)
EXTENDS Integers, FiniteSets, Functions

CONSTANTS
    Pages,      \* pages of the dashboard that are open
    EnvHours,   \* what the environment may hold for the hour
    MaxSaves,   \* bound: times a panel is opened or the switch is pressed
    MaxFaults   \* bound: changes from outside of the program, and requests or
                \* answers that are lost

ASSUME TabAssumption == EnvHours \subseteq Int /\ {MaxSaves, MaxFaults} \subseteq Nat

VARIABLES
    dotEnv,     \* the hour and the threshold of the environment
    stored,     \* tab-settings.json: the leaves that were changed
    cron,       \* the hour the job that sends the held alerts is registered for
    byHand,     \* the file was edited by hand since the start
    shown,      \* the store of every page
    reload,     \* its request for both answers
    panel,      \* its dialog
    budget

tabVars == <<dotEnv, stored, cron, byHand, shown, reload, panel, budget>>

Junk == -1

Fields == {"hour", "level", "uptime"}
TabFields == {"hour", "level"}
Legal(f) == CASE f = "hour" -> 1 .. 2 [] f = "level" -> 1 .. 2 [] f = "uptime" -> {0, 1}
Important == 2
Larger(a, b) == IF a < b THEN b ELSE a

Clamp(n) == IF n < 1 THEN 1 ELSE IF n > 2 THEN 2 ELSE n

-----------------------------------------------------------------------------
(* The file over the environment *)

DefaultsAsTheyAre == [hour |-> dotEnv.hour, level |-> dotEnv.level, uptime |-> 1]
Defaults == [hour |-> Clamp(dotEnv.hour), level |-> dotEnv.level, uptime |-> 1]

Lenient(f, def, raw) ==
    CASE f = "level" -> IF raw \in Legal(f) THEN raw ELSE Larger(def, Important)
      [] f = "hour" -> IF raw = Junk THEN def ELSE Clamp(raw)
      [] f = "uptime" -> IF raw \in {0, 1} THEN raw ELSE def

MergeOnto(def, file) ==
    [f \in Fields |-> IF f \in DOMAIN file THEN Lenient(f, def[f], file[f]) ELSE def[f]]
Settings == MergeOnto(Defaults, stored)

DiffFromDefaults(next, def) == Restrict(next, {f \in Fields : next[f] # def[f]})

\* The settings in force with the leaves of the request.
NextSettings(patch) == [f \in Fields |-> IF f \in DOMAIN patch THEN patch[f] ELSE Settings[f]]

NoReschedule(before, after) == cron
\* The quiet hours are compared before and after the save.
CronAfter(before, after) == IF before # after THEN after ELSE cron

\* The route: the leaves were found good by the page already, by the same rules.
SaveTabSettings(patch) ==
    /\ \A f \in DOMAIN patch : patch[f] \in Legal(f)
    /\ stored' = DiffFromDefaults(NextSettings(patch), Defaults)
    /\ cron' = CronAfter(Settings.hour, NextSettings(patch).hour)

-----------------------------------------------------------------------------
(* The store of a page *)

NotLoaded == [plan |-> FALSE, sets |-> <<>>]
Quiet == [stage |-> "none", sets |-> <<>>]
Closed == [stage |-> "closed", seed |-> NotLoaded, newPlan |-> FALSE, draft |-> <<>>, answer |-> <<>>]

\* What is not there yet is taken from the store, once.
Filled(d, s) ==
    IF d.stage = "closed" THEN d
    ELSE [d EXCEPT !.seed.plan = @ \/ s.plan, !.seed.sets = IF @ = <<>> THEN s.sets ELSE @]

Shows(p, s, d) ==
    /\ shown' = [shown EXCEPT ![p] = s]
    /\ panel' = [panel EXCEPT ![p] = Filled(d, s)]

\* Several demands make one request.
Reloading(p) == IF reload[p].stage = "none" THEN [Quiet EXCEPT !.stage = "asked"] ELSE reload[p]
reloadTabConfig(p) == reload' = [reload EXCEPT ![p] = Reloading(p)]

Started == budget.saves < MaxSaves /\ budget' = [budget EXCEPT !.saves = @ + 1]
Fault == budget.faults < MaxFaults /\ budget' = [budget EXCEPT !.faults = @ + 1]
settingsVars == <<dotEnv, stored, cron, byHand>>

TabInit ==
    /\ \E h \in EnvHours : dotEnv = [hour |-> h, level |-> 1]
    /\ stored = <<>>
    /\ cron = Clamp(dotEnv.hour) /\ byHand = FALSE
    /\ shown = [p \in Pages |-> NotLoaded]
    /\ reload = [p \in Pages |-> [Quiet EXCEPT !.stage = "asked"]]
    /\ panel = [p \in Pages |-> Closed]
    /\ budget = [saves |-> 0, faults |-> 0]

ReloadRead(p) ==
    /\ reload[p].stage = "asked"
    /\ reload' = [reload EXCEPT ![p] = [stage |-> "read", sets |-> Settings]]
    /\ UNCHANGED <<settingsVars, shown, panel, budget>>

ReloadArrives(p) ==
    /\ reload[p].stage = "read"
    /\ reload' = [reload EXCEPT ![p] = Quiet]
    /\ \/ UNCHANGED budget /\ Shows(p, [plan |-> TRUE, sets |-> reload[p].sets], panel[p])
       \/ Fault /\ \/ Shows(p, [shown[p] EXCEPT !.plan = TRUE], panel[p])
                   \/ Shows(p, [shown[p] EXCEPT !.sets = reload[p].sets], panel[p])
                   \/ UNCHANGED <<shown, panel>>
    /\ UNCHANGED settingsVars

\* The button where nothing could be loaded.
Retry(p) ==
    /\ panel[p].stage = "edit" /\ reload[p].stage = "none"
    /\ ~panel[p].seed.plan \/ panel[p].seed.sets = <<>>
    /\ reloadTabConfig(p)
    /\ UNCHANGED <<settingsVars, shown, panel, budget>>

-----------------------------------------------------------------------------
(* The panel *)

\* The draft starts from what the store holds now; the store is read anew.
OpenPanel(p) ==
    /\ panel[p].stage = "closed" /\ Started
    /\ Shows(p, shown[p], [Closed EXCEPT !.stage = "edit"])
    /\ reloadTabConfig(p)
    /\ UNCHANGED settingsVars

WholePatch(d) == Restrict(d.draft, DOMAIN d.draft \cap TabFields)

\* What was changed in the panel, and nothing else.
buildSettingsPatch(d) ==
    Restrict(d.draft, {f \in DOMAIN d.draft \cap TabFields : d.draft[f] # d.seed.sets[f]})

ChangedSets(d) == DOMAIN buildSettingsPatch(d) # {}

\* What the user has made of a value that was loaded; a number that is typed
\* may be out of range.
Typed(sets, h, l) == [sets EXCEPT !.hour = h, !.level = l]
Drafts(d) ==
    IF d.seed.sets = <<>> THEN {<<>>}
    ELSE {Typed(d.seed.sets, h, l) : h \in Legal("hour") \cup {Junk}, l \in Legal("level")}

Acceptable(sets) == sets # <<>> => sets.hour \in Legal("hour")

\* The user presses save: a bad number ends it with a message, nothing changed
\* closes the panel, and the schedule goes first.
Save(p) ==
    /\ panel[p].stage = "edit"
    /\ panel[p].seed.plan \/ panel[p].seed.sets # <<>>
    /\ \E n \in BOOLEAN, s \in Drafts(panel[p]) :
        LET d == [panel[p] EXCEPT !.newPlan = n, !.draft = s]
        IN  /\ (n => d.seed.plan) /\ Acceptable(s)
            /\ panel' = [panel EXCEPT ![p] = IF n THEN [d EXCEPT !.stage = "putPlan"]
                                             ELSE IF ChangedSets(d) THEN [d EXCEPT !.stage = "putSets"]
                                             ELSE Closed]
    /\ UNCHANGED <<settingsVars, shown, reload, budget>>

Cancel(p) ==
    /\ panel[p].stage = "edit"
    /\ panel' = [panel EXCEPT ![p] = Closed]
    /\ UNCHANGED <<settingsVars, shown, reload, budget>>

\* Every schedule that is saved registers all jobs anew.
PutPlan(p) ==
    /\ panel[p].stage = "putPlan"
    /\ cron' = Settings.hour
    /\ panel' = [panel EXCEPT ![p].stage = "gotPlan"]
    /\ UNCHANGED <<dotEnv, stored, byHand, shown, reload, budget>>

PlanArrives(p) ==
    LET d == panel[p]
    IN  /\ d.stage = "gotPlan"
        /\ Shows(p, [shown[p] EXCEPT !.plan = TRUE],
                 IF ChangedSets(d) THEN [d EXCEPT !.stage = "putSets"] ELSE Closed)
        /\ UNCHANGED <<settingsVars, reload, budget>>

PutSets(p) ==
    /\ panel[p].stage = "putSets"
    /\ SaveTabSettings(buildSettingsPatch(panel[p]))
    /\ panel' = [panel EXCEPT ![p].stage = "gotSets",
                              ![p].answer = MergeOnto(Defaults, stored')]
    /\ UNCHANGED <<dotEnv, byHand, shown, reload, budget>>

SetsArrive(p) ==
    /\ panel[p].stage = "gotSets"
    /\ Shows(p, [shown[p] EXCEPT !.sets = panel[p].answer], Closed)
    /\ UNCHANGED <<settingsVars, reload, budget>>

\* A request or its answer is lost: the message is shown, the store is read
\* anew, and draft and seed stay as they are.
PutFails(p) ==
    /\ panel[p].stage \in {"putPlan", "gotPlan", "putSets", "gotSets"}
    /\ Fault
    /\ panel' = [panel EXCEPT ![p].stage = "edit", ![p].newPlan = FALSE, ![p].draft = <<>>, ![p].answer = <<>>]
    /\ reloadTabConfig(p)
    /\ UNCHANGED <<settingsVars, shown>>

\* The switch of the overview: it saves what it shows turned round.
toggleUptime(p) ==
    /\ panel[p].stage = "closed" /\ shown[p].sets # <<>> /\ Started
    /\ panel' = [panel EXCEPT ![p].stage = "putSwitch",
                              ![p].draft = [f \in {"uptime"} |-> 1 - shown[p].sets[f]]]
    /\ reloadTabConfig(p)
    /\ UNCHANGED <<settingsVars, shown>>

PutSwitch(p) ==
    /\ panel[p].stage = "putSwitch"
    /\ SaveTabSettings(panel[p].draft)
    /\ panel' = [panel EXCEPT ![p] = [Closed EXCEPT !.stage = "gotSwitch",
                                                    !.answer = MergeOnto(Defaults, stored')]]
    /\ UNCHANGED <<dotEnv, byHand, shown, reload, budget>>

SwitchArrives(p) ==
    /\ panel[p].stage = "gotSwitch"
    /\ shown' = [shown EXCEPT ![p].sets = panel[p].answer]
    /\ panel' = [panel EXCEPT ![p] = Closed]
    /\ UNCHANGED <<settingsVars, reload, budget>>

SwitchFails(p) ==
    /\ panel[p].stage \in {"putSwitch", "gotSwitch"} /\ Fault
    /\ panel' = [panel EXCEPT ![p] = Closed]
    /\ UNCHANGED <<settingsVars, shown, reload>>

-----------------------------------------------------------------------------
(* From outside *)

\* The process starts again: its jobs are registered for what it reads.
Restarted(e, file) ==
    /\ dotEnv' = e /\ stored' = file /\ byHand' = FALSE
    /\ cron' = MergeOnto([hour |-> Clamp(e.hour), level |-> e.level, uptime |-> 1], file).hour

ChangeDotEnv ==
    /\ Fault
    /\ \E h \in EnvHours, l \in Legal("level") : Restarted([hour |-> h, level |-> l], stored)
    /\ UNCHANGED <<shown, reload, panel>>

EditSettings ==
    /\ Fault
    /\ \E f \in Fields, v \in {Junk, 0, 3} :
        stored' = [g \in DOMAIN stored \cup {f} |-> IF g = f THEN v ELSE stored[g]]
    /\ byHand' = TRUE
    /\ UNCHANGED <<dotEnv, cron, shown, reload, panel>>

TabNext ==
    \/ \E p \in Pages :
        \/ ReloadRead(p) \/ ReloadArrives(p) \/ Retry(p)
        \/ OpenPanel(p) \/ Save(p) \/ Cancel(p)
        \/ PutPlan(p) \/ PlanArrives(p) \/ PutSets(p) \/ SetsArrive(p) \/ PutFails(p)
        \/ toggleUptime(p) \/ PutSwitch(p) \/ SwitchArrives(p) \/ SwitchFails(p)
    \/ ChangeDotEnv \/ EditSettings

TabSpec == TabInit /\ [][TabNext]_tabVars

-----------------------------------------------------------------------------

\* Whatever the environment and the file hold, what a page starts from and
\* what it offers as default pass the checks of a save: an untouched field
\* never keeps the user from saving another one (defaults, lenientLeaf).
ShownCanBeSaved ==
    /\ \A f \in Fields : Defaults[f] \in Legal(f) /\ Settings[f] \in Legal(f)
    /\ \A p \in Pages : LET seed == panel[p].seed IN seed.sets # <<>> => \A f \in Fields : seed.sets[f] \in Legal(f)

Turns(p) == panel[p].stage = "putSwitch" /\ panel'[p].stage = "gotSwitch"
Edits(p, f) ==
    /\ panel[p].stage = "putSets" /\ panel'[p].stage = "gotSets"
    /\ panel[p].draft[f] # panel[p].seed.sets[f]

\* A setting changes only with the environment, by hand, or by the save of a
\* page whose user changed that very field: a page that has shown old values
\* for long never puts them back (buildSettingsPatch, diffFromDefaults).
NobodyElsesEdit ==
    [][\A f \in Fields : Settings'[f] # Settings[f] =>
            \/ ChangeDotEnv \/ EditSettings
            \/ \E p \in Pages : Edits(p, f) \/ (f = "uptime" /\ Turns(p))]_tabVars

\* The alerts held over the quiet hours go out at the hour that is set, with
\* no restart: the job is registered for it unless the file was edited behind
\* the program's back.
FlushAtQuietEnd == ~byHand => cron = Settings.hour
=============================================================================
