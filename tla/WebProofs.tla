------------------------------ MODULE WebProofs ------------------------------
(***************************************************************************)
(* Proofs about the pages of the web client and what they ask of the       *)
(* server.  Of TabConfig: that no page starts from values a save refuses,  *)
(* that no save changes what its user did not change, and that the held    *)
(* alerts go out at the hour that is set.  Of VideoBoard: that what was    *)
(* excluded while the LLM worked is not in the list that is stored, and    *)
(* that the last word on a video stands.  For any number of pages, saves,  *)
(* requests and faults, whatever the environment and the file hold, and    *)
(* whatever the LLM answers.  Of Schedule, which pages and server share:   *)
(* that the searches find each run, that weeks take turns, and that the    *)
(* lottery keeps out of the draw.                                          *)
(***************************************************************************)
EXTENDS Schedule, TabConfig, VideoBoard, FiniteSetTheorems, TLAPS

\* The settings of a tab that a save accepts, and some leaves of any value.
LegalSettings == {s \in [Fields -> Int] : \A f \in Fields : s[f] \in Legal(f)}
Leaves == UNION {[D -> Int] : D \in SUBSET Fields}

\* What a page holds of the settings: nothing yet, or what the server answered.
Answered == {<<>>} \cup LegalSettings

Seeds == [plan : BOOLEAN, sets : Answered]
PanelStages == {"closed", "edit", "putPlan", "gotPlan", "putSets", "gotSets", "putSwitch", "gotSwitch"}
Panels == [stage : PanelStages, seed : Seeds, newPlan : BOOLEAN, draft : {<<>>} \cup Leaves,
           answer : Answered]
Requests == [stage : {"none", "asked", "read"}, sets : Answered]
Budgets == [saves : Nat, faults : Nat]

ServerOK ==
    /\ dotEnv \in [hour : Int, level : 1 .. 2]
    /\ stored \in Leaves
    /\ cron \in Int /\ byHand \in BOOLEAN

PagesOK ==
    /\ shown \in [Pages -> Seeds]
    /\ reload \in [Pages -> Requests]
    /\ panel \in [Pages -> Panels]
    /\ budget \in Budgets

(***************************************************************************)
(* What a page shows was legal when the server read it; that it still is   *)
(* after the environment or the file has changed needs that the rules are  *)
(* the same for every value the program reads.                             *)
(***************************************************************************)
IInv == ServerOK /\ PagesOK /\ FlushAtQuietEnd

-----------------------------------------------------------------------------
\* Reading is lenient: whatever stands in the file becomes a legal value, and a legal one stays.
LEMMA LenientIsLegal ==
    ASSUME NEW f \in Fields, NEW def \in Legal(f), NEW raw \in Int
    PROVE  Lenient(f, def, raw) \in Legal(f) /\ (raw \in Legal(f) => Lenient(f, def, raw) = raw)
<1>1. CASE f = "level"
  <2>1. def \in 1 .. 2
    BY <1>1 DEF Legal
  <2>2. Lenient(f, def, raw) = IF raw \in Legal(f) THEN raw ELSE Larger(def, Important)
    BY <1>1 DEF Lenient
  <2>3. Larger(def, Important) = 2
    BY <2>1 DEF Larger, Important
  <2>4. Legal(f) = 1 .. 2
    BY <1>1 DEF Legal
  <2>5. QED
    BY <2>2, <2>3, <2>4
<1>2. CASE f = "hour"
  <2>1. Legal(f) = 1 .. 2
    BY <1>2 DEF Legal
  <2>2. Lenient(f, def, raw) = IF raw = Junk THEN def ELSE Clamp(raw)
    BY <1>2 DEF Lenient
  <2>3. Clamp(raw) \in 1 .. 2 /\ (raw \in 1 .. 2 => Clamp(raw) = raw)
    BY DEF Clamp
  <2>4. QED
    BY <2>1, <2>2, <2>3 DEF Junk
<1>3. CASE f = "uptime"
  <2>1. Legal(f) = {0, 1}
    BY <1>3 DEF Legal
  <2>2. Lenient(f, def, raw) = IF raw \in {0, 1} THEN raw ELSE def
    BY <1>3 DEF Lenient
  <2>3. QED
    BY <2>1, <2>2
<1>4. QED
  BY <1>1, <1>2, <1>3 DEF Fields

LEMMA LegalIsInt == \A f \in Fields : Legal(f) \subseteq Int
<1> SUFFICES ASSUME NEW f \in Fields PROVE Legal(f) \subseteq Int
  OBVIOUS
<1>1. Legal("hour") \subseteq Int /\ Legal("level") \subseteq Int /\ Legal("uptime") \subseteq Int
  BY DEF Legal
<1>2. QED
  BY <1>1 DEF Fields

\* The defaults of an environment, whatever hour it gives.
DefaultsOf(e) == [hour |-> Clamp(e.hour), level |-> e.level, uptime |-> 1]

LEMMA DefaultsLegal ==
    ASSUME NEW e \in [hour : Int, level : 1 .. 2]
    PROVE  \A f \in Fields : DefaultsOf(e)[f] \in Legal(f)
<1>1. Clamp(e.hour) \in 1 .. 2 /\ e.level \in 1 .. 2
  BY DEF Clamp
<1>2. DefaultsOf(e)["hour"] \in Legal("hour") /\ DefaultsOf(e)["level"] \in Legal("level")
      /\ DefaultsOf(e)["uptime"] \in Legal("uptime")
  BY <1>1 DEF DefaultsOf, Legal
<1>3. QED
  BY <1>2 DEF Fields

\* The file over legal defaults.
LEMMA MergeIsLegal ==
    ASSUME NEW def, \A f \in Fields : def[f] \in Legal(f), NEW held \in Leaves
    PROVE  /\ MergeOnto(def, held) \in LegalSettings
           /\ \A f \in Fields : f \notin DOMAIN held => MergeOnto(def, held)[f] = def[f]
           /\ \A f \in DOMAIN held : held[f] \in Legal(f) => MergeOnto(def, held)[f] = held[f]
<1>1. PICK D \in SUBSET Fields : held \in [D -> Int]
  BY DEF Leaves
<1>2. DOMAIN held \subseteq Fields /\ \A f \in DOMAIN held : held[f] \in Int
  BY <1>1
<1>3. ASSUME NEW f \in Fields PROVE MergeOnto(def, held)[f] \in Legal(f)
  <2>1. MergeOnto(def, held)[f] = IF f \in DOMAIN held THEN Lenient(f, def[f], held[f]) ELSE def[f]
    BY DEF MergeOnto
  <2>2. QED
    BY <1>2, <2>1, LenientIsLegal
<1>4. MergeOnto(def, held) \in [Fields -> Int]
  <2>1. MergeOnto(def, held) = [f \in Fields |-> MergeOnto(def, held)[f]]
    BY DEF MergeOnto
  <2>2. \A f \in Fields : MergeOnto(def, held)[f] \in Int
    BY <1>3, LegalIsInt
  <2>3. QED
    BY <2>1, <2>2
<1>5. ASSUME NEW f \in DOMAIN held, held[f] \in Legal(f) PROVE MergeOnto(def, held)[f] = held[f]
  <2>1. MergeOnto(def, held)[f] = Lenient(f, def[f], held[f])
    BY <1>2 DEF MergeOnto
  <2>2. QED
    BY <1>2, <1>5, <2>1, LenientIsLegal
<1>6. \A f \in Fields : f \notin DOMAIN held => MergeOnto(def, held)[f] = def[f]
  BY DEF MergeOnto
<1>7. QED
  BY <1>3, <1>4, <1>5, <1>6 DEF LegalSettings

LEMMA SettingsLegal == ServerOK => Settings \in LegalSettings /\ \A f \in Fields : Defaults[f] \in Legal(f)
<1> SUFFICES ASSUME ServerOK PROVE Settings \in LegalSettings /\ \A f \in Fields : Defaults[f] \in Legal(f)
  OBVIOUS
<1>1. dotEnv \in [hour : Int, level : 1 .. 2] /\ stored \in Leaves /\ Defaults = DefaultsOf(dotEnv)
  BY DEF ServerOK, Defaults, DefaultsOf
<1>2. \A f \in Fields : Defaults[f] \in Legal(f)
  BY <1>1, DefaultsLegal
<1>3. QED
  BY <1>1, <1>2, MergeIsLegal DEF Settings

(***************************************************************************)
(* A save: afterwards the settings are what they were, with the leaves of  *)
(* the request, although the file keeps only what differs from the         *)
(* defaults; and the job is registered for the hour they give.             *)
(***************************************************************************)
LEMMA SaveWrites ==
    ASSUME ServerOK, NEW patch, DOMAIN patch \subseteq Fields, SaveTabSettings(patch),
           UNCHANGED <<dotEnv, byHand>>
    PROVE  /\ ServerOK'
           /\ Settings' \in LegalSettings
           /\ MergeOnto(Defaults, stored') = Settings'
           /\ \A f \in Fields : Settings'[f] = IF f \in DOMAIN patch THEN patch[f] ELSE Settings[f]
           /\ FlushAtQuietEnd => FlushAtQuietEnd'
<1> DEFINE next == NextSettings(patch)
           own == {f \in Fields : next[f] # Defaults[f]}
<1>1. Settings \in LegalSettings /\ \A f \in Fields : Defaults[f] \in Legal(f)
  BY SettingsLegal
<1>2. \A f \in Fields : next[f] = IF f \in DOMAIN patch THEN patch[f] ELSE Settings[f]
  BY DEF NextSettings
<1>3. \A f \in Fields : next[f] \in Legal(f) /\ next[f] \in Int
  BY <1>1, <1>2, LegalIsInt DEF SaveTabSettings, LegalSettings
<1>4. stored' = [f \in own |-> next[f]]
  BY DEF SaveTabSettings, DiffFromDefaults, Restrict
<1> HIDE DEF next
<1>5. stored' \in Leaves /\ DOMAIN stored' = own /\ \A f \in own : stored'[f] = next[f]
  <2>1. own \in SUBSET Fields /\ stored' \in [own -> Int]
    BY <1>3, <1>4
  <2>2. QED
    BY <1>4, <2>1 DEF Leaves
<1>6. Settings' = MergeOnto(Defaults, stored')
  BY DEF Settings, Defaults, MergeOnto, Lenient, Legal, Clamp, Larger, Important, Junk
<1>7. Settings' \in LegalSettings
  BY <1>1, <1>5, <1>6, MergeIsLegal
<1>8. ASSUME NEW f \in Fields PROVE Settings'[f] = next[f]
  <2>1. CASE f \in own
    BY <1>1, <1>3, <1>5, <1>6, <2>1, MergeIsLegal
  <2>2. CASE f \notin own
    BY <1>1, <1>5, <1>6, <2>2, MergeIsLegal
  <2>3. QED
    BY <2>1, <2>2
<1>9. cron' = IF Settings.hour # next.hour THEN next.hour ELSE cron
  BY DEF SaveTabSettings, CronAfter, next
<1>10. ServerOK'
  <2>1. next.hour \in Int
    BY <1>3 DEF Fields
  <2>2. QED
    BY <1>5, <1>9, <2>1 DEF ServerOK
<1>11. ASSUME FlushAtQuietEnd PROVE FlushAtQuietEnd'
  <2>1. Settings'["hour"] = next["hour"]
    BY <1>8 DEF Fields
  <2>2. ~byHand => cron' = next.hour
    BY <1>9, <1>11 DEF FlushAtQuietEnd
  <2>3. QED
    BY <2>1, <2>2 DEF FlushAtQuietEnd
<1>12. QED
  BY <1>2, <1>6, <1>7, <1>8, <1>10, <1>11
-----------------------------------------------------------------------------
\* What pages start from.
LEMMA Empties ==
    /\ <<>> \in Answered
    /\ NotLoaded \in Seeds /\ Quiet \in Requests /\ [Quiet EXCEPT !.stage = "asked"] \in Requests
    /\ Closed \in Panels
    /\ [Closed EXCEPT !.stage = "edit"] \in Panels
BY DEF Answered, NotLoaded, Seeds, Quiet, Requests, Closed, Panels, PanelStages

LEMMA FilledType ==
    ASSUME NEW d \in Panels, NEW s \in Seeds
    PROVE  Filled(d, s) \in Panels
<1>1. CASE d.stage = "closed"
  BY <1>1 DEF Filled
<1>2. CASE d.stage # "closed"
  <2> DEFINE seed == [d.seed EXCEPT !.plan = d.seed.plan \/ s.plan,
                                    !.sets = IF d.seed.sets = <<>> THEN s.sets ELSE d.seed.sets]
  <2>0. /\ d = [stage |-> d.stage, seed |-> d.seed, newPlan |-> d.newPlan, draft |-> d.draft, answer |-> d.answer]
        /\ d.seed = [plan |-> d.seed.plan, sets |-> d.seed.sets]
    BY DEF Panels, Seeds
  <2>1. Filled(d, s) = [d EXCEPT !.seed = seed]
    BY <1>2, <2>0 DEF Filled
  <2>2. seed \in Seeds
    BY DEF Panels, Seeds
  <2> HIDE DEF seed
  <2>3. QED
    BY <2>1, <2>2 DEF Panels
<1>3. QED
  BY <1>1, <1>2

LEMMA ShowsType ==
    ASSUME PagesOK, NEW p \in Pages, NEW s \in Seeds, NEW d \in Panels, Shows(p, s, d)
    PROVE  shown' \in [Pages -> Seeds] /\ panel' \in [Pages -> Panels]
<1>1. Filled(d, s) \in Panels
  BY FilledType
<1>2. QED
  BY <1>1 DEF Shows, PagesOK

LEMMA ReloadType ==
    ASSUME PagesOK, NEW p \in Pages, reloadTabConfig(p)
    PROVE  reload' \in [Pages -> Requests]
<1>1. Reloading(p) \in Requests
  BY Empties DEF Reloading, PagesOK
<1>2. QED
  BY <1>1 DEF reloadTabConfig, PagesOK

LEMMA BudgetType == PagesOK /\ (Started \/ Fault) => budget' \in Budgets
BY DEF PagesOK, Started, Fault, Budgets

\* The draft of a panel is what was shown, with what the user typed.
LEMMA DraftType ==
    ASSUME NEW d \in Panels, NEW s \in Drafts(d)
    PROVE  s \in {<<>>} \cup Leaves
<1>1. CASE d.seed.sets = <<>>
  BY <1>1 DEF Drafts
<1>2. CASE d.seed.sets # <<>>
  <2>1. d.seed.sets \in [Fields -> Int]
    BY <1>2 DEF Panels, Seeds, Answered, LegalSettings
  <2>2. PICK h \in Legal("hour") \cup {Junk}, l \in Legal("level") : s = Typed(d.seed.sets, h, l)
    BY <1>2 DEF Drafts
  <2>3. h \in Int /\ l \in Int
    BY LegalIsInt DEF Fields, Junk
  <2>4. s \in [Fields -> Int]
    BY <2>1, <2>2, <2>3 DEF Typed
  <2>5. QED
    BY <2>4 DEF Leaves
<1>3. QED
  BY <1>1, <1>2

-----------------------------------------------------------------------------
\* What is loaded stays legal, in the store, in the requests and in the panels.
LEMMA PagesStep == IInv /\ [TabNext]_tabVars => PagesOK'
<1> SUFFICES ASSUME IInv, [TabNext]_tabVars PROVE PagesOK'
  OBVIOUS
<1> DEFINE SeedsShown == shown' \in [Pages -> Seeds]
           Asked == reload' \in [Pages -> Requests]
           Edited == panel' \in [Pages -> Panels]
           Spent == budget' \in Budgets
<1>a. SeedsShown /\ Asked /\ Edited /\ Spent => PagesOK'
  BY DEF PagesOK
<1>b. /\ PagesOK /\ ServerOK /\ Settings \in LegalSettings
      /\ shown \in [Pages -> Seeds] /\ reload \in [Pages -> Requests]
      /\ panel \in [Pages -> Panels] /\ budget \in Budgets
  BY SettingsLegal DEF IInv, PagesOK
<1>c. /\ UNCHANGED shown => SeedsShown
      /\ UNCHANGED reload => Asked
      /\ UNCHANGED panel => Edited
      /\ UNCHANGED budget => Spent
  BY <1>b
<1>d. Started \/ Fault => Spent
  BY <1>b, BudgetType
<1>e. ASSUME NEW p \in Pages, reloadTabConfig(p) PROVE Asked
  BY <1>b, <1>e, ReloadType
<1>f. ASSUME NEW p \in Pages, NEW s \in Seeds, NEW d \in Panels, Shows(p, s, d) PROVE SeedsShown /\ Edited
  BY <1>b, <1>f, ShowsType
<1> HIDE DEF SeedsShown, Asked, Edited, Spent
<1>1. ASSUME NEW p \in Pages, ReloadRead(p) PROVE PagesOK'
  <2>1. [stage |-> "read", sets |-> Settings] \in Requests
    BY <1>b DEF Requests, Answered
  <2>2. Asked
    BY <1>b, <1>1, <2>1 DEF ReloadRead, Asked
  <2>3. QED
    BY <1>1, <1>a, <1>c, <2>2 DEF ReloadRead
<1>2. ASSUME NEW p \in Pages, ReloadArrives(p) PROVE PagesOK'
  <2>1. Asked
    BY <1>b, <1>2, Empties DEF ReloadArrives, Asked
  <2>2. Spent
    BY <1>2, <1>c, <1>d DEF ReloadArrives
  <2>3. /\ [plan |-> TRUE, sets |-> reload[p].sets] \in Seeds
        /\ [shown[p] EXCEPT !.plan = TRUE] \in Seeds
        /\ [shown[p] EXCEPT !.sets = reload[p].sets] \in Seeds
        /\ panel[p] \in Panels
    BY <1>b DEF Seeds, Requests
  <2>4. SeedsShown /\ Edited
    BY <1>2, <1>c, <1>f, <2>3 DEF ReloadArrives
  <2>5. QED
    BY <1>a, <2>1, <2>2, <2>4
<1>3. ASSUME NEW p \in Pages, Retry(p) PROVE PagesOK'
  BY <1>3, <1>a, <1>c, <1>e DEF Retry
<1>4. ASSUME NEW p \in Pages, OpenPanel(p) PROVE PagesOK'
  <2>1. shown[p] \in Seeds
    BY <1>b
  <2>2. SeedsShown /\ Edited
    BY <1>4, <1>f, <2>1, Empties DEF OpenPanel
  <2>3. QED
    BY <1>4, <1>a, <1>d, <1>e, <2>2 DEF OpenPanel
<1>5. ASSUME NEW p \in Pages, Save(p) PROVE PagesOK'
  <2>1. PICK n \in BOOLEAN, s \in Drafts(panel[p]) :
          LET d == [panel[p] EXCEPT !.newPlan = n, !.draft = s]
          IN  panel' = [panel EXCEPT ![p] = IF n THEN [d EXCEPT !.stage = "putPlan"]
                                            ELSE IF ChangedSets(d) THEN [d EXCEPT !.stage = "putSets"]
                                            ELSE Closed]
    BY <1>5 DEF Save
  <2> DEFINE d == [panel[p] EXCEPT !.newPlan = n, !.draft = s]
  <2>2. d \in Panels
    <3>1. panel[p] \in Panels
      BY <1>b
    <3>2. s \in {<<>>} \cup Leaves
      BY <3>1, DraftType
    <3>3. QED
      BY <3>1, <3>2 DEF Panels
  <2>3. [d EXCEPT !.stage = "putPlan"] \in Panels /\ [d EXCEPT !.stage = "putSets"] \in Panels
    <3> HIDE DEF d
    <3> QED
      BY <2>2 DEF Panels, PanelStages
  <2>4. Edited
    <3>1. panel' = [panel EXCEPT ![p] = IF n THEN [d EXCEPT !.stage = "putPlan"]
                                        ELSE IF ChangedSets(d) THEN [d EXCEPT !.stage = "putSets"]
                                        ELSE Closed]
      BY <2>1
    <3> HIDE DEF d
    <3>2. QED
      BY <1>b, <2>3, <3>1, Empties DEF Edited
  <2>5. QED
    BY <1>5, <1>a, <1>c, <2>4 DEF Save
<1>6. ASSUME NEW p \in Pages, Cancel(p) PROVE PagesOK'
  <2>1. Edited
    BY <1>b, <1>6, Empties DEF Cancel, Edited
  <2>2. QED
    BY <1>6, <1>a, <1>c, <2>1 DEF Cancel
<1>7. ASSUME NEW p \in Pages, PutPlan(p) PROVE PagesOK'
  <2>1. Edited
    BY <1>b, <1>7 DEF PutPlan, Edited, Panels, PanelStages
  <2>2. QED
    BY <1>7, <1>a, <1>c, <2>1 DEF PutPlan
<1>8. ASSUME NEW p \in Pages, PlanArrives(p) PROVE PagesOK'
  <2>1. [shown[p] EXCEPT !.plan = TRUE] \in Seeds
    BY <1>b DEF Seeds
  <2>2. [panel[p] EXCEPT !.stage = "putSets"] \in Panels
    BY <1>b DEF Panels, PanelStages
  <2>3. SeedsShown /\ Edited
    BY <1>8, <1>f, <2>1, <2>2, Empties DEF PlanArrives
  <2>4. QED
    BY <1>8, <1>a, <1>c, <2>3 DEF PlanArrives
<1>9. ASSUME NEW p \in Pages, PutSets(p) PROVE PagesOK'
  <2>1. MergeOnto(Defaults, stored') \in Answered
    <3>1. DOMAIN buildSettingsPatch(panel[p]) \subseteq Fields
      BY DEF buildSettingsPatch, Restrict, TabFields, Fields
    <3>2. QED
      BY <1>b, <1>9, <3>1, SaveWrites DEF PutSets, Answered
  <2>2. Edited
    <3>1. panel' = [panel EXCEPT ![p] = [panel[p] EXCEPT !.stage = "gotSets",
                                                         !.answer = MergeOnto(Defaults, stored')]]
      BY <1>b, <1>9 DEF PutSets, Panels
    <3>2. [panel[p] EXCEPT !.stage = "gotSets", !.answer = MergeOnto(Defaults, stored')] \in Panels
      BY <1>b, <2>1 DEF Panels, PanelStages
    <3>3. QED
      BY <1>b, <3>1, <3>2 DEF Edited
  <2>3. QED
    BY <1>9, <1>a, <1>c, <2>2 DEF PutSets
<1>10. ASSUME NEW p \in Pages, SetsArrive(p) PROVE PagesOK'
  <2>1. [shown[p] EXCEPT !.sets = panel[p].answer] \in Seeds
    BY <1>b DEF Seeds, Panels
  <2>2. SeedsShown /\ Edited
    BY <1>10, <1>f, <2>1, Empties DEF SetsArrive
  <2>3. QED
    BY <1>10, <1>a, <1>c, <2>2 DEF SetsArrive
<1>11. ASSUME NEW p \in Pages, PutFails(p) PROVE PagesOK'
  <2>1. Edited
    <3>1. panel' = [panel EXCEPT ![p] = [panel[p] EXCEPT !.stage = "edit", !.newPlan = FALSE,
                                                         !.draft = <<>>, !.answer = <<>>]]
      BY <1>b, <1>11 DEF PutFails, Panels
    <3>2. [panel[p] EXCEPT !.stage = "edit", !.newPlan = FALSE, !.draft = <<>>, !.answer = <<>>] \in Panels
      BY <1>b DEF Panels, PanelStages, Answered
    <3>3. QED
      BY <1>b, <3>1, <3>2 DEF Edited
  <2>2. QED
    BY <1>11, <1>a, <1>c, <1>d, <1>e, <2>1 DEF PutFails
<1>12. ASSUME NEW p \in Pages, toggleUptime(p) PROVE PagesOK'
  <2> DEFINE turned == [f \in {"uptime"} |-> 1 - shown[p].sets[f]]
  <2>1. turned \in Leaves
    <3>1. shown[p].sets \in LegalSettings
      BY <1>b, <1>12 DEF toggleUptime, Seeds, Answered
    <3>2. shown[p].sets["uptime"] \in Int
      BY <3>1 DEF LegalSettings, Fields
    <3>3. turned \in [{"uptime"} -> Int]
      BY <3>2
    <3>4. QED
      BY <3>3 DEF Leaves, Fields
  <2>2. Edited
    <3>1. panel' = [panel EXCEPT ![p] = [panel[p] EXCEPT !.stage = "putSwitch", !.draft = turned]]
      BY <1>b, <1>12 DEF toggleUptime, Panels
    <3>2. [panel[p] EXCEPT !.stage = "putSwitch", !.draft = turned] \in Panels
      <4> HIDE DEF turned
      <4> QED
        BY <1>b, <2>1 DEF Panels, PanelStages
    <3>3. QED
      BY <1>b, <3>1, <3>2 DEF Edited
  <2>3. QED
    BY <1>12, <1>a, <1>c, <1>d, <1>e, <2>2 DEF toggleUptime
<1>13. ASSUME NEW p \in Pages, PutSwitch(p) PROVE PagesOK'
  <2>1. CASE DOMAIN panel[p].draft \subseteq Fields
    <3>1. MergeOnto(Defaults, stored') \in Answered
      BY <1>b, <1>13, <2>1, SaveWrites DEF PutSwitch, Answered
    <3>2. [Closed EXCEPT !.stage = "gotSwitch", !.answer = MergeOnto(Defaults, stored')] \in Panels
      BY <3>1, Empties DEF Panels, PanelStages
    <3>3. Edited
      BY <1>b, <1>13, <3>2 DEF PutSwitch, Edited
    <3>4. QED
      BY <1>13, <1>a, <1>c, <3>3 DEF PutSwitch
  <2>2. QED
    BY <1>b, <2>1 DEF Panels, Leaves
<1>14. ASSUME NEW p \in Pages, SwitchArrives(p) PROVE PagesOK'
  <2>1. SeedsShown
    BY <1>b, <1>14 DEF SwitchArrives, SeedsShown, Seeds, Panels
  <2>2. Edited
    BY <1>b, <1>14, Empties DEF SwitchArrives, Edited
  <2>3. QED
    BY <1>14, <1>a, <1>c, <2>1, <2>2 DEF SwitchArrives
<1>15. ASSUME NEW p \in Pages, SwitchFails(p) PROVE PagesOK'
  <2>1. Edited
    BY <1>b, <1>15, Empties DEF SwitchFails, Edited
  <2>2. QED
    BY <1>15, <1>a, <1>c, <1>d, <2>1 DEF SwitchFails
<1>16. CASE ChangeDotEnv \/ EditSettings
  BY <1>16, <1>a, <1>c, <1>d DEF ChangeDotEnv, EditSettings
<1>17. CASE UNCHANGED tabVars
  BY <1>17, <1>a, <1>c DEF tabVars
<1>18. QED
  BY <1>1, <1>2, <1>3, <1>4, <1>5, <1>6, <1>7, <1>8, <1>9, <1>10, <1>11, <1>12, <1>13, <1>14,
     <1>15, <1>16, <1>17 DEF TabNext

-----------------------------------------------------------------------------
\* The switch sends the leaf it turns and no other.
SwitchSendsOne == \A p \in Pages : panel[p].stage = "putSwitch" => DOMAIN panel[p].draft = {"uptime"}

\* What an action does to a panel: it leaves the others alone.
LEMMA SwitchPanel ==
    ASSUME SwitchSendsOne, PagesOK, NEW p \in Pages, NEW d, panel' = [panel EXCEPT ![p] = d],
           d.stage = "putSwitch" => DOMAIN d.draft = {"uptime"}
    PROVE  SwitchSendsOne'
<1> SUFFICES ASSUME NEW q \in Pages, panel'[q].stage = "putSwitch" PROVE DOMAIN panel'[q].draft = {"uptime"}
  BY DEF SwitchSendsOne
<1>1. panel'[q] = IF q = p THEN d ELSE panel[q]
  BY DEF PagesOK
<1>2. QED
  BY <1>1 DEF SwitchSendsOne

LEMMA SwitchStep == SwitchSendsOne /\ PagesOK /\ [TabNext]_tabVars => SwitchSendsOne'
<1> SUFFICES ASSUME SwitchSendsOne, PagesOK, [TabNext]_tabVars PROVE SwitchSendsOne'
  OBVIOUS
<1>1. /\ \A p \in Pages : panel[p] = [stage |-> panel[p].stage, seed |-> panel[p].seed,
               newPlan |-> panel[p].newPlan, draft |-> panel[p].draft, answer |-> panel[p].answer]
      /\ DOMAIN panel = Pages
  BY DEF PagesOK, Panels
<1>2. UNCHANGED panel => SwitchSendsOne'
  BY DEF SwitchSendsOne
<1>3. ASSUME NEW p \in Pages, NEW s, Shows(p, s, panel[p]) PROVE SwitchSendsOne'
  <2>1. Filled(panel[p], s).stage = panel[p].stage /\ Filled(panel[p], s).draft = panel[p].draft
    BY <1>1 DEF Filled
  <2>2. QED
    BY <1>3, <2>1, SwitchPanel DEF Shows, SwitchSendsOne
<1>4. ASSUME NEW p \in Pages, NEW s, NEW d \in Panels, Shows(p, s, d), d.stage # "putSwitch"
      PROVE  SwitchSendsOne'
  <2>1. Filled(d, s).stage = d.stage
    BY DEF Filled, Panels
  <2>2. QED
    BY <1>4, <2>1, SwitchPanel DEF Shows
<1>5. ASSUME NEW p \in Pages, NEW d, panel' = [panel EXCEPT ![p] = d], d.stage # "putSwitch"
      PROVE  SwitchSendsOne'
  BY <1>5, SwitchPanel
<1>6. Closed.stage = "closed"
  BY DEF Closed
<1>7. ASSUME NEW p \in Pages, ReloadArrives(p) PROVE SwitchSendsOne'
  BY <1>7, <1>2, <1>3 DEF ReloadArrives
<1>8. ASSUME NEW p \in Pages, OpenPanel(p) PROVE SwitchSendsOne'
  <2>1. [Closed EXCEPT !.stage = "edit"].stage = "edit"
    BY DEF Closed
  <2>2. QED
    BY <1>8, <1>4, <2>1, Empties DEF OpenPanel
<1>9. ASSUME NEW p \in Pages, Save(p) PROVE SwitchSendsOne'
  <2>1. PICK n \in BOOLEAN, s \in Drafts(panel[p]) :
          LET d == [panel[p] EXCEPT !.newPlan = n, !.draft = s]
          IN  panel' = [panel EXCEPT ![p] = IF n THEN [d EXCEPT !.stage = "putPlan"]
                                            ELSE IF ChangedSets(d) THEN [d EXCEPT !.stage = "putSets"]
                                            ELSE Closed]
    BY <1>9 DEF Save
  <2> DEFINE d == [panel[p] EXCEPT !.newPlan = n, !.draft = s]
             e == IF n THEN [d EXCEPT !.stage = "putPlan"]
                  ELSE IF ChangedSets(d) THEN [d EXCEPT !.stage = "putSets"] ELSE Closed
  <2>2. panel' = [panel EXCEPT ![p] = e]
    BY <2>1
  <2>3. [d EXCEPT !.stage = "putPlan"].stage = "putPlan" /\ [d EXCEPT !.stage = "putSets"].stage = "putSets"
    BY <1>1
  <2> HIDE DEF d
  <2>4. e.stage # "putSwitch"
    BY <1>6, <2>3
  <2> HIDE DEF e
  <2>5. QED
    BY <1>5, <2>2, <2>4
<1>10. ASSUME NEW p \in Pages, PutPlan(p) PROVE SwitchSendsOne'
  <2>1. panel' = [panel EXCEPT ![p] = [panel[p] EXCEPT !.stage = "gotPlan"]]
    BY <1>1, <1>10 DEF PutPlan
  <2>2. [panel[p] EXCEPT !.stage = "gotPlan"].stage = "gotPlan"
    BY <1>1
  <2>3. QED
    BY <1>5, <2>1, <2>2
<1>11. ASSUME NEW p \in Pages, PlanArrives(p) PROVE SwitchSendsOne'
  <2> DEFINE e == IF ChangedSets(panel[p]) THEN [panel[p] EXCEPT !.stage = "putSets"] ELSE Closed
  <2>1. [panel[p] EXCEPT !.stage = "putSets"] \in Panels /\ [panel[p] EXCEPT !.stage = "putSets"].stage = "putSets"
    BY DEF PagesOK, Panels, PanelStages
  <2>2. e \in Panels /\ e.stage # "putSwitch"
    BY <1>6, <2>1, Empties
  <2>3. Shows(p, [shown[p] EXCEPT !.plan = TRUE], e)
    BY <1>11 DEF PlanArrives
  <2> HIDE DEF e
  <2>4. QED
    BY <1>4, <2>2, <2>3
<1>12. ASSUME NEW p \in Pages, PutSets(p) PROVE SwitchSendsOne'
  <2> DEFINE a == MergeOnto(Defaults, stored')
  <2>1. panel' = [panel EXCEPT ![p] = [panel[p] EXCEPT !.stage = "gotSets", !.answer = a]]
    BY <1>1, <1>12 DEF PutSets
  <2> HIDE DEF a
  <2>2. [panel[p] EXCEPT !.stage = "gotSets", !.answer = a].stage = "gotSets"
    BY <1>1
  <2>3. QED
    BY <1>5, <2>1, <2>2
<1>13. ASSUME NEW p \in Pages, SetsArrive(p) PROVE SwitchSendsOne'
  BY <1>4, <1>6, <1>13, Empties DEF SetsArrive
<1>14. ASSUME NEW p \in Pages, PutFails(p) PROVE SwitchSendsOne'
  <2>1. panel' = [panel EXCEPT ![p] = [panel[p] EXCEPT !.stage = "edit", !.newPlan = FALSE,
                                                       !.draft = <<>>, !.answer = <<>>]]
    BY <1>1, <1>14 DEF PutFails
  <2>2. [panel[p] EXCEPT !.stage = "edit", !.newPlan = FALSE, !.draft = <<>>, !.answer = <<>>].stage = "edit"
    BY <1>1
  <2>3. QED
    BY <1>5, <2>1, <2>2
<1>15. ASSUME NEW p \in Pages, toggleUptime(p) PROVE SwitchSendsOne'
  <2> DEFINE turned == [f \in {"uptime"} |-> 1 - shown[p].sets[f]]
  <2>1. panel' = [panel EXCEPT ![p] = [panel[p] EXCEPT !.stage = "putSwitch", !.draft = turned]]
    BY <1>1, <1>15 DEF toggleUptime
  <2>2. DOMAIN turned = {"uptime"}
    OBVIOUS
  <2> HIDE DEF turned
  <2>3. DOMAIN [panel[p] EXCEPT !.stage = "putSwitch", !.draft = turned].draft = {"uptime"}
    BY <1>1, <2>2
  <2>4. QED
    BY <2>1, <2>3, SwitchPanel
<1>16. ASSUME NEW p \in Pages, PutSwitch(p) PROVE SwitchSendsOne'
  <2>1. [Closed EXCEPT !.stage = "gotSwitch", !.answer = MergeOnto(Defaults, stored')].stage = "gotSwitch"
    BY DEF Closed
  <2>2. QED
    BY <1>5, <1>16, <2>1 DEF PutSwitch
<1>17. ASSUME NEW p \in Pages, Cancel(p) \/ SwitchArrives(p) \/ SwitchFails(p) PROVE SwitchSendsOne'
  BY <1>5, <1>6, <1>17 DEF Cancel, SwitchArrives, SwitchFails
<1>18. ASSUME NEW p \in Pages, ReloadRead(p) \/ Retry(p) PROVE SwitchSendsOne'
  BY <1>2, <1>18 DEF ReloadRead, Retry
<1>19. CASE ChangeDotEnv \/ EditSettings \/ UNCHANGED tabVars
  BY <1>2, <1>19 DEF ChangeDotEnv, EditSettings, tabVars
<1>20. QED
  BY <1>7, <1>8, <1>9, <1>10, <1>11, <1>12, <1>13, <1>14, <1>15, <1>16, <1>17, <1>18, <1>19 DEF TabNext

-----------------------------------------------------------------------------
\* The steps that leave the server alone.
Local(p) ==
    \/ ReloadRead(p) \/ ReloadArrives(p) \/ Retry(p)
    \/ OpenPanel(p) \/ Save(p) \/ Cancel(p)
    \/ PlanArrives(p) \/ SetsArrive(p) \/ PutFails(p)
    \/ toggleUptime(p) \/ SwitchArrives(p) \/ SwitchFails(p)

LEMMA LocalIsLocal == ASSUME NEW p \in Pages, Local(p) PROVE UNCHANGED settingsVars
BY DEF Local, ReloadRead, ReloadArrives, Retry, OpenPanel, Save, Cancel, PlanArrives, SetsArrive,
       PutFails, toggleUptime, SwitchArrives, SwitchFails

LEMMA SettingsStay == UNCHANGED <<dotEnv, stored>> => Settings' = Settings
BY DEF Settings, Defaults

\* A request of a page names fields of the settings only.
LEMMA PatchFields ==
    /\ \A d : DOMAIN buildSettingsPatch(d) \subseteq Fields
    /\ PagesOK => \A p \in Pages : DOMAIN panel[p].draft \subseteq Fields
<1>1. \A d : DOMAIN buildSettingsPatch(d) \subseteq Fields
  BY DEF buildSettingsPatch, Restrict, TabFields, Fields
<1>2. ASSUME PagesOK, NEW p \in Pages PROVE DOMAIN panel[p].draft \subseteq Fields
  <2>1. panel[p].draft \in {<<>>} \cup Leaves
    BY <1>2 DEF PagesOK, Panels
  <2>2. QED
    BY <2>1 DEF Leaves
<1>3. QED
  BY <1>1, <1>2

\* The process has started again with this environment and this file.
LEMMA RestartServes ==
    ASSUME NEW e \in [hour : Int, level : 1 .. 2], NEW f \in Leaves, Restarted(e, f)
    PROVE  ServerOK' /\ FlushAtQuietEnd'
<1> DEFINE s == MergeOnto(DefaultsOf(e), f)
<1>1. s \in LegalSettings
  BY DefaultsLegal, MergeIsLegal
<1>2. cron' = s.hour /\ dotEnv' = e /\ stored' = f /\ byHand' = FALSE
  BY DEF Restarted, DefaultsOf
<1>3. Settings' = s
  <2>1. Defaults' = DefaultsOf(e)
    BY <1>2 DEF Defaults, DefaultsOf
  <2>2. Settings' = MergeOnto(Defaults', stored')
    BY DEF Settings, Defaults, MergeOnto, Lenient, Legal, Clamp, Larger, Important, Junk
  <2>3. QED
    BY <1>2, <2>1, <2>2
<1>4. s.hour \in Int
  BY <1>1 DEF LegalSettings, Fields
<1> HIDE DEF s
<1>5. QED
  BY <1>2, <1>3, <1>4 DEF ServerOK, FlushAtQuietEnd

LEMMA ServerStep == IInv /\ [TabNext]_tabVars => ServerOK' /\ FlushAtQuietEnd'
<1> SUFFICES ASSUME IInv, [TabNext]_tabVars PROVE ServerOK' /\ FlushAtQuietEnd'
  OBVIOUS
<1>1. ServerOK /\ PagesOK /\ FlushAtQuietEnd /\ Settings \in LegalSettings
  BY SettingsLegal DEF IInv
<1>2. CASE UNCHANGED settingsVars
  BY <1>1, <1>2, SettingsStay DEF settingsVars, ServerOK, FlushAtQuietEnd
<1>3. ASSUME NEW p \in Pages, Local(p) PROVE UNCHANGED settingsVars
  BY <1>3, LocalIsLocal
<1>4. ASSUME NEW p \in Pages, PutPlan(p) PROVE ServerOK' /\ FlushAtQuietEnd'
  <2>1. Settings.hour \in Int
    BY <1>1 DEF LegalSettings, Fields
  <2>2. QED
    BY <1>1, <1>4, <2>1, SettingsStay DEF PutPlan, ServerOK, FlushAtQuietEnd
<1>5. ASSUME NEW p \in Pages, PutSets(p) PROVE ServerOK' /\ FlushAtQuietEnd'
  BY <1>1, <1>5, PatchFields, SaveWrites DEF PutSets
<1>6. ASSUME NEW p \in Pages, PutSwitch(p) PROVE ServerOK' /\ FlushAtQuietEnd'
  BY <1>1, <1>6, PatchFields, SaveWrites DEF PutSwitch
<1>7. CASE ChangeDotEnv
  <2>1. PICK h \in EnvHours, l \in Legal("level") : Restarted([hour |-> h, level |-> l], stored)
    BY <1>7 DEF ChangeDotEnv
  <2>2. [hour |-> h, level |-> l] \in [hour : Int, level : 1 .. 2]
    BY TabAssumption DEF Legal
  <2>3. QED
    BY <1>1, <2>1, <2>2, RestartServes DEF ServerOK
<1>8. CASE EditSettings
  <2>1. PICK f \in Fields, v \in {Junk, 0, 3} :
          stored' = [g \in DOMAIN stored \cup {f} |-> IF g = f THEN v ELSE stored[g]]
    BY <1>8 DEF EditSettings
  <2>2. PICK D \in SUBSET Fields : stored \in [D -> Int]
    BY <1>1 DEF ServerOK, Leaves
  <2>3. v \in Int
    BY DEF Junk
  <2>4. stored' \in [D \cup {f} -> Int] /\ D \cup {f} \in SUBSET Fields
    BY <2>1, <2>2, <2>3
  <2>5. stored' \in Leaves
    BY <2>4 DEF Leaves
  <2>6. QED
    BY <1>1, <1>8, <2>5 DEF EditSettings, ServerOK, FlushAtQuietEnd
<1>9. CASE UNCHANGED tabVars
  BY <1>2, <1>9 DEF tabVars, settingsVars
<1>10. QED
  BY <1>2, <1>3, <1>4, <1>5, <1>6, <1>7, <1>8, <1>9 DEF TabNext, Local

LEMMA InvariantHolds ==
    /\ TabInit => IInv /\ SwitchSendsOne
    /\ (IInv /\ SwitchSendsOne) /\ [TabNext]_tabVars => (IInv /\ SwitchSendsOne)'
<1>1. ASSUME TabInit PROVE IInv /\ SwitchSendsOne
  <2>1. PICK h \in EnvHours : dotEnv = [hour |-> h, level |-> 1]
    BY <1>1 DEF TabInit
  <2>2. dotEnv \in [hour : Int, level : 1 .. 2] /\ cron = Clamp(dotEnv.hour) /\ byHand = FALSE
    BY <1>1, <2>1, TabAssumption DEF TabInit
  <2>3. stored \in Leaves /\ DOMAIN stored = {}
    <3>1. <<>> \in [{} -> Int]
      OBVIOUS
    <3>2. QED
      BY <1>1, <3>1 DEF TabInit, Leaves
  <2>4. cron \in Int
    BY <2>2 DEF Clamp
  <2>5. FlushAtQuietEnd
    <3>1. Settings["hour"] = Defaults["hour"]
      BY <2>3 DEF Settings, MergeOnto, Fields
    <3>2. QED
      BY <2>2, <3>1 DEF FlushAtQuietEnd, Defaults
  <2>6. PagesOK
    BY <1>1, Empties DEF TabInit, PagesOK, Budgets
  <2>7. SwitchSendsOne
    BY <1>1 DEF TabInit, SwitchSendsOne, Closed
  <2>8. QED
    BY <2>2, <2>3, <2>4, <2>5, <2>6, <2>7 DEF IInv, ServerOK
<1>2. ASSUME IInv, SwitchSendsOne, [TabNext]_tabVars PROVE (IInv /\ SwitchSendsOne)'
  BY <1>2, PagesStep, ServerStep, SwitchStep DEF IInv
<1>3. QED
  BY <1>1, <1>2

-----------------------------------------------------------------------------
\* Whatever the environment and the file hold, what a page starts from is accepted by a save.
THEOREM SeedsAreSavable == TabSpec => []ShownCanBeSaved
<1>1. IInv => ShownCanBeSaved
  <2> SUFFICES ASSUME IInv PROVE ShownCanBeSaved
    OBVIOUS
  <2>1. Settings \in LegalSettings /\ \A f \in Fields : Defaults[f] \in Legal(f)
    BY SettingsLegal DEF IInv
  <2>2. ASSUME NEW p \in Pages, panel[p].seed.sets # <<>> PROVE panel[p].seed.sets \in LegalSettings
    BY <2>2 DEF IInv, PagesOK, Panels, Seeds, Answered
  <2>3. QED
    BY <2>1, <2>2 DEF ShownCanBeSaved, LegalSettings
<1>2. QED
  BY <1>1, InvariantHolds, PTL DEF TabSpec

\* The job that sends the held alerts is registered for the hour that is set.
THEOREM HeldAlertsGoOut == TabSpec => []FlushAtQuietEnd
<1>1. IInv => FlushAtQuietEnd
  BY DEF IInv
<1>2. QED
  BY <1>1, InvariantHolds, PTL DEF TabSpec

\* No save puts back a value its user did not touch, however old the page is.
THEOREM OldPagesPutNothingBack == TabSpec => NobodyElsesEdit
<1> DEFINE Step == \A f \in Fields : Settings'[f] # Settings[f] =>
                       \/ ChangeDotEnv \/ EditSettings
                       \/ \E p \in Pages : Edits(p, f) \/ (f = "uptime" /\ Turns(p))
<1>1. IInv /\ SwitchSendsOne /\ [TabNext]_tabVars => [Step]_tabVars
  <2> SUFFICES ASSUME IInv, SwitchSendsOne, [TabNext]_tabVars, NEW f \in Fields, Settings'[f] # Settings[f],
                      ~ChangeDotEnv, ~EditSettings
               PROVE  \E p \in Pages : Edits(p, f) \/ (f = "uptime" /\ Turns(p))
    OBVIOUS
  <2>1. ServerOK /\ PagesOK
    BY DEF IInv
  <2>2. ~UNCHANGED <<dotEnv, stored>>
    BY SettingsStay
  <2>3. \A p \in Pages : ~Local(p) /\ ~PutPlan(p)
    BY <2>2, LocalIsLocal DEF settingsVars, PutPlan
  <2>4. PICK p \in Pages : PutSets(p) \/ PutSwitch(p)
    BY <2>2, <2>3 DEF TabNext, Local, tabVars
  <2>5. CASE PutSets(p)
    <3>1. \A g \in Fields : Settings'[g] = IF g \in DOMAIN buildSettingsPatch(panel[p])
                                           THEN buildSettingsPatch(panel[p])[g] ELSE Settings[g]
      BY <2>1, <2>5, PatchFields, SaveWrites DEF PutSets
    <3>2. f \in DOMAIN buildSettingsPatch(panel[p])
      BY <3>1
    <3>3. panel[p].draft[f] # panel[p].seed.sets[f]
      BY <3>2 DEF buildSettingsPatch, Restrict
    <3>4. panel[p].stage = "putSets" /\ panel'[p].stage = "gotSets"
      BY <2>1, <2>5 DEF PutSets, PagesOK, Panels
    <3>5. QED
      BY <3>3, <3>4 DEF Edits
  <2>6. CASE PutSwitch(p)
    <3>1. \A g \in Fields : Settings'[g] = IF g \in DOMAIN panel[p].draft THEN panel[p].draft[g] ELSE Settings[g]
      BY <2>1, <2>6, PatchFields, SaveWrites DEF PutSwitch
    <3>2. f = "uptime"
      BY <2>6, <3>1 DEF SwitchSendsOne, PutSwitch
    <3>3. panel[p].stage = "putSwitch" /\ panel'[p].stage = "gotSwitch"
      BY <2>1, <2>6 DEF PutSwitch, PagesOK, Closed
    <3>4. QED
      BY <3>2, <3>3 DEF Turns
  <2>7. QED
    BY <2>4, <2>5, <2>6
<1>2. QED
  BY <1>1, InvariantHolds, PTL DEF TabSpec, NobodyElsesEdit

-----------------------------------------------------------------------------
(* The YouTube list.  Of what the user excluded, a collection that waits   *)
(* knows nothing yet; one that filters works with arrays that hold at      *)
(* least what was excluded when the answer came and is so still, and the   *)
(* categories it has gone through hold none of it.                         *)

GoodList == DOMAIN snap = {"source", "no", "place", "moved"}

GoodPins ==
    /\ pinned = [ids |-> pinned.ids, blocks |-> pinned.blocks]
    /\ pinned.ids \subseteq dismissed /\ pinned.blocks \subseteq blocks

GoodDefs ==
    /\ defs \in Seq(Keys)
    /\ job # None => job.defs = None \/ job.defs \in Seq(Keys)

JobFields == {"stage", "defs", "blocks", "dismissed", "watched", "asked", "order", "lists", "left"}

\* A category that was gone through holds nothing that was excluded.
Filtered ==
    \A k \in DOMAIN job.lists \ job.left : \A v \in job.lists[k] :
        v \in Ids => v \notin pinned.ids /\ ~Blocked(pinned.blocks, v, k)

GoodJob ==
    job # None =>
        /\ DOMAIN job = JobFields /\ job.stage \in {"asking", "filtering", "mailing"}
        /\ job.dismissed = None
        /\ pinned.blocks \subseteq JobBlocks
        /\ job.stage = "filtering" =>
              /\ job.order \in Seq(Keys)
              /\ job.lists = [k \in DOMAIN job.lists |-> job.lists[k]]
              /\ DOMAIN job.lists = Range(job.order)
              /\ Filtered

ListInv == GoodList /\ GoodPins /\ GoodDefs /\ GoodJob

-----------------------------------------------------------------------------
(* The page.  What the server will have once it has answered all requests  *)
(* is what the last of them asks for; the page marks by itself only what   *)
(* the user has said nothing of; and a word is lost only with a request    *)
(* that fails, of which the response is still to come.                     *)

Switches == {"mark", "unmark"}
IsSwitch(r) == r.op \in Switches

\* A request is in accord with what the user said of its video.
Agrees(said, r) ==
    \/ said = "nothing"
    \/ said = "watched" /\ r.op = "mark" /\ r.group = {}
    \/ said = "unwatched" /\ r.op = "unmark"

LastOfVideo(reqs, i) == \A j \in DOMAIN reqs : i < j /\ IsSwitch(reqs[j]) => reqs[j].v # reqs[i].v

RequestsAgree(said, reqs) ==
    \A i \in DOMAIN reqs : IsSwitch(reqs[i]) /\ LastOfVideo(reqs, i) => Agrees(said[reqs[i].v], reqs[i])

OnItsWay(v, reqs) == \E i \in DOMAIN reqs : IsSwitch(reqs[i]) /\ reqs[i].v = v

\* A request of the user's, not one of the page's own, has failed.
Takes(r, v) == IsSwitch(r) /\ r.v = v /\ (r.op = "unmark" \/ r.group = {})
Refused(v, answers) == \E i \in DOMAIN answers : Takes(answers[i].req, v) /\ ~answers[i].ok

ServerAgrees(said, reqs, answers, marked) ==
    \A v \in Ids : ~OnItsWay(v, reqs) /\ ~Refused(v, answers) =>
        /\ said[v] = "watched" => v \in marked
        /\ said[v] = "unwatched" => v \notin marked

GoodRequest(r) == r.group \in SUBSET Ids /\ (IsSwitch(r) => r.v \in Ids)

IsSeq(s) == \E S : s \in Seq(S)

PageTypes ==
    /\ IsSeq(up) /\ IsSeq(down)
    /\ word \in [Ids -> {"nothing", "watched", "unwatched"}]
    /\ pending \in SUBSET Ids /\ notice \in (SUBSET Ids) \cup {None}
    /\ \A i \in DOMAIN up : GoodRequest(up[i])
    /\ \A i \in DOMAIN down : GoodRequest(down[i].req)

PageInv ==
    /\ PageTypes
    /\ \A v \in pending : word[v] = "nothing"
    /\ RequestsAgree(word, up)
    /\ ServerAgrees(word, up, down, watched)
-----------------------------------------------------------------------------
\* A set of places in a sequence has a last one and a first one.
LEMMA LastPlace ==
    ASSUME NEW n \in Nat, NEW S \in SUBSET (1 .. n), S # {}
    PROVE  \E x \in S : \A y \in S : y <= x
<1> DEFINE above(x) == {y \in S : x <= y}
           family == {above(x) : x \in S}
<1>1. IsFiniteSet(S) /\ S \subseteq Nat
  <2>1. 1 \in Int /\ n \in Int /\ S \subseteq 1 .. n /\ S \subseteq Nat
    OBVIOUS
  <2>2. QED
    BY <2>1, FS_Interval, FS_Subset
<1>2. family \subseteq FiniteSubsetsOf(S) /\ family # {}
  <2>1. ASSUME NEW x \in S PROVE above(x) \in FiniteSubsetsOf(S)
    <3>1. above(x) \in SUBSET S
      OBVIOUS
    <3>2. QED
      BY <1>1, <3>1, FS_Subset DEF FiniteSubsetsOf
  <2>2. QED
    BY <2>1
<1>3. PICK x \in S : \A y \in S : <<above(y), above(x)>> \notin StrictSubsetOrdering(S)
  <2> HIDE DEF above
  <2>1. \E F \in family : \A G \in family : ~ (<<G, F>> \in StrictSubsetOrdering(S))
    <3> HIDE DEF family
    <3> QED
      BY <1>2, FS_StrictSubsetOrderingWellFounded, WFMin
  <2>2. QED
    BY <2>1
<1>4. ASSUME NEW y \in S PROVE y <= x
  <2> SUFFICES ASSUME x < y PROVE FALSE
    BY <1>1
  <2>1. x \in Nat /\ y \in Nat /\ ~ (y <= x) /\ x <= x /\ \A z \in S : y <= z => x <= z
    BY <1>1
  <2>2. above(y) \subseteq above(x) /\ x \in above(x) /\ x \notin above(y)
    BY <2>1, Zenon
  <2>3. above(y) \in SUBSET S /\ above(x) \in SUBSET S /\ above(y) # above(x)
    BY <2>2
  <2>4. <<above(y), above(x)>> \in StrictSubsetOrdering(S)
    <3> HIDE DEF above
    <3> QED
      BY <2>2, <2>3 DEF StrictSubsetOrdering
  <2>5. QED
    BY <1>3, <2>4
<1>5. QED
  BY <1>4

LEMMA FirstOfPlaces ==
    ASSUME NEW n \in Nat, NEW S \in SUBSET (1 .. n), S # {}
    PROVE  Min(S) \in S
<1> DEFINE turned == {(n + 1) - x : x \in S}
<1>1. turned \in SUBSET (1 .. n) /\ turned # {}
  <2>1. \A x \in S : (n + 1) - x \in 1 .. n
    OBVIOUS
  <2>2. QED
    BY <2>1
<1>2. PICK x \in turned : \A y \in turned : y <= x
  <2> HIDE DEF turned
  <2> QED
    BY <1>1, LastPlace
<1>3. PICK a \in S : x = (n + 1) - a
  BY <1>2
<1>4. ASSUME NEW b \in S PROVE a <= b
  <2>1. (n + 1) - b \in turned
    OBVIOUS
  <2>2. (n + 1) - b <= (n + 1) - a /\ a \in Nat /\ b \in Nat
    BY <1>2, <1>3, <2>1
  <2>3. QED
    BY <2>2
<1>5. QED
  BY <1>4 DEF Min

\* The places that are left keep their order: each is the j-th for one j.
LEMMA NthPlace ==
    ASSUME NEW n \in Nat, NEW rest \in SUBSET (1 .. n)
    PROVE  LET Nth(j) == CHOOSE k \in rest : Cardinality({m \in rest : m <= k}) = j
           IN  /\ Cardinality(rest) \in Nat
               /\ \A j \in 1 .. Cardinality(rest) : Nth(j) \in rest
               /\ \A k \in rest : \E j \in 1 .. Cardinality(rest) : Nth(j) = k
<1> DEFINE upto(k) == {m \in rest : m <= k}
           C == Cardinality(rest)
           rank == [k \in rest |-> Cardinality(upto(k))]
<1>1. IsFiniteSet(rest) /\ rest \subseteq Nat /\ C \in Nat
  <2>1. 1 \in Int /\ n \in Int /\ rest \subseteq 1 .. n /\ rest \subseteq Nat
    OBVIOUS
  <2>2. QED
    BY <2>1, FS_Interval, FS_Subset, FS_CardinalityType
<1>2. IsFiniteSet(1 .. C) /\ Cardinality(1 .. C) = C
  BY <1>1, FS_Interval
<1>3. ASSUME NEW k \in rest
      PROVE  /\ IsFiniteSet(upto(k)) /\ Cardinality(upto(k)) \in 1 .. C
             /\ upto(k) \subseteq rest /\ k \in upto(k)
  <2>1. upto(k) \subseteq rest /\ k \in upto(k)
    BY <1>1
  <2>2. IsFiniteSet(upto(k)) /\ Cardinality(upto(k)) \in Nat /\ Cardinality(upto(k)) <= C
    BY <1>1, <2>1, FS_Subset, FS_CardinalityType
  <2>3. Cardinality(upto(k)) # 0
    BY <2>1, <2>2, FS_EmptySet
  <2>4. QED
    BY <1>1, <2>1, <2>2, <2>3
<1>4. ASSUME NEW k \in rest, NEW l \in rest, k < l PROVE Cardinality(upto(k)) # Cardinality(upto(l))
  <2>1. \A m \in rest : m \in Nat /\ (m <= k => m <= l) /\ l <= l /\ ~ (l <= k)
    BY <1>1, <1>4
  <2>2. upto(k) \subseteq upto(l) /\ l \notin upto(k) /\ l \in upto(l)
    BY <2>1
  <2>3. QED
    BY <1>3, <2>2, FS_Subset
<1>5. \A k, l \in rest : rank[k] = rank[l] => k = l
  <2> SUFFICES ASSUME NEW k \in rest, NEW l \in rest, rank[k] = rank[l], k # l PROVE FALSE
    OBVIOUS
  <2>1. k < l \/ l < k
    BY <1>1
  <2>2. QED
    BY <1>4, <2>1
<1>6. rank \in Surjection(rest, 1 .. C)
  <2>1. rank \in [rest -> 1 .. C]
    BY <1>3
  <2> HIDE DEF rank
  <2>2. rank \in Injection(rest, 1 .. C)
    BY <1>5, <2>1 DEF Injection, IsInjective
  <2>3. QED
    BY <1>1, <1>2, <2>2, FS_Injection
<1>7. \A j \in 1 .. C : \E k \in rest : Cardinality(upto(k)) = j
  BY <1>6 DEF Surjection
<1>8. \A k, l \in rest : Cardinality(upto(k)) = Cardinality(upto(l)) => k = l
  BY <1>5
<1> DEFINE Nth(j) == CHOOSE k \in rest : Cardinality(upto(k)) = j
<1>9. \A j \in 1 .. C : Nth(j) \in rest
  <2> HIDE DEF upto
  <2> QED
    BY <1>7
<1>10. \A k \in rest : Nth(Cardinality(upto(k))) = k
  <2> HIDE DEF upto
  <2> QED
    BY <1>8
<1>11. QED
  BY <1>1, <1>3, <1>9, <1>10

\* Several videos in some order: each is there.
LEMMA InSomeOrder ==
    ASSUME NEW ids \in SUBSET Ids
    PROVE  LET nth == CHOOSE f \in Bijection(1 .. Cardinality(ids), ids) : TRUE
           IN  /\ Cardinality(ids) \in Nat
               /\ \A i \in 1 .. Cardinality(ids) : nth[i] \in ids
               /\ \A v \in ids : \E i \in 1 .. Cardinality(ids) : nth[i] = v
<1>1. IsFiniteSet(ids)
  BY VideosAssumption, FS_Subset
<1>2. Cardinality(ids) \in Nat /\ Bijection(1 .. Cardinality(ids), ids) # {}
  BY <1>1, FS_CardinalityType DEF ExistsBijection
<1>3. (CHOOSE f \in Bijection(1 .. Cardinality(ids), ids) : TRUE) \in Bijection(1 .. Cardinality(ids), ids)
  BY <1>2
<1>4. \A f \in Bijection(1 .. Cardinality(ids), ids) :
         /\ \A i \in 1 .. Cardinality(ids) : f[i] \in ids
         /\ \A v \in ids : \E i \in 1 .. Cardinality(ids) : f[i] = v
  BY DEF Bijection, Surjection
<1>5. QED
  BY <1>2, <1>3, <1>4
-----------------------------------------------------------------------------
listVars == <<defs, blocks, dismissed, snap, job, pinned, runs>>

\* What a step of the page and its server can do to the list and its ledgers.
ListOps ==
    \/ UNCHANGED listVars
    \/ \E v : addDismiss(v)
    \/ \E c, k : addBlock(c, k)
    \/ \E v, to : moveYoutubeVideo(v, to)
    \/ StartCollection \/ Collect \/ CollectionFails
    \/ Allow \/ Arrange
    \/ job' = None /\ pinned' = NoPins /\ UNCHANGED <<store, snap, runs>>

LEMMA ListSteps == [Next]_vars => ListOps
<1> SUFFICES ASSUME [Next]_vars PROVE ListOps
  OBVIOUS
<1>1. UNCHANGED serverVars => UNCHANGED listVars
  BY DEF serverVars, store, listVars
<1>2. CASE User
  <2>1. UNCHANGED serverVars
    BY <1>2 DEF User, ToggleWatched, OpenVideo, DismissVideo, BlockChannel, MoveVideo, Hide, BackAtOnce,
                Back, UndoAutoWatched, NoticeExpires, Refresh
  <2>2. QED
    BY <1>1, <2>1 DEF ListOps
<1>3. CASE Serve
  <2> DEFINE r == Head(up)
  <2>1. \/ UNCHANGED serverVars
        \/ markWatched(r.v) \/ unmarkWatched(r.v) \/ addDismiss(r.v) \/ addBlock(ChannelOf[r.v], r.to)
        \/ moveYoutubeVideo(r.v, r.to) \/ StartCollection
    BY <1>3 DEF Serve
  <2>2. markWatched(r.v) \/ unmarkWatched(r.v) => UNCHANGED listVars
    BY DEF markWatched, unmarkWatched, listVars
  <2> HIDE DEF r
  <2>3. QED
    BY <1>1, <2>1, <2>2 DEF ListOps
<1>4. CASE Receive
  <2>1. UNCHANGED serverVars
    BY <1>4 DEF Receive, ReceiveOne, ReceiveGroup
  <2>2. QED
    BY <1>1, <2>1 DEF ListOps
<1>5. CASE Poll \/ RequestLost \/ (\E i \in DOMAIN down : ResponseLost(i)) \/ UNCHANGED vars
  <2>1. UNCHANGED serverVars
    BY <1>5 DEF Poll, RequestLost, ResponseLost, vars
  <2>2. QED
    BY <1>1, <2>1 DEF ListOps
<1>6. CASE \E v \in Ids : Expired(v)
  <2>1. UNCHANGED listVars
    BY <1>6 DEF Expired, Expire, listVars
  <2>2. QED
    BY <2>1 DEF ListOps
<1>7. CASE Restart
  BY <1>7 DEF Restart, ListOps
<1>8. CASE Dialog
  BY <1>8 DEF Dialog, ListOps
<1>9. CASE Scheduled \/ Works \/ Fails
  BY <1>9 DEF Scheduled, Works, Fails, ListOps
<1>10. QED
  BY <1>2, <1>3, <1>4, <1>5, <1>6, <1>7, <1>8, <1>9 DEF Next

\* Fewer blocks hold less.
LEMMA FewerBlocks ==
    ASSUME NEW few, NEW many, few \subseteq many, NEW v, NEW k, Blocked(few, v, k)
    PROVE  Blocked(many, v, k)
BY DEF Blocked

\* The matcher of the blocks is as it was, or both it and what it must hold lose the same.
LEMMA FewerPins ==
    ASSUME ListInv,
           pinned' = [ids |-> pinned'.ids, blocks |-> pinned'.blocks],
           pinned'.ids \subseteq pinned.ids, pinned'.blocks \subseteq pinned.blocks,
           pinned'.ids \subseteq dismissed', pinned'.blocks \subseteq blocks',
           GoodDefs', snap' = snap,
           job' # None =>
               /\ job # None /\ pinned'.blocks \subseteq JobBlocks'
               /\ DOMAIN job' = JobFields
               /\ \A x \in {"stage", "dismissed", "order", "lists", "left"} : job'[x] = job[x]
    PROVE  ListInv'
<1>1. GoodList' /\ GoodPins'
  BY DEF ListInv, GoodList, GoodPins
<1>2. GoodJob'
  <2> SUFFICES ASSUME job' # None, job # None PROVE GoodJob'
    BY DEF GoodJob
  <2>1. job'.stage = job.stage /\ job'.dismissed = job.dismissed /\ job'.order = job.order
        /\ job'.lists = job.lists /\ job'.left = job.left
    OBVIOUS
  <2>2. ASSUME Filtered PROVE Filtered'
    BY <2>1, <2>2, FewerBlocks DEF Filtered
  <2>3. QED
    BY <2>1, <2>2 DEF ListInv, GoodJob
<1>3. QED
  BY <1>1, <1>2 DEF ListInv

LEMMA AllowStep == ListInv /\ Allow => ListInv'
<1> SUFFICES ASSUME ListInv, Allow PROVE ListInv'
  OBVIOUS
<1>0. pinned = [ids |-> pinned.ids, blocks |-> pinned.blocks]
      /\ pinned.ids \subseteq dismissed /\ pinned.blocks \subseteq blocks
      /\ defs \in Seq(Keys) /\ (job # None => job.defs = None \/ job.defs \in Seq(Keys))
      /\ (job # None => DOMAIN job = JobFields /\ pinned.blocks \subseteq JobBlocks)
  BY DEF ListInv, GoodPins, GoodDefs, GoodJob
<1>1. CASE \E v \in Ids : removeDismiss(v)
  <2>1. PICK v \in Ids : removeDismiss(v)
    BY <1>1
  <2>2. job' = job /\ snap' = snap /\ defs' = defs /\ blocks' = blocks /\ dismissed' = dismissed \ {v}
        /\ pinned' = [ids |-> pinned.ids \ {v}, blocks |-> pinned.blocks]
    BY <1>0, <2>1 DEF removeDismiss
  <2>3. JobBlocks' = JobBlocks /\ GoodDefs'
    BY <1>0, <2>2 DEF JobBlocks, GoodDefs
  <2>4. QED
    BY <1>0, <2>2, <2>3, FewerPins
<1>2. CASE \E x \in blocks : removeBlock(x)
  <2>1. PICK x \in blocks : removeBlock(x)
    BY <1>2
  <2>2. job' = job /\ snap' = snap /\ defs' = defs /\ blocks' = blocks \ {x} /\ dismissed' = dismissed
        /\ pinned' = [ids |-> pinned.ids, blocks |-> pinned.blocks \ {x}]
    BY <1>0, <2>1 DEF removeBlock
  <2>3. (job # None => pinned'.blocks \subseteq JobBlocks') /\ GoodDefs'
    BY <1>0, <2>2 DEF JobBlocks, GoodDefs
  <2>4. QED
    BY <1>0, <2>2, <2>3, FewerPins
<1>3. CASE \E k \in Keys : addCategory(k) \/ updateCategory(k)
  <2>1. job' = job /\ snap' = snap /\ blocks' = blocks /\ dismissed' = dismissed /\ pinned' = pinned
        /\ defs' \in Seq(Keys)
    BY <1>0, <1>3 DEF addCategory, updateCategory
  <2>2. JobBlocks' = JobBlocks /\ GoodDefs'
    BY <1>0, <2>1 DEF JobBlocks, GoodDefs
  <2>3. QED
    BY <1>0, <2>1, <2>2, FewerPins
<1>4. QED
  BY <1>1, <1>2, <1>3 DEF Allow

LEMMA ArrangeStep == ListInv /\ Arrange => ListInv'
<1> SUFFICES ASSUME ListInv, Arrange PROVE ListInv'
  OBVIOUS
<1>0. pinned = [ids |-> pinned.ids, blocks |-> pinned.blocks]
      /\ pinned.ids \subseteq dismissed /\ pinned.blocks \subseteq blocks
      /\ defs \in Seq(Keys) /\ (job # None => job.defs = None \/ job.defs \in Seq(Keys))
      /\ (job # None => DOMAIN job = JobFields /\ pinned.blocks \subseteq JobBlocks)
  BY DEF ListInv, GoodPins, GoodDefs, GoodJob
<1>1. CASE reorderCategories
  <2>1. snap' = snap /\ blocks' = blocks /\ dismissed' = dismissed /\ pinned' = pinned /\ defs' = Reverse(defs)
        /\ job' = IF job # None /\ job.stage = "asking" /\ job.defs = None
                  THEN [job EXCEPT !.defs = defs] ELSE job
    BY <1>1 DEF reorderCategories
  <2>2. defs' \in Seq(Keys)
    BY <1>0, <2>1 DEF Reverse
  <2>3. CASE job' = job
    <3>1. JobBlocks' = JobBlocks /\ GoodDefs'
      BY <1>0, <2>1, <2>2, <2>3 DEF JobBlocks, GoodDefs
    <3>2. QED
      BY <1>0, <2>1, <2>3, <3>1, FewerPins
  <2>4. CASE job # None /\ job' = [job EXCEPT !.defs = defs]
    <3>1. DOMAIN job' = JobFields /\ job'.defs = defs /\ \A x \in JobFields \ {"defs"} : job'[x] = job[x]
      BY <1>0, <2>4 DEF JobFields
    <3>2. JobBlocks' = JobBlocks /\ GoodDefs'
      <4>1. job'.blocks = job.blocks
        BY <3>1 DEF JobFields
      <4>2. QED
        BY <1>0, <2>1, <2>2, <3>1, <4>1 DEF JobBlocks, GoodDefs
    <3>3. \A x \in {"stage", "dismissed", "order", "lists", "left"} : job'[x] = job[x]
      BY <3>1 DEF JobFields
    <3>4. QED
      BY <1>0, <2>1, <2>4, <3>1, <3>2, <3>3, FewerPins
  <2>5. QED
    BY <2>1, <2>3, <2>4
<1>2. CASE \E k \in Keys : deleteCategory(k)
  <2>1. PICK k \in Keys : deleteCategory(k)
    BY <1>2
  <2> DEFINE kept == {b \in blocks : b.key # k}
  <2>2. /\ snap' = snap /\ blocks' = kept /\ dismissed' = dismissed
        /\ pinned' = [pinned EXCEPT !.blocks = @ \intersect kept]
        /\ job' = IF kept # blocks /\ job # None /\ job.stage # "mailing" /\ job.blocks = None
                  THEN [job EXCEPT !.blocks = [list |-> blocks]] ELSE job
        /\ \E i \in DOMAIN defs : defs' = RemoveAt(defs, i)
    BY <2>1 DEF deleteCategory
  <2>3. kept \subseteq blocks
    OBVIOUS
  <2> HIDE DEF kept
  <2>4. defs' \in Seq(Keys)
    <3>1. PICK i \in DOMAIN defs : defs' = RemoveAt(defs, i)
      BY <2>2
    <3>2. SubSeq(defs, 1, i - 1) \in Seq(Keys) /\ SubSeq(defs, i + 1, Len(defs)) \in Seq(Keys)
      BY <1>0
    <3>3. QED
      BY <3>1, <3>2 DEF RemoveAt
  <2>5. pinned' = [ids |-> pinned.ids, blocks |-> pinned.blocks \intersect kept]
    BY <1>0, <2>2
  <2>6. CASE job' = job
    <3>1. (job # None => pinned'.blocks \subseteq JobBlocks') /\ GoodDefs'
      BY <1>0, <2>2, <2>3, <2>4, <2>5, <2>6 DEF JobBlocks, GoodDefs
    <3>2. QED
      BY <1>0, <2>2, <2>3, <2>5, <2>6, <3>1, FewerPins
  <2>7. CASE job # None /\ job' = [job EXCEPT !.blocks = [list |-> blocks]]
    <3>1. DOMAIN job' = JobFields /\ job'.blocks = [list |-> blocks]
          /\ \A x \in JobFields \ {"blocks"} : job'[x] = job[x]
      BY <1>0, <2>7 DEF JobFields
    <3>2. pinned'.blocks \subseteq JobBlocks' /\ GoodDefs'
      <4>1. job'.defs = job.defs
        BY <3>1 DEF JobFields
      <4>2. QED
        BY <1>0, <2>2, <2>3, <2>4, <2>5, <2>7, <3>1, <4>1 DEF JobBlocks, GoodDefs
    <3>3. \A x \in {"stage", "dismissed", "order", "lists", "left"} : job'[x] = job[x]
      BY <3>1 DEF JobFields
    <3>4. QED
      BY <1>0, <2>2, <2>3, <2>5, <2>7, <3>1, <3>2, <3>3, FewerPins
  <2>8. QED
    BY <2>2, <2>6, <2>7
<1>3. QED
  BY <1>1, <1>2 DEF Arrange

\* The answer takes what the matchers hold; a category's filters let none of it through.
LEMMA CollectStep == ListInv /\ Collect => ListInv'
<1> SUFFICES ASSUME ListInv, Collect PROVE ListInv'
  OBVIOUS
<1>0. GoodList /\ GoodPins /\ GoodDefs /\ GoodJob
  BY DEF ListInv
<1>1. CASE Answer
  <2> DEFINE order == JobDefs
  <2>1. PICK lists \in [job.asked -> SUBSET Ids] :
           job' = [job EXCEPT !.stage = "filtering", !.order = order, !.left = Range(order),
                              !.lists = [k \in Range(order) |-> IF k \in job.asked THEN lists[k] ELSE {}]]
    BY <1>1 DEF Answer
  <2>2. job # None /\ pinned' = [ids |-> dismissed, blocks |-> JobBlocks \intersect blocks]
        /\ UNCHANGED <<defs, blocks, dismissed, snap>>
    BY <1>1 DEF Answer, store
  <2>3. order \in Seq(Keys) /\ DOMAIN job = JobFields
    BY <1>0, <2>2 DEF JobDefs, GoodDefs, GoodJob
  <2> HIDE DEF order
  <2> DEFINE mine == [k \in Range(order) |-> IF k \in job.asked THEN lists[k] ELSE {}]
  <2>4. DOMAIN mine = Range(order) /\ mine = [k \in DOMAIN mine |-> mine[k]]
    OBVIOUS
  <2>5. job' = [job EXCEPT !.stage = "filtering", !.order = order, !.left = Range(order), !.lists = mine]
    BY <2>1
  <2> HIDE DEF mine
  <2>6. /\ DOMAIN job' = JobFields /\ job'.stage = "filtering" /\ job'.order = order
        /\ job'.left = Range(order) /\ job'.lists = mine
        /\ job'.dismissed = job.dismissed /\ job'.defs = job.defs /\ job'.blocks = job.blocks
    BY <2>3, <2>5 DEF JobFields
  <2>7. JobBlocks' = JobBlocks
    BY <2>2, <2>6 DEF JobBlocks
  <2>8. GoodList' /\ GoodPins' /\ GoodDefs'
    BY <1>0, <2>2, <2>6 DEF GoodList, GoodPins, GoodDefs
  <2>9. DOMAIN job'.lists \ job'.left = {}
    BY <2>4, <2>6
  <2>10. Filtered'
    BY <2>9 DEF Filtered
  <2>11. GoodJob'
    BY <1>0, <2>2, <2>3, <2>4, <2>6, <2>7, <2>10 DEF GoodJob
  <2>12. QED
    BY <2>8, <2>11 DEF ListInv
<1>2. CASE \E k \in Keys : FilterCategory(k)
  <2>1. PICK k \in Keys : FilterCategory(k)
    BY <1>2
  <2> DEFINE through == {v \in job.lists[k] : /\ ~Blocked(JobBlocks, v, k)
                                              /\ v \notin job.watched
                                              /\ v \notin JobDismissed
                                              /\ ~ForeignIn(v, region[k])}
             mine == [job.lists EXCEPT ![k] = through]
  <2>2. job # None /\ job.stage = "filtering" /\ k \in job.left
        /\ UNCHANGED <<defs, blocks, dismissed, snap, pinned>>
    BY <2>1 DEF FilterCategory, store
  <2>3. job' = [job EXCEPT !.left = @ \ {k}, !.lists = mine]
    BY <2>1 DEF FilterCategory
  <2>4. \A v \in through : v \notin pinned.ids /\ ~Blocked(pinned.blocks, v, k)
    <3>1. JobDismissed = dismissed /\ pinned.ids \subseteq dismissed /\ pinned.blocks \subseteq JobBlocks
      BY <1>0, <2>2 DEF JobDismissed, GoodJob, GoodPins
    <3>2. QED
      BY <3>1, FewerBlocks
  <2> HIDE DEF through
  <2>5. job.lists = [l \in DOMAIN job.lists |-> job.lists[l]] /\ DOMAIN job = JobFields /\ Filtered
        /\ DOMAIN job.lists = Range(job.order)
    BY <1>0, <2>2 DEF GoodJob
  <2>6. DOMAIN mine = DOMAIN job.lists /\ mine = [l \in DOMAIN mine |-> mine[l]]
        /\ \A l \in DOMAIN mine : mine[l] = IF l = k THEN through ELSE job.lists[l]
    BY <2>5
  <2> HIDE DEF mine
  <2>7. /\ DOMAIN job' = JobFields /\ job'.stage = "filtering" /\ job'.order = job.order
        /\ job'.left = job.left \ {k} /\ job'.lists = mine
        /\ job'.dismissed = job.dismissed /\ job'.defs = job.defs /\ job'.blocks = job.blocks
    BY <2>2, <2>3, <2>5 DEF JobFields
  <2>8. JobBlocks' = JobBlocks
    BY <2>2, <2>7 DEF JobBlocks
  <2>9. Filtered'
    <3> SUFFICES ASSUME NEW l \in DOMAIN mine \ (job.left \ {k}), NEW v \in mine[l], v \in Ids
                 PROVE  v \notin pinned.ids /\ ~Blocked(pinned.blocks, v, l)
      BY <2>2, <2>7 DEF Filtered
    <3>1. CASE l = k
      BY <2>4, <2>6, <3>1
    <3>2. CASE l # k
      BY <2>5, <2>6, <3>2 DEF Filtered
    <3>3. QED
      BY <3>1, <3>2
  <2>10. GoodList' /\ GoodPins' /\ GoodDefs'
    BY <1>0, <2>2, <2>7 DEF GoodList, GoodPins, GoodDefs
  <2>11. GoodJob'
    BY <1>0, <2>2, <2>5, <2>6, <2>7, <2>8, <2>9 DEF GoodJob
  <2>12. QED
    BY <2>10, <2>11 DEF ListInv
<1>3. CASE Store
  <2>1. job # None /\ job' = [job EXCEPT !.stage = "mailing", !.lists = <<>>, !.order = <<>>]
        /\ pinned' = NoPins /\ UNCHANGED <<defs, blocks, dismissed>>
        /\ snap' = [source |-> "llm", no |-> runs, place |-> Deduped(job.order, job.lists), moved |-> {}]
    BY <1>3 DEF Store, store
  <2>2. /\ DOMAIN job' = JobFields /\ job'.stage = "mailing"
        /\ job'.dismissed = job.dismissed /\ job'.defs = job.defs /\ job'.blocks = job.blocks
    BY <1>0, <2>1 DEF GoodJob, JobFields
  <2>3. GoodList'
    BY <2>1 DEF GoodList
  <2>4. GoodPins' /\ GoodDefs'
    BY <1>0, <2>1, <2>2 DEF GoodPins, GoodDefs, NoPins
  <2>5. GoodJob'
    BY <1>0, <2>1, <2>2 DEF GoodJob, NoPins
  <2>6. QED
    BY <2>3, <2>4, <2>5 DEF ListInv
<1>4. CASE MailEnds
  <2>1. job' = None /\ UNCHANGED <<defs, blocks, dismissed, snap, pinned>>
    BY <1>4 DEF MailEnds, store
  <2>2. QED
    BY <1>0, <2>1 DEF ListInv, GoodList, GoodPins, GoodDefs, GoodJob
<1>5. QED
  BY <1>1, <1>2, <1>3, <1>4 DEF Collect

LEMMA ListStep == ListInv /\ [Next]_vars => ListInv'
<1> SUFFICES ASSUME ListInv, ListOps PROVE ListInv'
  BY ListSteps
<1>0. GoodList /\ GoodPins /\ GoodDefs /\ GoodJob
  BY DEF ListInv
<1>1. CASE UNCHANGED listVars
  BY <1>0, <1>1 DEF ListInv, GoodList, GoodPins, GoodDefs, GoodJob, JobBlocks, Filtered, listVars
<1>2. CASE (\E v : addDismiss(v)) \/ (\E c, k : addBlock(c, k)) \/ (\E v, to : moveYoutubeVideo(v, to))
  <2>1. UNCHANGED <<defs, job, pinned>> /\ dismissed \subseteq dismissed' /\ blocks \subseteq blocks'
    BY <1>2 DEF addDismiss, addBlock, moveYoutubeVideo, store
  <2>2. DOMAIN snap' = DOMAIN snap
    BY <1>2 DEF addDismiss, addBlock, moveYoutubeVideo
  <2>3. GoodList' /\ GoodPins' /\ GoodDefs'
    BY <1>0, <2>1, <2>2 DEF GoodList, GoodPins, GoodDefs
  <2>4. job # None => pinned'.blocks \subseteq JobBlocks'
    BY <1>0, <2>1 DEF GoodJob, JobBlocks
  <2>5. Filtered' = Filtered
    BY <2>1 DEF Filtered
  <2>6. GoodJob'
    BY <1>0, <2>1, <2>4, <2>5 DEF GoodJob
  <2>7. QED
    BY <2>3, <2>6 DEF ListInv
<1>3. CASE StartCollection
  <2> DEFINE new == [stage |-> "asking", defs |-> None, blocks |-> None, dismissed |-> None,
                     watched |-> watched, asked |-> Range(defs), order |-> <<>>, lists |-> <<>>, left |-> {}]
  <2>1. job' = new /\ UNCHANGED <<defs, blocks, dismissed, snap, pinned>>
    BY <1>3 DEF StartCollection, store
  <2>2. DOMAIN new = JobFields /\ new.stage = "asking" /\ new.dismissed = None
        /\ new.defs = None /\ new.blocks = None
    BY DEF JobFields
  <2> HIDE DEF new
  <2>3. GoodList' /\ GoodPins' /\ GoodDefs'
    BY <1>0, <2>1, <2>2 DEF GoodList, GoodPins, GoodDefs
  <2>4. GoodJob'
    BY <1>0, <2>1, <2>2 DEF GoodPins, GoodJob, JobBlocks
  <2>5. QED
    BY <2>3, <2>4 DEF ListInv
<1>4. CASE CollectionFails
  <2>1. job' = None /\ UNCHANGED <<defs, blocks, dismissed, pinned>> /\ snap' \in {snap, Empty}
    BY <1>4 DEF CollectionFails, store
  <2>2. QED
    BY <1>0, <2>1 DEF ListInv, GoodList, GoodPins, GoodDefs, GoodJob, Empty
<1>5. CASE job' = None /\ pinned' = NoPins /\ UNCHANGED <<store, snap, runs>>
  BY <1>0, <1>5 DEF ListInv, GoodList, GoodPins, GoodDefs, GoodJob, store, NoPins
<1>6. QED
  BY <1>1, <1>2, <1>3, <1>4, <1>5, CollectStep, AllowStep, ArrangeStep DEF ListOps

LEMMA ListInvariant == Spec => []ListInv
<1>1. Init => ListInv
  <2> SUFFICES ASSUME Init PROVE ListInv
    OBVIOUS
  <2>1. defs = FirstDefs /\ job = None /\ pinned = NoPins
        /\ snap = [source |-> "llm", no |-> 0, place |-> FirstPlace, moved |-> {}]
    BY DEF Init, VideosInit
  <2>2. QED
    BY <2>1, VideosAssumption DEF ListInv, GoodList, GoodPins, GoodDefs, GoodJob, NoPins
<1>2. QED
  BY <1>1, ListStep, PTL DEF Spec

\* Of the categories a video is listed for, the first keeps it; it went through that one's filters.
LEMMA StoredAreFiltered ==
    ASSUME ListInv, job # None, job.stage = "filtering", job.left = {},
           NEW v \in Ids, Deduped(job.order, job.lists)[v] # None
    PROVE  /\ v \notin pinned.ids
           /\ ~Blocked(pinned.blocks, v, Deduped(job.order, job.lists)[v])
<1> DEFINE at == {i \in DOMAIN job.order : v \in job.lists[job.order[i]]}
           k == job.order[Min(at)]
<1>1. job.order \in Seq(Keys) /\ DOMAIN job.lists = Range(job.order) /\ Filtered
  BY DEF ListInv, GoodJob
<1>2. Deduped(job.order, job.lists)[v] = IF at = {} THEN None ELSE k
  BY DEF Deduped
<1>3. at # {} /\ Deduped(job.order, job.lists)[v] = k
  BY <1>2
<1>4. at \in SUBSET (1 .. Len(job.order)) /\ Len(job.order) \in Nat
  BY <1>1
<1>5. Min(at) \in at
  <2> HIDE DEF at
  <2> QED
    BY <1>3, <1>4, FirstOfPlaces
<1>6. k \in DOMAIN job.lists \ job.left /\ v \in job.lists[k]
  BY <1>1, <1>5 DEF Range
<1>7. QED
  BY <1>1, <1>3, <1>6 DEF Filtered

\* What the user excluded before the LLM's answer came, and has not allowed since, is not in
\* the list that a collection stores, whatever became of the ledgers' arrays meanwhile.
THEOREM ExclusionsHold == Spec => ExclusionsReachCollection
<1> DEFINE Stored == snap' # snap /\ runs' = runs /\ snap'.moved = {} /\ snap'.source = "llm"
           Holds == \A v \in Ids : snap'.place[v] # None =>
                       /\ v \notin pinned.ids
                       /\ ~Blocked(pinned.blocks, v, snap'.place[v])
<1>1. ListInv /\ [Next]_vars /\ Stored => Holds
  <2> SUFFICES ASSUME ListInv, ListOps, Stored, NEW v \in Ids, snap'.place[v] # None
               PROVE  v \notin pinned.ids /\ ~Blocked(pinned.blocks, v, snap'.place[v])
    BY ListSteps
  <2>1. CASE Store
    <3>1. job # None /\ job.stage = "filtering" /\ job.left = {}
          /\ snap'.place = Deduped(job.order, job.lists)
      BY <2>1 DEF Store
    <3>2. QED
      BY <3>1, StoredAreFiltered
  <2>2. CASE \E u, to : moveYoutubeVideo(u, to)
    <3>1. DOMAIN snap = {"source", "no", "place", "moved"}
      BY DEF ListInv, GoodList
    <3>2. PICK u, to : moveYoutubeVideo(u, to)
      BY <2>2
    <3>3. snap'.moved = snap.moved \cup {u}
      BY <3>1, <3>2 DEF moveYoutubeVideo
    <3>4. QED
      BY <3>3
  <2>3. CASE CollectionFails
    BY <2>3 DEF CollectionFails, Empty
  <2>4. CASE \/ UNCHANGED listVars \/ (\E u : addDismiss(u)) \/ (\E c, k : addBlock(c, k))
             \/ StartCollection \/ (Collect /\ ~Store)
             \/ job' = None /\ pinned' = NoPins /\ UNCHANGED <<store, snap, runs>>
    <3>1. UNCHANGED snap
      BY <2>4 DEF listVars, addDismiss, addBlock, StartCollection, Collect, Answer, FilterCategory, MailEnds
    <3>2. QED
      BY <3>1
  <2>5. CASE Allow \/ Arrange
    <3>1. UNCHANGED snap
      BY <2>5 DEF Allow, Arrange, removeDismiss, removeBlock, addCategory, updateCategory,
                  reorderCategories, deleteCategory
    <3>2. QED
      BY <3>1
  <2>6. QED
    BY <2>1, <2>2, <2>3, <2>4, <2>5 DEF ListOps
<1>2. ListInv /\ [Next]_vars => [Stored => Holds]_serverVars
  BY <1>1
<1>3. QED
  BY <1>2, ListInvariant, PTL DEF Spec, ExclusionsReachCollection
-----------------------------------------------------------------------------
\* One sequence after another.
LEMMA Joined ==
    ASSUME NEW s, IsSeq(s), NEW t, IsSeq(t)
    PROVE  /\ IsSeq(s \o t) /\ Len(s) \in Nat /\ Len(t) \in Nat
           /\ DOMAIN s = 1 .. Len(s) /\ DOMAIN t = 1 .. Len(t)
           /\ DOMAIN (s \o t) = 1 .. (Len(s) + Len(t))
           /\ \A i \in 1 .. Len(s) : (s \o t)[i] = s[i]
           /\ \A i \in 1 .. Len(t) : (s \o t)[Len(s) + i] = t[i]
<1>1. PICK S, T : s \in Seq(S) /\ t \in Seq(T)
  BY DEF IsSeq
<1>2. PICK U : s \in Seq(U) /\ t \in Seq(U)
  <2>1. s \in Seq(S \cup T) /\ t \in Seq(S \cup T)
    BY <1>1
  <2>2. QED
    BY <2>1
<1>3. s \o t \in Seq(U)
  BY <1>2
<1>4. QED
  BY <1>2, <1>3 DEF IsSeq

LEMMA Appended ==
    ASSUME NEW s, IsSeq(s), NEW e
    PROVE  /\ IsSeq(Append(s, e)) /\ Len(s) \in Nat /\ DOMAIN s = 1 .. Len(s)
           /\ DOMAIN Append(s, e) = 1 .. (Len(s) + 1)
           /\ \A i \in 1 .. Len(s) : Append(s, e)[i] = s[i]
           /\ Append(s, e)[Len(s) + 1] = e
<1>1. PICK S : s \in Seq(S)
  BY DEF IsSeq
<1>2. s \in Seq(S \cup {e}) /\ e \in S \cup {e}
  BY <1>1
<1>3. Append(s, e) \in Seq(S \cup {e})
  BY <1>2
<1>4. QED
  BY <1>2, <1>3 DEF IsSeq

LEMMA Tailed ==
    ASSUME NEW s, IsSeq(s), s # <<>>
    PROVE  /\ IsSeq(Tail(s)) /\ Len(s) \in Nat \ {0} /\ DOMAIN s = 1 .. Len(s) /\ Head(s) = s[1]
           /\ DOMAIN Tail(s) = 1 .. (Len(s) - 1)
           /\ \A i \in 1 .. (Len(s) - 1) : Tail(s)[i] = s[i + 1]
<1>1. PICK S : s \in Seq(S)
  BY DEF IsSeq
<1>2. Tail(s) \in Seq(S)
  BY <1>1
<1>3. QED
  BY <1>1, <1>2 DEF IsSeq

LEMMA Short ==
    ASSUME NEW a
    PROVE  /\ IsSeq(<<a>>) /\ DOMAIN <<a>> = {1} /\ <<a>>[1] = a
<1>1. <<a>> \in Seq({a}) /\ Len(<<a>>) = 1 /\ <<a>>[1] = a
  OBVIOUS
<1>2. IsSeq(<<a>>)
  BY <1>1, Zenon DEF IsSeq
<1>3. DOMAIN <<a>> = 1 .. 1
  BY <1>1
<1>4. 1 .. 1 = {1}
  OBVIOUS
<1>5. QED
  BY <1>1, <1>2, <1>3, <1>4, Zenon

-----------------------------------------------------------------------------
\* New requests, of videos of which the user says what they ask for, or nothing.
LEMMA SentAgree ==
    ASSUME NEW said, NEW told, NEW reqs, NEW more, NEW ids, IsSeq(reqs), IsSeq(more),
           RequestsAgree(said, reqs),
           \A i \in DOMAIN reqs : IsSwitch(reqs[i]) => reqs[i].v \in Ids,
           \A i \in DOMAIN more : IsSwitch(more[i]) => more[i].v \in ids /\ Agrees(told[more[i].v], more[i]),
           \A v \in ids : OnItsWay(v, more),
           \A v \in Ids : v \notin ids => told[v] = said[v]
    PROVE  RequestsAgree(told, reqs \o more)
<1> DEFINE all == reqs \o more
           n == Len(reqs)
<1>1. /\ n \in Nat /\ Len(more) \in Nat /\ DOMAIN reqs = 1 .. n /\ DOMAIN more = 1 .. Len(more)
      /\ DOMAIN all = 1 .. (n + Len(more))
      /\ \A i \in 1 .. n : all[i] = reqs[i]
      /\ \A i \in 1 .. Len(more) : all[n + i] = more[i]
  BY Joined
<1> HIDE DEF all, n
<1> SUFFICES ASSUME NEW i \in DOMAIN all, IsSwitch(all[i]), LastOfVideo(all, i)
             PROVE  Agrees(told[all[i].v], all[i])
  BY DEF RequestsAgree, all
<1>2. CASE i \in 1 .. n
  <2>1. all[i] = reqs[i] /\ i \in DOMAIN reqs /\ reqs[i].v \in Ids
    BY <1>1, <1>2
  <2>2. reqs[i].v \notin ids
    <3> SUFFICES ASSUME reqs[i].v \in ids PROVE FALSE
      OBVIOUS
    <3>1. PICK j \in DOMAIN more : IsSwitch(more[j]) /\ more[j].v = reqs[i].v
      BY DEF OnItsWay
    <3>2. n + j \in DOMAIN all /\ i < n + j /\ all[n + j] = more[j]
      BY <1>1, <1>2, <3>1
    <3>3. QED
      BY <2>1, <3>1, <3>2 DEF LastOfVideo
  <2>3. LastOfVideo(reqs, i)
    <3>1. \A j \in DOMAIN reqs : j \in DOMAIN all /\ all[j] = reqs[j]
      BY <1>1
    <3>2. QED
      BY <2>1, <3>1 DEF LastOfVideo
  <2>4. QED
    BY <2>1, <2>2, <2>3 DEF RequestsAgree
<1>3. CASE i \notin 1 .. n
  <2>1. i - n \in DOMAIN more /\ all[i] = more[i - n]
    BY <1>1, <1>3
  <2>2. QED
    BY <2>1
<1>4. QED
  BY <1>2, <1>3

LEMMA SentServer ==
    ASSUME NEW said, NEW told, NEW reqs, NEW more, NEW ids, NEW answers, NEW marked,
           IsSeq(reqs), IsSeq(more),
           ServerAgrees(said, reqs, answers, marked),
           \A v \in ids : OnItsWay(v, more),
           \A v \in Ids : v \notin ids => told[v] = said[v]
    PROVE  ServerAgrees(told, reqs \o more, answers, marked)
<1> DEFINE all == reqs \o more
           n == Len(reqs)
<1>1. /\ n \in Nat /\ Len(more) \in Nat /\ DOMAIN reqs = 1 .. n /\ DOMAIN more = 1 .. Len(more)
      /\ DOMAIN all = 1 .. (n + Len(more))
      /\ \A i \in 1 .. n : all[i] = reqs[i]
      /\ \A i \in 1 .. Len(more) : all[n + i] = more[i]
  BY Joined
<1> HIDE DEF all, n
<1>2. ASSUME NEW v, OnItsWay(v, reqs) PROVE OnItsWay(v, all)
  <2>1. \A j \in DOMAIN reqs : j \in DOMAIN all /\ all[j] = reqs[j]
    BY <1>1
  <2>2. QED
    BY <1>2, <2>1 DEF OnItsWay
<1>3. ASSUME NEW v, OnItsWay(v, more) PROVE OnItsWay(v, all)
  <2>1. \A j \in DOMAIN more : n + j \in DOMAIN all /\ all[n + j] = more[j]
    BY <1>1
  <2>2. QED
    BY <1>3, <2>1 DEF OnItsWay
<1>4. QED
  BY <1>2, <1>3 DEF ServerAgrees, all

\* A word that is taken back, and no other, lets everything stand.
LEMMA TakenBackAgree ==
    ASSUME NEW said, NEW told, NEW reqs, RequestsAgree(said, reqs),
           \A i \in DOMAIN reqs : IsSwitch(reqs[i]) => reqs[i].v \in Ids,
           \A v \in Ids : told[v] = said[v] \/ told[v] = "nothing"
    PROVE  RequestsAgree(told, reqs)
BY DEF RequestsAgree, Agrees

\* The first request has been dealt with.
LEMMA ServedAgree ==
    ASSUME NEW said, NEW reqs, IsSeq(reqs), reqs # <<>>, RequestsAgree(said, reqs)
    PROVE  /\ RequestsAgree(said, Tail(reqs))
           /\ \A v : OnItsWay(v, reqs) => OnItsWay(v, Tail(reqs)) \/ (IsSwitch(Head(reqs)) /\ Head(reqs).v = v)
           /\ IsSwitch(Head(reqs)) => \/ OnItsWay(Head(reqs).v, Tail(reqs))
                                      \/ Agrees(said[Head(reqs).v], Head(reqs))
<1> DEFINE n == Len(reqs)
           rest == Tail(reqs)
<1>1. /\ n \in Nat \ {0} /\ DOMAIN reqs = 1 .. n /\ Head(reqs) = reqs[1]
      /\ DOMAIN rest = 1 .. (n - 1) /\ \A i \in 1 .. (n - 1) : rest[i] = reqs[i + 1]
  BY Tailed
<1> HIDE DEF n, rest
<1>2. \A i \in DOMAIN rest : i + 1 \in DOMAIN reqs /\ rest[i] = reqs[i + 1]
  BY <1>1
<1>3. \A j \in DOMAIN reqs : j = 1 \/ (j - 1 \in DOMAIN rest /\ rest[j - 1] = reqs[j])
  BY <1>1
<1>4. RequestsAgree(said, rest)
  <2> SUFFICES ASSUME NEW i \in DOMAIN rest, IsSwitch(rest[i]), LastOfVideo(rest, i)
               PROVE  Agrees(said[rest[i].v], rest[i])
    BY DEF RequestsAgree
  <2>1. LastOfVideo(reqs, i + 1)
    <3> SUFFICES ASSUME NEW j \in DOMAIN reqs, i + 1 < j, IsSwitch(reqs[j]) PROVE reqs[j].v # reqs[i + 1].v
      BY DEF LastOfVideo
    <3>1. j - 1 \in DOMAIN rest /\ rest[j - 1] = reqs[j] /\ i < j - 1
      BY <1>1, <1>3
    <3>2. QED
      BY <1>2, <3>1 DEF LastOfVideo
  <2>2. QED
    BY <1>2, <2>1 DEF RequestsAgree
<1>5. ASSUME NEW v, OnItsWay(v, reqs), ~OnItsWay(v, rest) PROVE IsSwitch(reqs[1]) /\ reqs[1].v = v
  <2>1. PICK j \in DOMAIN reqs : IsSwitch(reqs[j]) /\ reqs[j].v = v
    BY <1>5 DEF OnItsWay
  <2>2. j = 1
    BY <1>3, <1>5, <2>1 DEF OnItsWay
  <2>3. QED
    BY <2>1, <2>2
<1>6. ASSUME IsSwitch(reqs[1]), ~OnItsWay(reqs[1].v, rest) PROVE Agrees(said[reqs[1].v], reqs[1])
  <2>1. LastOfVideo(reqs, 1)
    <3> SUFFICES ASSUME NEW j \in DOMAIN reqs, 1 < j, IsSwitch(reqs[j]) PROVE reqs[j].v # reqs[1].v
      BY DEF LastOfVideo
    <3>1. j - 1 \in DOMAIN rest /\ rest[j - 1] = reqs[j]
      BY <1>1, <1>3
    <3>2. QED
      BY <1>6, <3>1 DEF OnItsWay
  <2>2. 1 \in DOMAIN reqs
    BY <1>1
  <2>3. QED
    BY <1>6, <2>1, <2>2 DEF RequestsAgree
<1>7. QED
  BY <1>1, <1>4, <1>5, <1>6 DEF rest

-----------------------------------------------------------------------------
\* Nothing is asked of the server, and no word is spoken; some may be taken back.
LEMMA NothingSaid ==
    ASSUME PageInv, IsSeq(down'),
           \/ up' = up
           \/ \E r : ~IsSwitch(r) /\ r.group \in SUBSET Ids /\ up' = up \o <<r>>,
           word' \in [Ids -> {"nothing", "watched", "unwatched"}],
           \A v \in Ids : word'[v] = word[v] \/ word'[v] = "nothing",
           \A v \in Ids : word'[v] # "nothing" => (v \in watched' <=> v \in watched),
           \A i \in DOMAIN down' : GoodRequest(down'[i].req),
           \A v \in Ids : Refused(v, down) /\ ~Refused(v, down') => word'[v] = "nothing",
           notice' \in (SUBSET Ids) \cup {None},
           pending' \in SUBSET Ids, \A v \in pending' : word'[v] = "nothing"
    PROVE  PageInv'
<1>0. IsSeq(up) /\ (\A i \in DOMAIN up : GoodRequest(up[i])) /\ RequestsAgree(word, up)
      /\ ServerAgrees(word, up, down, watched)
  BY DEF PageInv, PageTypes
<1>1. RequestsAgree(word', up) /\ ServerAgrees(word', up, down', watched')
  <2>1. RequestsAgree(word', up)
    <3>1. \A i \in DOMAIN up : IsSwitch(up[i]) => up[i].v \in Ids
      BY <1>0 DEF GoodRequest
    <3> DEFINE told == word'
    <3>2. \A v \in Ids : told[v] = word[v] \/ told[v] = "nothing"
      OBVIOUS
    <3> HIDE DEF told
    <3>3. RequestsAgree(told, up)
      BY <1>0, <3>1, <3>2, TakenBackAgree
    <3>4. QED
      BY <3>3 DEF told
  <2>2. ServerAgrees(word', up, down', watched')
    <3> SUFFICES ASSUME NEW v \in Ids, ~OnItsWay(v, up), ~Refused(v, down')
                 PROVE  (word'[v] = "watched" => v \in watched') /\ (word'[v] = "unwatched" => v \notin watched')
      BY DEF ServerAgrees
    <3>1. CASE word'[v] = "nothing"
      BY <3>1
    <3>2. CASE word'[v] # "nothing"
      <4>1. word'[v] = word[v] /\ ~Refused(v, down) /\ (v \in watched' <=> v \in watched)
        BY <3>2
      <4>2. QED
        BY <1>0, <4>1 DEF ServerAgrees
    <3>3. QED
      BY <3>1, <3>2
  <2>3. QED
    BY <2>1, <2>2
<1>2. IsSeq(up') /\ (\A i \in DOMAIN up' : GoodRequest(up'[i])) /\ RequestsAgree(word', up')
      /\ ServerAgrees(word', up', down', watched')
  <2>1. CASE up' = up
    BY <1>0, <1>1, <2>1
  <2>2. CASE \E r : ~IsSwitch(r) /\ r.group \in SUBSET Ids /\ up' = up \o <<r>>
    <3>1. PICK r : ~IsSwitch(r) /\ r.group \in SUBSET Ids /\ up' = up \o <<r>>
      BY <2>2
    <3> DEFINE more == <<r>>
               told == word'
               marked == watched'
               answers == down'
               none == {}
    <3>2. IsSeq(more) /\ DOMAIN more = {1} /\ more[1] = r
      BY Short
    <3>3. up' = up \o more
      BY <3>1
    <3> HIDE DEF more, told, marked, answers, none
    <3>4. \A i \in DOMAIN more : IsSwitch(more[i]) => more[i].v \in none /\ Agrees(told[more[i].v], more[i])
      BY <3>1, <3>2
    <3>5. (\A v \in none : OnItsWay(v, more)) /\ \A v \in Ids : v \notin none => told[v] = told[v]
      BY DEF none
    <3>6. \A i \in DOMAIN up : IsSwitch(up[i]) => up[i].v \in Ids
      BY <1>0 DEF GoodRequest
    <3>7. RequestsAgree(told, up) /\ ServerAgrees(told, up, answers, marked)
      BY <1>1 DEF told, marked, answers
    <3>8. RequestsAgree(told, up \o more)
      BY <1>0, <3>2, <3>4, <3>5, <3>6, <3>7, SentAgree
    <3>9. ServerAgrees(told, up \o more, answers, marked)
      BY <1>0, <3>2, <3>5, <3>7, SentServer
    <3>10. IsSeq(up') /\ \A i \in DOMAIN up' : GoodRequest(up'[i])
      <4>1. /\ IsSeq(up \o more) /\ Len(up) \in Nat /\ Len(more) \in Nat
            /\ DOMAIN up = 1 .. Len(up) /\ DOMAIN more = 1 .. Len(more)
            /\ DOMAIN (up \o more) = 1 .. (Len(up) + Len(more))
            /\ \A i \in 1 .. Len(up) : (up \o more)[i] = up[i]
            /\ \A i \in 1 .. Len(more) : (up \o more)[Len(up) + i] = more[i]
        BY <1>0, <3>2, Joined
      <4>2. \A i \in DOMAIN more : GoodRequest(more[i])
        BY <3>1, <3>2 DEF GoodRequest
      <4>3. \A i \in DOMAIN (up \o more) : i \in DOMAIN up \/ i - Len(up) \in DOMAIN more
        BY <4>1
      <4>4. \A i \in DOMAIN (up \o more) : i \in DOMAIN up \/ (up \o more)[i] = more[i - Len(up)]
        BY <4>1, <4>3
      <4>5. QED
        BY <1>0, <3>3, <4>1, <4>2, <4>3, <4>4
    <3>11. QED
      BY <3>3, <3>8, <3>9, <3>10 DEF told, marked, answers
  <2>3. QED
    BY <2>1, <2>2
<1>3. QED
  BY <1>2 DEF PageInv, PageTypes

\* The server has answered the first request, or the request has failed.
LEMMA Handled ==
    ASSUME PageInv, up # <<>>, up' = Tail(up), word' = word, pending' = pending, notice' = notice,
           NEW ok, NEW body, down' = Append(down, Reply(Head(up), ok, body)),
           \A v \in Ids : ~(IsSwitch(Head(up)) /\ Head(up).v = v) => (v \in watched' <=> v \in watched),
           \/ ~ok /\ watched' = watched
           \/ Head(up).op = "mark" /\ Head(up).v \in watched'
           \/ Head(up).op = "unmark" /\ Head(up).v \notin watched'
           \/ ~IsSwitch(Head(up))
    PROVE  PageInv'
<1> DEFINE first == Head(up)
           d == Reply(first, ok, body)
<1>0. IsSeq(up) /\ (\A i \in DOMAIN up : GoodRequest(up[i])) /\ RequestsAgree(word, up)
      /\ ServerAgrees(word, up, down, watched) /\ IsSeq(down) /\ \A i \in DOMAIN down : GoodRequest(down[i].req)
  BY DEF PageInv, PageTypes
<1>1. /\ IsSeq(Tail(up)) /\ Len(up) \in Nat \ {0} /\ DOMAIN up = 1 .. Len(up) /\ Head(up) = up[1]
      /\ DOMAIN Tail(up) = 1 .. (Len(up) - 1)
      /\ \A i \in 1 .. (Len(up) - 1) : Tail(up)[i] = up[i + 1]
  BY <1>0, Tailed
<1>2. \A i \in DOMAIN Tail(up) : i + 1 \in DOMAIN up /\ Tail(up)[i] = up[i + 1]
  BY <1>1
<1>3. IsSeq(up') /\ (\A i \in DOMAIN up' : GoodRequest(up'[i])) /\ GoodRequest(first)
  <2>1. 1 \in DOMAIN up
    BY <1>1
  <2>2. QED
    BY <1>0, <1>1, <1>2, <2>1
<1>4. /\ IsSeq(down') /\ Len(down) \in Nat /\ DOMAIN down = 1 .. Len(down)
      /\ DOMAIN down' = 1 .. (Len(down) + 1)
      /\ \A i \in 1 .. Len(down) : down'[i] = down[i]
      /\ down'[Len(down) + 1] = d
  <2> HIDE DEF d
  <2>1. down' = Append(down, d)
    BY DEF d
  <2>2. QED
    BY <1>0, <2>1, Appended
<1>5. d.req = first /\ d.ok = ok
  BY DEF Reply
<1>6. \A i \in DOMAIN down' : GoodRequest(down'[i].req)
  <2>1. \A i \in DOMAIN down' : i \in DOMAIN down \/ i = Len(down) + 1
    BY <1>4
  <2>2. QED
    BY <1>0, <1>3, <1>4, <1>5, <2>1
<1>7. Len(down) + 1 \in DOMAIN down' /\ \A i \in DOMAIN down : i \in DOMAIN down'
  BY <1>4
<1>8. \A v : Refused(v, down) => Refused(v, down')
  BY <1>4, <1>7 DEF Refused
<1>9. /\ RequestsAgree(word, Tail(up))
      /\ \A v : OnItsWay(v, up) => OnItsWay(v, Tail(up)) \/ (IsSwitch(first) /\ first.v = v)
      /\ IsSwitch(first) => OnItsWay(first.v, Tail(up)) \/ Agrees(word[first.v], first)
  BY <1>0, ServedAgree
<1>10. ServerAgrees(word, up', down', watched')
  <2> SUFFICES ASSUME NEW v \in Ids, ~OnItsWay(v, Tail(up)), ~Refused(v, down')
               PROVE  (word[v] = "watched" => v \in watched') /\ (word[v] = "unwatched" => v \notin watched')
    BY DEF ServerAgrees
  <2>1. CASE ~(IsSwitch(first) /\ first.v = v)
    <3>1. ~OnItsWay(v, up) /\ ~Refused(v, down) /\ (v \in watched' <=> v \in watched)
      BY <1>8, <1>9, <2>1
    <3>2. QED
      BY <1>0, <3>1 DEF ServerAgrees
  <2>2. CASE IsSwitch(first) /\ first.v = v
    <3>1. Agrees(word[v], first)
      BY <1>9, <2>2
    <3>2. CASE ~ok
      <4>1. ~Takes(first, v)
        BY <1>4, <1>5, <1>7, <3>2 DEF Refused
      <4>2. word[v] = "nothing"
        BY <2>2, <3>1, <4>1 DEF Agrees, Takes
      <4>3. QED
        BY <4>2
    <3>3. CASE first.op = "mark" /\ v \in watched'
      BY <3>1, <3>3 DEF Agrees
    <3>4. CASE first.op = "unmark" /\ v \notin watched'
      BY <3>1, <3>4 DEF Agrees
    <3>5. QED
      BY <2>2, <3>2, <3>3, <3>4
  <2>3. QED
    BY <2>1, <2>2
<1>11. PageTypes'
  BY <1>3, <1>4, <1>6 DEF PageInv, PageTypes
<1>12. QED
  BY <1>9, <1>10, <1>11 DEF PageInv

\* The user, or the page by itself, asks for videos to be marked or not.
LEMMA SwitchSent ==
    ASSUME PageInv, NEW more, NEW ids \in SUBSET Ids, IsSeq(more), up' = up \o more,
           down' = down, watched' = watched,
           word' \in [Ids -> {"nothing", "watched", "unwatched"}],
           \A i \in DOMAIN more :
               more[i].v \in ids /\ more[i].group \in SUBSET Ids /\ Agrees(word'[more[i].v], more[i]),
           \A v \in ids : OnItsWay(v, more),
           \A v \in Ids : v \notin ids => word'[v] = word[v],
           notice' \in (SUBSET Ids) \cup {None},
           pending' \in SUBSET Ids, \A v \in pending' : word'[v] = "nothing"
    PROVE  PageInv'
<1> DEFINE told == word'
<1>0. IsSeq(up) /\ (\A i \in DOMAIN up : GoodRequest(up[i])) /\ RequestsAgree(word, up)
      /\ ServerAgrees(word, up, down, watched) /\ IsSeq(down) /\ \A i \in DOMAIN down : GoodRequest(down[i].req)
  BY DEF PageInv, PageTypes
<1>1. \A i \in DOMAIN more : IsSwitch(more[i]) => more[i].v \in ids /\ Agrees(told[more[i].v], more[i])
  OBVIOUS
<1>2. \A v \in Ids : v \notin ids => told[v] = word[v]
  OBVIOUS
<1> HIDE DEF told
<1>3. \A i \in DOMAIN up : IsSwitch(up[i]) => up[i].v \in Ids
  BY <1>0 DEF GoodRequest
<1>4. RequestsAgree(told, up \o more) /\ ServerAgrees(told, up \o more, down, watched)
  BY <1>0, <1>1, <1>2, <1>3, SentAgree, SentServer
<1>5. /\ IsSeq(up \o more) /\ Len(up) \in Nat /\ Len(more) \in Nat
      /\ DOMAIN up = 1 .. Len(up) /\ DOMAIN more = 1 .. Len(more)
      /\ DOMAIN (up \o more) = 1 .. (Len(up) + Len(more))
      /\ \A i \in 1 .. Len(up) : (up \o more)[i] = up[i]
      /\ \A i \in 1 .. Len(more) : (up \o more)[Len(up) + i] = more[i]
  BY <1>0, Joined
<1>6. \A i \in DOMAIN more : GoodRequest(more[i])
  BY DEF GoodRequest
<1>7. \A i \in DOMAIN (up \o more) :
          (i \in DOMAIN up /\ (up \o more)[i] = up[i])
          \/ (i - Len(up) \in DOMAIN more /\ (up \o more)[i] = more[i - Len(up)])
  BY <1>5
<1>8. IsSeq(up') /\ \A i \in DOMAIN up' : GoodRequest(up'[i])
  BY <1>0, <1>5, <1>6, <1>7
<1>9. PageTypes'
  BY <1>0, <1>8 DEF PageTypes
<1>10. QED
  BY <1>4, <1>9 DEF PageInv, told

LEMMA GroupIs ==
    ASSUME NEW op, NEW ids \in SUBSET Ids
    PROVE  /\ IsSeq(Group(op, ids))
           /\ \A i \in DOMAIN Group(op, ids) :
                 Group(op, ids)[i].op = op /\ Group(op, ids)[i].v \in ids /\ Group(op, ids)[i].group = ids
           /\ \A v \in ids : \E i \in DOMAIN Group(op, ids) : Group(op, ids)[i].v = v
<1> DEFINE nth == CHOOSE f \in Bijection(1 .. Cardinality(ids), ids) : TRUE
           n == Cardinality(ids)
           one(i) == [Req(op, nth[i]) EXCEPT !.group = ids]
           g == [i \in 1 .. n |-> one(i)]
<1>1. Group(op, ids) = g
  BY DEF Group
<1>2. n \in Nat /\ (\A i \in 1 .. n : nth[i] \in ids) /\ \A v \in ids : \E i \in 1 .. n : nth[i] = v
  BY InSomeOrder
<1> HIDE DEF nth, n
<1>3. \A i : one(i).op = op /\ one(i).v = nth[i] /\ one(i).group = ids
  BY DEF Req
<1> HIDE DEF one
<1>4. DOMAIN g = 1 .. n /\ \A i \in 1 .. n : g[i] = one(i)
  OBVIOUS
<1>5. g \in Seq({one(i) : i \in 1 .. n})
  BY <1>2
<1> HIDE DEF g
<1>6. IsSeq(g)
  BY <1>5 DEF IsSeq
<1>7. (\A i \in DOMAIN g : g[i].op = op /\ g[i].v \in ids /\ g[i].group = ids)
      /\ \A v \in ids : \E i \in DOMAIN g : g[i].v = v
  BY <1>2, <1>3, <1>4
<1>8. QED
  BY <1>1, <1>6, <1>7

LEMMA UserStep == PageInv /\ User => PageInv'
<1> SUFFICES ASSUME PageInv, User PROVE PageInv'
  OBVIOUS
<1>0. /\ IsSeq(up) /\ IsSeq(down) /\ word \in [Ids -> {"nothing", "watched", "unwatched"}]
      /\ pending \in SUBSET Ids /\ notice \in (SUBSET Ids) \cup {None}
      /\ (\A i \in DOMAIN down : GoodRequest(down[i].req)) /\ \A v \in pending : word[v] = "nothing"
  BY DEF PageInv, PageTypes
<1>1. ASSUME NEW v \in Ids, ToggleWatched(v) PROVE PageInv'
  <2> DEFINE next == v \notin page.watched
             said == IF next THEN "watched" ELSE "unwatched"
             r == Req(IF next THEN "mark" ELSE "unmark", v)
             more == <<r>>
             ids == {v}
  <2>1. /\ up' = up \o more /\ pending' = pending \ {v} /\ word' = [word EXCEPT ![v] = said]
        /\ down' = down /\ watched' = watched /\ notice' = notice
    BY <1>1 DEF ToggleWatched, Send, serverVars, store
  <2>2. r.v = v /\ r.group = {} /\ Agrees(said, r) /\ IsSwitch(r)
    BY DEF Req, Agrees, IsSwitch, Switches
  <2>3. said \in {"watched", "unwatched"}
    OBVIOUS
  <2> HIDE DEF said, r
  <2>4. IsSeq(more) /\ DOMAIN more = {1} /\ more[1] = r
    BY Short
  <2> HIDE DEF more
  <2>5. word' \in [Ids -> {"nothing", "watched", "unwatched"}] /\ word'[v] = said
        /\ \A u \in Ids : u \notin ids => word'[u] = word[u]
    BY <1>0, <2>1, <2>3
  <2>6. \A i \in DOMAIN more :
            more[i].v \in ids /\ more[i].group \in SUBSET Ids /\ Agrees(word'[more[i].v], more[i])
    BY <2>2, <2>4, <2>5
  <2>7. \A u \in ids : OnItsWay(u, more)
    BY <2>2, <2>4 DEF OnItsWay
  <2>8. pending' \in SUBSET Ids /\ \A u \in pending' : word'[u] = "nothing"
    BY <1>0, <2>1, <2>5
  <2>9. ids \in SUBSET Ids
    OBVIOUS
  <2> HIDE DEF ids, next
  <2>10. notice' \in (SUBSET Ids) \cup {None} /\ up' = up \o more /\ down' = down /\ watched' = watched
    BY <1>0, <2>1
  <2>11. QED
    BY <2>4, <2>5, <2>6, <2>7, <2>8, <2>9, <2>10, SwitchSent
<1>2. ASSUME NEW v \in Ids, OpenVideo(v) PROVE PageInv'
  <2>1. /\ up' = up /\ pending' = pending \cup {v} /\ word' = [word EXCEPT ![v] = "nothing"]
        /\ down' = down /\ watched' = watched /\ notice' = notice
    BY <1>2 DEF OpenVideo, serverVars, store
  <2>2. word' \in [Ids -> {"nothing", "watched", "unwatched"}]
        /\ (\A u \in Ids : word'[u] = word[u] \/ word'[u] = "nothing")
        /\ pending' \in SUBSET Ids /\ \A u \in pending' : word'[u] = "nothing"
    BY <1>0, <2>1
  <2>3. QED
    BY <1>0, <2>1, <2>2, NothingSaid
<1>3. ASSUME Hide \/ BackAtOnce \/ NoticeExpires PROVE PageInv'
  <2>1. up' = up /\ down' = down /\ watched' = watched /\ pending' = pending /\ word' = word
        /\ notice' \in {notice, None}
    BY <1>3 DEF Hide, BackAtOnce, NoticeExpires, serverVars, store
  <2>2. word' \in [Ids -> {"nothing", "watched", "unwatched"}] /\ notice' \in (SUBSET Ids) \cup {None}
        /\ pending' \in SUBSET Ids /\ \A u \in pending' : word'[u] = "nothing"
    BY <1>0, <2>1
  <2>3. QED
    BY <1>0, <2>1, <2>2, NothingSaid
<1>4. ASSUME \/ \E v \in Ids : DismissVideo(v) \/ BlockChannel(v) \/ \E k \in Range(defs) : MoveVideo(v, k)
             \/ Refresh
      PROVE  PageInv'
  <2>1. down' = down /\ watched' = watched /\ pending' = pending /\ word' = word /\ notice' = notice
    BY <1>4 DEF DismissVideo, BlockChannel, MoveVideo, Refresh, serverVars, store
  <2>2. \E r : ~IsSwitch(r) /\ r.group = {} /\ up' = up \o <<r>>
    <3>1. ASSUME NEW v \in Ids, DismissVideo(v) PROVE \E r : ~IsSwitch(r) /\ r.group = {} /\ up' = up \o <<r>>
      <4> DEFINE r == [Req("dismiss", v) EXCEPT !.prev = page]
      <4>1. r.op = "dismiss" /\ r.group = {} /\ up' = up \o <<r>>
        BY <3>1 DEF DismissVideo, Send, Req
      <4> HIDE DEF r
      <4>2. QED
        BY <4>1 DEF IsSwitch, Switches
    <3>2. ASSUME NEW v \in Ids, BlockChannel(v) PROVE \E r : ~IsSwitch(r) /\ r.group = {} /\ up' = up \o <<r>>
      <4> DEFINE r == [Req("block", v) EXCEPT !.to = page.cards[v]]
      <4>1. r.op = "block" /\ r.group = {} /\ up' = up \o <<r>>
        BY <3>2 DEF BlockChannel, Send, Req
      <4> HIDE DEF r
      <4>2. QED
        BY <4>1 DEF IsSwitch, Switches
    <3>3. ASSUME NEW v \in Ids, NEW k, MoveVideo(v, k)
          PROVE  \E r : ~IsSwitch(r) /\ r.group = {} /\ up' = up \o <<r>>
      <4> DEFINE r == [Req("move", v) EXCEPT !.prev = page, !.to = k]
      <4>1. r.op = "move" /\ r.group = {} /\ up' = up \o <<r>>
        BY <3>3 DEF MoveVideo, Send, Req
      <4> HIDE DEF r
      <4>2. QED
        BY <4>1 DEF IsSwitch, Switches
    <3>4. ASSUME Refresh PROVE \E r : ~IsSwitch(r) /\ r.group = {} /\ up' = up \o <<r>>
      <4> DEFINE r == Req("refresh", None)
      <4>1. r.op = "refresh" /\ r.group = {} /\ up' = up \o <<r>>
        BY <3>4 DEF Refresh, Send, Req
      <4> HIDE DEF r
      <4>2. QED
        BY <4>1 DEF IsSwitch, Switches
    <3>5. QED
      BY <1>4, <3>1, <3>2, <3>3, <3>4
  <2>3. QED
    BY <1>0, <2>1, <2>2, NothingSaid
<1>5. ASSUME Back PROVE PageInv'
  <2> DEFINE more == Group("mark", pending)
  <2>1. up' = up \o more /\ pending' = {} /\ UNCHANGED <<word, down, watched, notice>>
    BY <1>5 DEF Back, Send, serverVars, store
  <2>2. IsSeq(more)
        /\ (\A i \in DOMAIN more : more[i].op = "mark" /\ more[i].v \in pending /\ more[i].group = pending)
        /\ \A v \in pending : \E i \in DOMAIN more : more[i].v = v
    BY <1>0, GroupIs
  <2> HIDE DEF more
  <2>3. \A i \in DOMAIN more :
            more[i].v \in pending /\ more[i].group \in SUBSET Ids /\ Agrees(word'[more[i].v], more[i])
    BY <1>0, <2>1, <2>2 DEF Agrees
  <2>4. \A v \in pending : OnItsWay(v, more)
    BY <2>2 DEF OnItsWay, IsSwitch, Switches
  <2>5. QED
    BY <1>0, <2>1, <2>2, <2>3, <2>4, SwitchSent
<1>6. ASSUME UndoAutoWatched PROVE PageInv'
  <2> DEFINE more == Group("unmark", notice)
             told(v) == IF v \in notice \ pending THEN "unwatched" ELSE word[v]
  <2>1. up' = up \o more /\ pending' = pending /\ word' = [v \in Ids |-> told(v)]
        /\ down' = down /\ watched' = watched /\ notice' = None /\ notice # None
    <3> HIDE DEF more, told
    <3>1. up' = up \o Group("unmark", notice) /\ UNCHANGED <<pending, down, watched>>
          /\ notice' = None /\ notice # None
      BY <1>6 DEF UndoAutoWatched, Send, serverVars, store
    <3>2. word' = [v \in Ids |-> IF v \in notice \ pending THEN "unwatched" ELSE word[v]]
      BY <1>6 DEF UndoAutoWatched
    <3>3. QED
      BY <3>1, <3>2 DEF more, told
  <2>10. notice \in SUBSET Ids
    BY <1>0, <2>1
  <2>2. IsSeq(more)
        /\ (\A i \in DOMAIN more : more[i].op = "unmark" /\ more[i].v \in notice /\ more[i].group = notice)
        /\ \A v \in notice : \E i \in DOMAIN more : more[i].v = v
    BY <2>10, GroupIs
  <2> HIDE DEF more
  <2>3. \A v \in Ids : word'[v] = told(v)
    BY <2>1
  <2>4. word' \in [Ids -> {"nothing", "watched", "unwatched"}]
    BY <1>0, <2>1
  <2>5. \A v \in notice : word'[v] = "unwatched" \/ word'[v] = "nothing"
    BY <1>0, <2>1, <2>3
  <2>6. \A i \in DOMAIN more :
            more[i].v \in notice /\ more[i].group \in SUBSET Ids /\ Agrees(word'[more[i].v], more[i])
    BY <2>10, <2>2, <2>5 DEF Agrees
  <2>7. \A v \in notice : OnItsWay(v, more)
    BY <2>2 DEF OnItsWay, IsSwitch, Switches
  <2>8. (\A v \in Ids : v \notin notice => word'[v] = word[v]) /\ \A v \in pending' : word'[v] = "nothing"
    BY <1>0, <2>1, <2>3
  <2>9. pending' \in SUBSET Ids /\ notice' \in (SUBSET Ids) \cup {None}
    BY <1>0, <2>1
  <2> HIDE DEF told
  <2>11. up' = up \o more /\ down' = down /\ watched' = watched /\ IsSeq(more)
    BY <2>1, <2>2
  <2>12. QED
    BY <2>4, <2>6, <2>7, <2>8, <2>9, <2>10, <2>11, SwitchSent
<1>7. QED
  BY <1>1, <1>2, <1>3, <1>4, <1>5, <1>6 DEF User

LEMMA ServeStep == PageInv /\ (Serve \/ RequestLost) => PageInv'
<1> SUFFICES ASSUME PageInv, Serve \/ RequestLost PROVE PageInv'
  OBVIOUS
<1> DEFINE r == Head(up)
<1>1. CASE RequestLost
  <2>1. up # <<>> /\ up' = Tail(up) /\ word' = word /\ pending' = pending /\ notice' = notice
        /\ watched' = watched /\ down' = Append(down, Reply(Head(up), FALSE, None))
    BY <1>1 DEF RequestLost, serverVars, store, client
  <2>2. QED
    BY <2>1, Handled
<1>2. CASE Serve
  <2>1. /\ up # <<>> /\ UNCHANGED <<word, pending, notice>> /\ up' = Tail(up)
        /\ \/ ~IsSwitch(r) /\ watched' = watched
           \/ r.op = "mark" /\ watched' = watched \cup {r.v}
           \/ r.op = "unmark" /\ watched' = watched \ {r.v}
        /\ \E ok, body : down' = Append(down, Reply(r, ok, body))
    <3> DEFINE Answers == /\ UNCHANGED <<word, pending, notice>> /\ up' = Tail(up)
                          /\ \E ok, body : down' = Append(down, Reply(r, ok, body))
    <3>1. ASSUME NEW ok, NEW body, Respond(ok, body) PROVE Answers
      BY <3>1 DEF Respond, client
    <3>2. Respond(TRUE, List) \/ Respond(TRUE, Status) \/ Respond(TRUE, None) \/ Respond(r.v \in watched, None)
          \/ Respond(TRUE, List') \/ Respond(FALSE, None) \/ Respond(TRUE, Status')
      BY <1>2 DEF Serve
    <3>3. Answers
      BY <3>1, <3>2
    <3>4. up # <<>>
      BY <1>2 DEF Serve
    <3>5. \/ r.op \notin {"mark", "unmark"} /\ watched' = watched
          \/ r.op = "mark" /\ watched' = watched \cup {r.v}
          \/ r.op = "unmark" /\ watched' = watched \ {r.v}
      BY <1>2 DEF Serve, markWatched, unmarkWatched, addDismiss, addBlock, moveYoutubeVideo, StartCollection,
                  serverVars, store
    <3>6. QED
      BY <3>3, <3>4, <3>5 DEF IsSwitch, Switches
  <2> HIDE DEF r
  <2>2. PICK ok, body : down' = Append(down, Reply(r, ok, body))
    BY <2>1
  <2>3. \A v \in Ids : ~(IsSwitch(r) /\ r.v = v) => (v \in watched' <=> v \in watched)
    BY <2>1 DEF IsSwitch, Switches
  <2>4. \/ r.op = "mark" /\ r.v \in watched'
        \/ r.op = "unmark" /\ r.v \notin watched'
        \/ ~IsSwitch(r)
    BY <2>1
  <2>5. QED
    BY <2>1, <2>2, <2>3, <2>4, Handled DEF r
<1>3. QED
  BY <1>1, <1>2

LEMMA LossStep == PageInv /\ (\E i \in DOMAIN down : ResponseLost(i)) => PageInv'
<1> SUFFICES ASSUME PageInv, NEW i \in DOMAIN down, ResponseLost(i) PROVE PageInv'
  OBVIOUS
<1>0. /\ IsSeq(down) /\ word \in [Ids -> {"nothing", "watched", "unwatched"}]
      /\ pending \in SUBSET Ids /\ notice \in (SUBSET Ids) \cup {None}
      /\ (\A j \in DOMAIN down : GoodRequest(down[j].req)) /\ \A v \in pending : word[v] = "nothing"
  BY DEF PageInv, PageTypes
<1> DEFINE d == Reply(down[i].req, FALSE, None)
<1>1. UNCHANGED <<up, word, pending, notice, watched>> /\ down' = [down EXCEPT ![i] = d]
  BY DEF ResponseLost, serverVars, store, client
<1>2. d.req = down[i].req /\ ~d.ok
  BY DEF Reply
<1> HIDE DEF d
<1>3. DOMAIN down' = DOMAIN down
      /\ \A j \in DOMAIN down : down'[j].req = down[j].req /\ (~down[j].ok => ~down'[j].ok)
  BY <1>1, <1>2
<1>4. IsSeq(down')
  <2>1. PICK S : down \in Seq(S)
    BY <1>0 DEF IsSeq
  <2>2. down' \in Seq(S \cup {d})
    BY <1>1, <2>1
  <2>3. QED
    BY <2>2 DEF IsSeq
<1>5. \A v : Refused(v, down) => Refused(v, down')
  BY <1>3 DEF Refused
<1>6. \A j \in DOMAIN down' : GoodRequest(down'[j].req)
  BY <1>0, <1>3
<1>7. QED
  BY <1>0, <1>1, <1>4, <1>5, <1>6, NothingSaid

\* Of the requests that were lost, the last one of a video says what the server has.
LEMMA RestartStep == PageInv /\ Restart => PageInv'
<1> SUFFICES ASSUME PageInv, Restart PROVE PageInv'
  OBVIOUS
<1>0. /\ PageTypes /\ RequestsAgree(word, up) /\ ServerAgrees(word, up, down, watched)
      /\ \A v \in pending : word[v] = "nothing"
  BY DEF PageInv
<1> DEFINE one(i) == Reply(up[i], FALSE, None)
           more == [i \in DOMAIN up |-> one(i)]
<1>1. up' = <<>> /\ down' = down \o more /\ UNCHANGED <<word, pending, notice, watched>>
  BY DEF Restart, client, store
<1>2. \A i : one(i).req = up[i] /\ ~one(i).ok
  BY DEF Reply
<1> HIDE DEF one
<1>3. IsSeq(up) /\ IsSeq(down) /\ Len(up) \in Nat /\ DOMAIN up = 1 .. Len(up)
  <2>1. IsSeq(up) /\ IsSeq(down)
    BY <1>0 DEF PageTypes
  <2>2. QED
    BY <2>1 DEF IsSeq
<1>4. IsSeq(more) /\ DOMAIN more = DOMAIN up /\ \A i \in DOMAIN up : more[i] = one(i)
  <2>1. more \in Seq({one(i) : i \in DOMAIN up})
    BY <1>3
  <2>2. QED
    BY <2>1 DEF IsSeq
<1> HIDE DEF more
<1>5. /\ IsSeq(down \o more) /\ Len(down) \in Nat /\ Len(more) \in Nat
      /\ DOMAIN down = 1 .. Len(down) /\ DOMAIN more = 1 .. Len(more)
      /\ DOMAIN (down \o more) = 1 .. (Len(down) + Len(more))
      /\ \A i \in 1 .. Len(down) : (down \o more)[i] = down[i]
      /\ \A i \in 1 .. Len(more) : (down \o more)[Len(down) + i] = more[i]
  BY <1>3, <1>4, Joined
<1>6. \A i \in DOMAIN down : i \in DOMAIN down' /\ down'[i] = down[i]
  BY <1>1, <1>5
<1>7. \A i \in DOMAIN up : Len(down) + i \in DOMAIN down' /\ down'[Len(down) + i] = one(i)
  BY <1>1, <1>4, <1>5
<1>8. \A i \in DOMAIN down' : (i \in DOMAIN down /\ down'[i] = down[i])
                              \/ (i - Len(down) \in DOMAIN up /\ down'[i] = one(i - Len(down)))
  <2>1. \A i \in DOMAIN down' : i \in DOMAIN down \/ i - Len(down) \in DOMAIN more
    BY <1>1, <1>5
  <2>2. \A i \in DOMAIN more : Len(down) + i \in DOMAIN down' /\ down'[Len(down) + i] = one(i)
    BY <1>4, <1>7
  <2>3. \A i \in DOMAIN down' : i \in Int /\ Len(down) + (i - Len(down)) = i
    BY <1>1, <1>5
  <2>4. QED
    BY <1>4, <1>6, <2>1, <2>2, <2>3
<1>9. PageTypes'
  <2>1. \A i \in DOMAIN down' : GoodRequest(down'[i].req)
    BY <1>0, <1>2, <1>8 DEF PageTypes
  <2>2. IsSeq(<<>>) /\ DOMAIN <<>> = {}
    <3>1. <<>> \in Seq({})
      OBVIOUS
    <3>2. QED
      BY <3>1 DEF IsSeq
  <2>3. IsSeq(up') /\ IsSeq(down') /\ \A i \in DOMAIN up' : GoodRequest(up'[i])
    BY <1>1, <1>5, <2>2
  <2>4. QED
    BY <1>0, <1>1, <2>1, <2>3 DEF PageTypes
<1>10. RequestsAgree(word', up')
  BY <1>1 DEF RequestsAgree
<1>11. ServerAgrees(word', up', down', watched')
  <2> SUFFICES ASSUME NEW v \in Ids, ~Refused(v, down')
               PROVE  (word[v] = "watched" => v \in watched) /\ (word[v] = "unwatched" => v \notin watched)
    BY <1>1 DEF ServerAgrees
  <2>1. ~Refused(v, down)
    BY <1>6 DEF Refused
  <2>2. CASE ~OnItsWay(v, up)
    BY <1>0, <2>1, <2>2 DEF ServerAgrees
  <2>3. CASE OnItsWay(v, up)
    <3> DEFINE its == {i \in DOMAIN up : IsSwitch(up[i]) /\ up[i].v = v}
    <3>1. its # {} /\ its \in SUBSET (1 .. Len(up))
      BY <1>3, <2>3 DEF OnItsWay
    <3>2. PICK i \in its : \A j \in its : j <= i
      <4> HIDE DEF its
      <4> QED
        BY <1>3, <3>1, LastPlace
    <3>3. i \in DOMAIN up /\ IsSwitch(up[i]) /\ up[i].v = v /\ LastOfVideo(up, i)
      <4>1. i \in DOMAIN up /\ IsSwitch(up[i]) /\ up[i].v = v
        OBVIOUS
      <4>2. ASSUME NEW j \in DOMAIN up, i < j, IsSwitch(up[j]) PROVE up[j].v # v
        <5>1. ~ (j <= i)
          BY <1>3, <4>1, <4>2
        <5>2. QED
          BY <3>2, <4>2, <5>1
      <4>3. QED
        BY <4>1, <4>2 DEF LastOfVideo
    <3>4. Agrees(word[v], up[i])
      BY <1>0, <3>3 DEF RequestsAgree
    <3>5. ~Takes(up[i], v)
      BY <1>2, <1>7, <3>3 DEF Refused
    <3>6. word[v] = "nothing"
      BY <3>3, <3>4, <3>5 DEF Agrees, Takes, IsSwitch, Switches
    <3>7. QED
      BY <3>6
  <2>4. QED
    BY <2>2, <2>3
<1>12. QED
  BY <1>0, <1>1, <1>9, <1>10, <1>11 DEF PageInv

\* What is left of the responses: each was there, and each but those that are taken is still there.
LEMMA TakenLeaves ==
    ASSUME IsSeq(down), NEW idx, Taken(idx)
    PROVE  /\ IsSeq(down')
           /\ \A i \in DOMAIN down' : \E j \in DOMAIN down \ idx : down'[i] = down[j]
           /\ \A j \in DOMAIN down \ idx : \E i \in DOMAIN down' : down'[i] = down[j]
<1> DEFINE rest == DOMAIN down \ idx
           Nth(j) == CHOOSE k \in rest : Cardinality({m \in rest : m <= k}) = j
           n == Cardinality(rest)
<1>1. down' = [j \in 1 .. n |-> down[Nth(j)]]
  BY DEF Taken
<1>2. Len(down) \in Nat /\ rest \in SUBSET (1 .. Len(down))
  BY DEF IsSeq
<1>3. n \in Nat /\ (\A j \in 1 .. n : Nth(j) \in rest) /\ \A k \in rest : \E j \in 1 .. n : Nth(j) = k
  <2> HIDE DEF rest
  <2> QED
    BY <1>2, NthPlace
<1> HIDE DEF rest, Nth, n
<1>4. DOMAIN down' = 1 .. n /\ \A j \in 1 .. n : down'[j] = down[Nth(j)]
  BY <1>1
<1>5. down' \in Seq({down[Nth(j)] : j \in 1 .. n})
  BY <1>1, <1>3
<1>6. IsSeq(down')
  BY <1>5 DEF IsSeq
<1>7. QED
  BY <1>3, <1>4, <1>6 DEF rest

\* A response, or those of a group, are taken; of a request of the user's that has
\* failed the word is taken back.
LEMMA TakenStep ==
    ASSUME PageInv, NEW idx, Taken(idx), pending' = pending, watched' = watched,
           \/ up' = up
           \/ \E r : ~IsSwitch(r) /\ r.group = {} /\ up' = up \o <<r>>,
           word' = word \/ \E ids : Unsaid(ids),
           notice' \in (SUBSET Ids) \cup {None},
           \A j \in DOMAIN down, v \in Ids :
               j \in idx /\ Takes(down[j].req, v) /\ ~down[j].ok => word'[v] = "nothing"
    PROVE  PageInv'
<1>0. /\ IsSeq(down) /\ word \in [Ids -> {"nothing", "watched", "unwatched"}] /\ pending \in SUBSET Ids
      /\ (\A j \in DOMAIN down : GoodRequest(down[j].req)) /\ \A v \in pending : word[v] = "nothing"
  BY DEF PageInv, PageTypes
<1>1. /\ IsSeq(down')
      /\ \A i \in DOMAIN down' : \E j \in DOMAIN down \ idx : down'[i] = down[j]
      /\ \A j \in DOMAIN down \ idx : \E i \in DOMAIN down' : down'[i] = down[j]
  BY <1>0, TakenLeaves
<1>2. word' \in [Ids -> {"nothing", "watched", "unwatched"}]
      /\ \A v \in Ids : word'[v] = word[v] \/ word'[v] = "nothing"
  <2>1. ASSUME NEW ids, Unsaid(ids)
        PROVE  word' \in [Ids -> {"nothing", "watched", "unwatched"}]
               /\ \A v \in Ids : word'[v] = word[v] \/ word'[v] = "nothing"
    BY <1>0, <2>1 DEF Unsaid
  <2>2. QED
    BY <1>0, <2>1
<1>3. \A i \in DOMAIN down' : GoodRequest(down'[i].req)
  BY <1>0, <1>1
<1>4. ASSUME NEW v \in Ids, Refused(v, down), ~Refused(v, down') PROVE word'[v] = "nothing"
  <2>1. PICK j \in DOMAIN down : Takes(down[j].req, v) /\ ~down[j].ok
    BY <1>4 DEF Refused
  <2>2. j \in idx
    BY <1>1, <1>4, <2>1 DEF Refused
  <2>3. QED
    BY <2>1, <2>2
<1>5. pending' \in SUBSET Ids /\ \A v \in pending' : word'[v] = "nothing"
  BY <1>0, <1>2
<1>6. up' = up \/ \E r : ~IsSwitch(r) /\ r.group \in SUBSET Ids /\ up' = up \o <<r>>
  OBVIOUS
<1>7. QED
  BY <1>1, <1>2, <1>3, <1>4, <1>5, <1>6, NothingSaid

LEMMA ReceiveStep == PageInv /\ Receive => PageInv'
<1> SUFFICES ASSUME PageInv, NEW i \in DOMAIN down, ReceiveOne(i) \/ ReceiveGroup(i) PROVE PageInv'
  BY DEF Receive
<1>0. IsSeq(down) /\ notice \in (SUBSET Ids) \cup {None} /\ \A j \in DOMAIN down : GoodRequest(down[j].req)
  BY DEF PageInv, PageTypes
<1> DEFINE d == down[i]
<1>1. CASE ReceiveOne(i)
  <2> DEFINE idx == {i}
  <2>1. /\ d.req.group = {} /\ Taken(idx) /\ pending' = pending /\ watched' = watched
        /\ \/ GotLoad(d) \/ GotStatus(d) \/ GotPoll(d) \/ GotRefresh(d) \/ GotSwitch(d)
           \/ GotDismiss(d) \/ GotBlock(d) \/ GotMove(d)
    BY <1>1 DEF ReceiveOne, KeepsQueue, serverVars, store
  <2> HIDE DEF d
  <2>2. notice' = notice
    BY <2>1 DEF GotLoad, GotStatus, GotPoll, GotRefresh, GotSwitch, GotDismiss, GotBlock, GotMove
  <2>3. up' = up \/ \E r : ~IsSwitch(r) /\ r.group = {} /\ up' = up \o <<r>>
    <3>1. CASE up' = up
      BY <3>1
    <3>2. CASE up' # up
      <4>1. up' = up \o <<Req("load", None)>> \/ up' = up \o <<Req("status", None)>>
        BY <2>1, <3>2 DEF GotLoad, GotStatus, GotPoll, GotRefresh, GotSwitch, GotDismiss, GotBlock,
                          GotMove, Send
      <4>2. \A op \in {"load", "status"} : ~IsSwitch(Req(op, None)) /\ Req(op, None).group = {}
        BY DEF Req, IsSwitch, Switches
      <4>3. QED
        BY <4>1, <4>2
    <3>3. QED
      BY <3>1, <3>2
  <2>4. CASE GotSwitch(d)
    <3>1. CASE d.ok
      <4>1. word' = word
        BY <2>4, <3>1 DEF GotSwitch
      <4>2. \A j \in DOMAIN down, v \in Ids :
                j \in idx /\ Takes(down[j].req, v) /\ ~down[j].ok => word'[v] = "nothing"
        BY <3>1 DEF d
      <4> HIDE DEF idx
      <4>3. QED
        BY <1>0, <2>1, <2>2, <2>3, <4>1, <4>2, TakenStep
    <3>2. CASE ~d.ok
      <4>1. Unsaid({d.req.v})
        BY <2>4, <3>2 DEF GotSwitch
      <4>2. \A j \in DOMAIN down, v \in Ids :
                j \in idx /\ Takes(down[j].req, v) /\ ~down[j].ok => word'[v] = "nothing"
        BY <4>1 DEF d, Takes, Unsaid
      <4> HIDE DEF idx
      <4>3. QED
        BY <1>0, <2>1, <2>2, <2>3, <4>1, <4>2, TakenStep
    <3>3. QED
      BY <3>1, <3>2
  <2>5. CASE ~GotSwitch(d)
    <3>1. word' = word /\ ~IsSwitch(d.req)
      BY <2>1, <2>5 DEF GotLoad, GotStatus, GotPoll, GotRefresh, GotDismiss, GotBlock, GotMove,
                        IsSwitch, Switches
    <3>2. \A j \in DOMAIN down, v \in Ids :
              j \in idx /\ Takes(down[j].req, v) /\ ~down[j].ok => word'[v] = "nothing"
      BY <3>1 DEF d, Takes
    <3> HIDE DEF idx
    <3>3. QED
      BY <1>0, <2>1, <2>2, <2>3, <3>1, <3>2, TakenStep
  <2>6. QED
    BY <2>4, <2>5
<1>2. CASE ReceiveGroup(i)
  <2> DEFINE r == down[i].req
             idx == {Min({j \in GroupOf(r) : down[j].req.v = v}) : v \in r.group}
             failed == {down[j].req.v : j \in {j \in idx : ~down[j].ok}}
  <2>1. r.group # {} /\ Complete(i) /\ Taken(idx) /\ GotGroup(r, idx)
        /\ pending' = pending /\ watched' = watched
    BY <1>2 DEF ReceiveGroup, KeepsQueue, serverVars, store
  <2>2. idx \subseteq GroupOf(r)
    <3> SUFFICES ASSUME NEW v \in r.group PROVE Min({j \in GroupOf(r) : down[j].req.v = v}) \in GroupOf(r)
      OBVIOUS
    <3> DEFINE its == {j \in GroupOf(r) : down[j].req.v = v}
    <3>1. {down[m].req.v : m \in GroupOf(r)} = r.group
      BY <2>1 DEF Complete
    <3>2. its # {}
      BY <3>1
    <3>3. Len(down) \in Nat /\ its \in SUBSET (1 .. Len(down))
      BY <1>0 DEF GroupOf, IsSeq
    <3>4. Min(its) \in its
      <4> HIDE DEF its
      <4> QED
        BY <3>2, <3>3, FirstOfPlaces
    <3>5. QED
      BY <3>4
  <2> HIDE DEF idx
  <2>3. \A j \in idx : j \in DOMAIN down /\ down[j].req.op = r.op /\ down[j].req.group = r.group
    BY <2>2 DEF GroupOf
  <2>4. up' = up /\ (r.op = "unmark" => Unsaid(failed)) /\ (r.op # "unmark" => word' = word)
        /\ (notice' = notice \/ notice' = r.group \ failed)
    BY <2>1 DEF GotGroup
  <2>5. notice' \in (SUBSET Ids) \cup {None}
    BY <1>0, <2>4 DEF GoodRequest
  <2>6. ASSUME NEW j \in DOMAIN down, NEW v \in Ids, j \in idx, Takes(down[j].req, v), ~down[j].ok
        PROVE  word'[v] = "nothing"
    <3>1. r.op = "unmark" /\ v = down[j].req.v
      BY <2>1, <2>3, <2>6 DEF Takes
    <3>2. v \in failed
      BY <2>6, <3>1
    <3>3. QED
      BY <2>4, <3>1, <3>2 DEF Unsaid
  <2>7. word' = word \/ \E ids : Unsaid(ids)
    BY <2>4
  <2> HIDE DEF r, failed
  <2>8. QED
    BY <1>0, <2>1, <2>4, <2>5, <2>6, <2>7, TakenStep
<1>3. QED
  BY <1>1, <1>2

\* Whatever happens on the server alone, and what the user does in a dialog.
LEMMA AloneStep ==
    /\ PageInv
    /\ Poll \/ Dialog \/ (\E v \in Ids : Expired(v)) \/ Scheduled \/ Works \/ Fails \/ UNCHANGED vars
    => PageInv'
<1> SUFFICES ASSUME PageInv, Poll \/ Dialog \/ (\E v \in Ids : Expired(v)) \/ Scheduled \/ Works \/ Fails
                             \/ UNCHANGED vars
             PROVE  PageInv'
  OBVIOUS
<1>0. /\ IsSeq(down) /\ word \in [Ids -> {"nothing", "watched", "unwatched"}]
      /\ pending \in SUBSET Ids /\ notice \in (SUBSET Ids) \cup {None}
      /\ (\A j \in DOMAIN down : GoodRequest(down[j].req)) /\ \A v \in pending : word[v] = "nothing"
  BY DEF PageInv, PageTypes
<1>1. CASE \E v \in Ids : Expired(v)
  <2>1. PICK v \in Ids : Expired(v)
    BY <1>1
  <2>2. UNCHANGED <<up, down, pending, notice>> /\ watched' = watched \ {v}
        /\ word' = [u \in Ids |-> IF u \in {v} THEN "nothing" ELSE word[u]]
    BY <2>1 DEF Expired, Expire, Unsaid
  <2>3. word' \in [Ids -> {"nothing", "watched", "unwatched"}]
        /\ (\A u \in Ids : word'[u] = word[u] \/ word'[u] = "nothing")
        /\ (\A u \in Ids : word'[u] # "nothing" => (u \in watched' <=> u \in watched))
        /\ pending' \in SUBSET Ids /\ \A u \in pending' : word'[u] = "nothing"
    BY <1>0, <2>2
  <2>4. QED
    BY <1>0, <2>2, <2>3, NothingSaid
<1>2. CASE Poll \/ Dialog \/ Scheduled \/ Works \/ Fails \/ UNCHANGED vars
  <2>1. UNCHANGED <<down, pending, notice, word>>
    BY <1>2 DEF Poll, Dialog, Scheduled, Works, Fails, vars, client
  <2>2. watched' = watched
    <3>1. CASE Poll \/ UNCHANGED vars
      BY <3>1 DEF Poll, vars, serverVars, store
    <3>2. CASE Dialog
      <4>1. CASE Allow
        BY <4>1 DEF Allow, removeDismiss, removeBlock, addCategory, updateCategory, Edit
      <4>2. CASE Arrange
        BY <4>2 DEF Arrange, reorderCategories, deleteCategory, Edit
      <4>3. QED
        BY <3>2, <4>1, <4>2 DEF Dialog
    <3>3. CASE Scheduled \/ Works \/ Fails
      BY <3>3 DEF Scheduled, Works, Fails, StartCollection, Collect, Answer, FilterCategory, Store, MailEnds,
                  CollectionFails, store
    <3>4. QED
      BY <1>2, <3>1, <3>2, <3>3
  <2>3. up' = up \/ up' = up \o <<Req("load", None)>> \/ up' = up \o <<Req("poll", None)>>
    BY <1>2 DEF Poll, Dialog, Scheduled, Works, Fails, vars, Send
  <2>4. \A op \in {"load", "poll"} : ~IsSwitch(Req(op, None)) /\ Req(op, None).group \in SUBSET Ids
    BY DEF Req, IsSwitch, Switches
  <2>5. up' = up \/ \E r : ~IsSwitch(r) /\ r.group \in SUBSET Ids /\ up' = up \o <<r>>
    BY <2>3, <2>4
  <2>6. QED
    BY <1>0, <2>1, <2>2, <2>5, NothingSaid
<1>3. QED
  BY <1>1, <1>2

\* One step of the page, the server or the wire.
LEMMA PageStep == PageInv /\ [Next]_vars => PageInv'
BY UserStep, ServeStep, LossStep, RestartStep, ReceiveStep, AloneStep DEF Next

\* The user's last word on a video stands once its requests are answered, whatever the page
\* marked by itself, and whichever requests and responses were lost or overtaken.
THEOREM LastWordsStand == Spec => []LastWordStands
<1>1. Init => PageInv
  <2> SUFFICES ASSUME Init PROVE PageInv
    OBVIOUS
  <2>1. /\ down = <<>> /\ word = [v \in Ids |-> "nothing"] /\ notice = None /\ pending \in SUBSET Ids
        /\ up = <<>> \/ up = <<Req("load", None), Req("status", None)>>
    BY DEF Init
  <2>2. IsSeq(<<>>) /\ DOMAIN <<>> = {}
    <3>1. <<>> \in Seq({})
      OBVIOUS
    <3>2. QED
      BY <3>1 DEF IsSeq
  <2> DEFINE a == Req("load", None)
             b == Req("status", None)
  <2>3. ~IsSwitch(a) /\ ~IsSwitch(b) /\ a.group = {} /\ b.group = {}
    BY DEF Req, IsSwitch, Switches
  <2> HIDE DEF a, b
  <2>4. IsSeq(<<a, b>>) /\ \A i \in DOMAIN <<a, b>> : <<a, b>>[i] \in {a, b}
    <3>1. <<a, b>> \in Seq({a, b})
      OBVIOUS
    <3>2. \A s \in Seq({a, b}) : \A i \in DOMAIN s : s[i] \in {a, b}
      OBVIOUS
    <3>3. IsSeq(<<a, b>>)
      BY <3>1, Zenon DEF IsSeq
    <3>4. QED
      BY <3>1, <3>2, <3>3, Zenon
  <2>5. IsSeq(up) /\ \A i \in DOMAIN up : ~IsSwitch(up[i]) /\ up[i].group = {}
    BY <2>1, <2>2, <2>3, <2>4 DEF a, b
  <2>6. PageTypes
    BY <2>1, <2>2, <2>5 DEF PageTypes, GoodRequest
  <2>7. RequestsAgree(word, up) /\ ServerAgrees(word, up, down, watched)
    BY <2>1, <2>5 DEF RequestsAgree, ServerAgrees
  <2>8. QED
    BY <2>1, <2>6, <2>7 DEF PageInv
<1>2. PageInv => LastWordStands
  <2> SUFFICES ASSUME PageInv,
                      \A i \in DOMAIN up : up[i].op \notin {"mark", "unmark"},
                      \A i \in DOMAIN down : down[i].req.op \in {"mark", "unmark"} => down[i].ok,
                      NEW v \in Ids
               PROVE  (word[v] = "watched" => v \in watched) /\ (word[v] = "unwatched" => v \notin watched)
    BY DEF LastWordStands
  <2>1. ~OnItsWay(v, up) /\ ~Refused(v, down)
    BY DEF OnItsWay, Refused, Takes, IsSwitch, Switches
  <2>2. QED
    BY <2>1 DEF PageInv, ServerAgrees
<1>3. QED
  BY <1>1, <1>2, PageStep, PTL DEF Spec

-----------------------------------------------------------------------------
(* The calendar: a schedule runs within a year, wherever the search begins. *)

LEMMA MonthFirstsAre ==
    /\ \A y \in 1 .. 5 : YearStart[y] \in MonthFirsts
    /\ \A f \in MonthFirsts : \E y \in 1 .. 5, o \in {0} \cup 31 .. 335 : f = YearStart[y] + o
<1>1. YearStart[1] = 0 /\ YearStart[2] = 365 /\ YearStart[3] = 730 /\ YearStart[4] = 1096 /\ YearStart[5] = 1461
  BY DEF YearStart
<1>2. MonthStart[1] = 0 /\ \A m \in 2 .. 12 : MonthStart[m] \in 31 .. 334
  BY DEF MonthStart
<1>3. ASSUME NEW y \in 1 .. 5 PROVE YearStart[y] \in MonthFirsts
  <2>1. CASE y = 5
    BY <2>1 DEF MonthFirsts
  <2>2. CASE y \in 1 .. 4
    <3>1. YearStart[y] = YearStart[y] + MonthStart[1] + (IF y = LeapYear /\ 1 > 2 THEN 1 ELSE 0)
      BY <1>1, <1>2, <2>2
    <3>2. QED
      BY <2>2, <3>1 DEF MonthFirsts
  <2>3. QED
    BY <2>1, <2>2
<1>4. ASSUME NEW f \in MonthFirsts PROVE \E y \in 1 .. 5, o \in {0} \cup 31 .. 335 : f = YearStart[y] + o
  <2>1. CASE f = YearStart[5]
    <3>1. f = YearStart[5] + 0
      BY <1>1, <2>1
    <3>2. QED
      BY <3>1
  <2>2. CASE f # YearStart[5]
    <3>1. PICK y \in 1 .. 4, m \in 1 .. 12 :
            f = YearStart[y] + MonthStart[m] + (IF y = LeapYear /\ m > 2 THEN 1 ELSE 0)
      BY <2>2 DEF MonthFirsts
    <3> DEFINE o == MonthStart[m] + (IF y = LeapYear /\ m > 2 THEN 1 ELSE 0)
    <3>2. o \in {0} \cup 31 .. 335
      <4>1. CASE m = 1
        BY <1>2, <4>1
      <4>2. CASE m \in 2 .. 12
        <5>1. MonthStart[m] \in 31 .. 334
          BY <1>2, <4>2
        <5>2. o = MonthStart[m] \/ o = MonthStart[m] + 1
          BY <5>1
        <5> HIDE DEF o
        <5>3. QED
          BY <5>1, <5>2
      <4>3. QED
        BY <4>1, <4>2
    <3>3. MonthStart[m] \in Int /\ YearStart[y] \in Int
      BY <1>1, <1>2
    <3>4. f = YearStart[y] + o
      BY <3>1, <3>3
    <3>5. y \in 1 .. 5
      OBVIOUS
    <3> HIDE DEF o
    <3>6. QED
      BY <3>2, <3>4, <3>5
  <2>3. QED
    BY <2>1, <2>2
<1>5. QED
  BY <1>3, <1>4

\* The days of January in each year, and the last of December.
LEMMA Januaries ==
    /\ \A y \in 1 .. 4, k \in 1 .. 31 : DayOfMonth[YearStart[y] + k - 1] = k
    /\ \A y \in 2 .. 5 : LastOfMonth(YearStart[y] - 1)
<1>1. YearStart[1] = 0 /\ YearStart[2] = 365 /\ YearStart[3] = 730 /\ YearStart[4] = 1096 /\ YearStart[5] = 1461
  BY DEF YearStart
<1>2. ASSUME NEW y \in 1 .. 4, NEW k \in 1 .. 31 PROVE DayOfMonth[YearStart[y] + k - 1] = k
  <2> DEFINE d == YearStart[y] + k - 1
             S == {f \in MonthFirsts : f <= d}
  <2>1. d \in 0 .. LastKnown /\ d - YearStart[y] = k - 1 /\ YearStart[y] \in Int
    BY <1>1 DEF LastKnown
  <2>2. YearStart[y] \in S
    BY <1>1, <2>1, MonthFirstsAre
  <2>3. ASSUME NEW f \in S PROVE f <= YearStart[y] /\ f \in Int
    <3>1. PICK z \in 1 .. 5, o \in {0} \cup 31 .. 335 : f = YearStart[z] + o
      BY MonthFirstsAre
    <3>2. f <= d
      OBVIOUS
    <3>3. d <= YearStart[y] + 30 /\ d \in Int
      BY <2>1 DEF LastKnown
    <3> HIDE DEF d
    <3>4. QED
      BY <1>1, <3>1, <3>2, <3>3
  <2>4. Max(S) = YearStart[y]
    <3> HIDE DEF S, d
    <3>1. \A x \in S : (\A f \in S : x >= f) => x = YearStart[y]
      BY <2>2, <2>3
    <3>2. \A f \in S : YearStart[y] >= f
      BY <2>1, <2>3
    <3>3. QED
      BY <2>2, <3>1, <3>2 DEF Max
  <2>5. DayOfMonth[d] = d + 1 - Max(S)
    BY <2>1 DEF DayOfMonth
  <2>6. QED
    BY <2>1, <2>4, <2>5
<1>3. ASSUME NEW y \in 2 .. 5 PROVE LastOfMonth(YearStart[y] - 1)
  BY <1>1, MonthFirstsAre DEF LastOfMonth
<1>4. QED
  BY <1>2, <1>3

LEMMA MondayFacts ==
    ASSUME NEW d \in Int
    PROVE  /\ MondayOf(d) \in d - 6 .. d /\ \E u \in Int : MondayOf(d) = 7 * u + 4
           /\ \A u \in Int, x \in 0 .. 6 :
                 MondayOf(7 * u + 4 + x) = 7 * u + 4 /\ Weekday(7 * u + 4 + x) = (x + 1) % 7
<1>1. MondayOf(d) \in d - 6 .. d
  BY DEF MondayOf, Weekday
<1>2. MondayOf(d) = 7 * ((MondayOf(d) - 4) \div 7) + 4
  BY DEF MondayOf, Weekday
<1>3. (MondayOf(d) - 4) \div 7 \in Int
  BY <1>1
<1>4. ASSUME NEW u \in Int, NEW x \in 0 .. 6
      PROVE  MondayOf(7 * u + 4 + x) = 7 * u + 4 /\ Weekday(7 * u + 4 + x) = (x + 1) % 7
  BY DEF MondayOf, Weekday
<1>5. QED
  BY <1>1, <1>2, <1>3, <1>4

LEMMA SomeWeek ==
    ASSUME NEW c \in Int, NEW n \in 1 .. 4
    PROVE  \E j \in 1 .. 4 : (c + j) % n = 0
<1>1. (c + 1) % 1 = 0 /\ ((c + 1) % 2 = 0 \/ (c + 2) % 2 = 0)
  OBVIOUS
<1>2. (c + 1) % 3 = 0 \/ (c + 2) % 3 = 0 \/ (c + 3) % 3 = 0
  OBVIOUS
<1>3. (c + 1) % 4 = 0 \/ (c + 2) % 4 = 0 \/ (c + 3) % 4 = 0 \/ (c + 4) % 4 = 0
  OBVIOUS
<1>4. n = 1 \/ n = 2 \/ n = 3 \/ n = 4
  OBVIOUS
<1>5. QED
  BY <1>1, <1>2, <1>3, <1>4

\* A schedule runs at least once in a year and a day.
LEMMA RunsWithinYear ==
    ASSUME NEW repeat, Repeats(repeat), NEW d \in 0 .. LastKnown - 366
    PROVE  \E x \in d .. d + 366 : IsDueDate(repeat, x)
<1>1. YearStart[1] = 0 /\ YearStart[2] = 365 /\ YearStart[3] = 730 /\ YearStart[4] = 1096 /\ YearStart[5] = 1461
  BY DEF YearStart
<1>2. CASE repeat.kind = "daily"
  <2>1. IsDueDate(repeat, d)
    BY <1>2 DEF IsDueDate
  <2>2. QED
    BY <2>1
<1>3. CASE repeat.kind = "monthly"
  <2>1. PICK k \in repeat.dates : k = -1 \/ k \in 1 .. 31
    BY <1>3 DEF Repeats
  <2>2. \A x : IsDueDate(repeat, x)
                 <=> (DayOfMonth[x] \in repeat.dates \/ (-1 \in repeat.dates /\ LastOfMonth(x)))
    BY <1>3 DEF IsDueDate
  <2>3. CASE k \in 1 .. 31
    <3>1. d \in 0 .. 1094
      BY <1>1 DEF LastKnown
    <3>2. \/ 0 + k - 1 \in d .. d + 366 \/ 365 + k - 1 \in d .. d + 366
          \/ 730 + k - 1 \in d .. d + 366 \/ 1096 + k - 1 \in d .. d + 366
      BY <2>3, <3>1
    <3>3. \E y \in 1 .. 4 : YearStart[y] + k - 1 \in d .. d + 366
      BY <1>1, <3>2
    <3>4. QED
      BY <2>2, <2>3, <3>3, Januaries
  <2>4. CASE k = -1
    <3>1. d \in 0 .. 1094
      BY <1>1 DEF LastKnown
    <3>2. \/ 364 \in d .. d + 366 \/ 729 \in d .. d + 366
          \/ 1095 \in d .. d + 366 \/ 1460 \in d .. d + 366
      BY <3>1
    <3>3. \E y \in 2 .. 5 : YearStart[y] - 1 \in d .. d + 366
      BY <1>1, <3>2
    <3>4. QED
      BY <2>2, <2>4, <3>3, Januaries
  <2>5. QED
    BY <2>1, <2>3, <2>4
<1>4. CASE repeat.kind = "weekly"
  <2>1. /\ repeat.days # {} /\ repeat.days \subseteq 0 .. 6
        /\ repeat.interval \in 1 .. 4 /\ repeat.anchor \in Int
    BY <1>4 DEF Repeats
  <2>2. PICK day \in repeat.days : day \in 0 .. 6
    BY <2>1
  <2>3. PICK u \in Int : MondayOf(d) = 7 * u + 4
    BY MondayFacts
  <2>4. PICK v \in Int : MondayOf(repeat.anchor) = 7 * v + 4
    BY <2>1, MondayFacts
  <2>5. PICK w \in u + 1 .. u + 4 : (w - v) % repeat.interval = 0
    <3>1. PICK c \in Int : c = u - v
      OBVIOUS
    <3>2. \E j \in 1 .. 4 : (c + j) % repeat.interval = 0
      BY <2>1, SomeWeek
    <3>3. PICK j \in 1 .. 4 : (c + j) % repeat.interval = 0
      BY <3>2
    <3>4. u + j \in u + 1 .. u + 4 /\ (u + j) - v = c + j
      BY <3>1
    <3>5. QED
      BY <3>3, <3>4
  <2> DEFINE x == 7 * w + 4 + ((day + 6) % 7)
  <2>6. MondayOf(x) = 7 * w + 4 /\ Weekday(x) = day
    <3>1. (day + 6) % 7 \in 0 .. 6 /\ (((day + 6) % 7) + 1) % 7 = day
      BY <2>2
    <3>2. w \in Int
      OBVIOUS
    <3>3. QED
      BY <3>1, <3>2, MondayFacts
  <2>7. x \in d .. d + 366
    <3>1. 7 * u + 4 \in d - 6 .. d
      BY <2>3, MondayFacts
    <3>2. (day + 6) % 7 \in 0 .. 6
      BY <2>2
    <3>3. QED
      BY <3>1, <3>2
  <2>8. WeeksBetween(x, repeat.anchor) = w - v
    <3> HIDE DEF x
    <3>1. WeeksBetween(x, repeat.anchor) = ((7 * w + 4) - (7 * v + 4)) \div 7
      BY <2>4, <2>6 DEF WeeksBetween
    <3>2. w \in Int
      OBVIOUS
    <3>3. QED
      BY <3>1, <3>2
  <2> HIDE DEF x
  <2>9. IsDueDate(repeat, x)
    BY <1>4, <2>2, <2>5, <2>6, <2>8 DEF IsDueDate
  <2>10. QED
    BY <2>7, <2>9
<1>5. QED
  BY <1>2, <1>3, <1>4 DEF Repeats

\* Of some days, counted up to n, one is the first and one the last.
LEMMA EndsOfDays ==
    ASSUME NEW n \in Nat, NEW S \in SUBSET (0 .. n), S # {}
    PROVE  /\ Min(S) \in S /\ \A y \in S : Min(S) <= y
           /\ Max(S) \in S /\ \A y \in S : y <= Max(S)
<1> DEFINE later == {y + 1 : y \in S}
           turned == {(n + 1) - y : y \in S}
<1>1. ASSUME NEW T \in SUBSET (1 .. n + 1), T # {} PROVE \E x \in T : \A y \in T : y <= x
  <2>1. n + 1 \in Nat
    OBVIOUS
  <2>2. QED
    BY <1>1, <2>1, LastPlace
<1>2. \E x \in S : \A y \in S : y <= x
  <2>1. later \in SUBSET (1 .. n + 1) /\ later # {}
    <3>1. \A y \in S : y + 1 \in 1 .. n + 1
      OBVIOUS
    <3>2. QED
      BY <3>1
  <2>2. PICK a \in later : \A b \in later : b <= a
    <3> HIDE DEF later
    <3> QED
      BY <1>1, <2>1
  <2>3. PICK x \in S : a = x + 1
    OBVIOUS
  <2>4. ASSUME NEW y \in S PROVE y <= x
    <3>1. y + 1 \in later
      OBVIOUS
    <3> HIDE DEF later
    <3>2. y + 1 <= a
      BY <2>2, <3>1
    <3>3. x \in Int /\ y \in Int
      OBVIOUS
    <3>4. QED
      BY <2>3, <3>2, <3>3
  <2>5. QED
    BY <2>4
<1>3. \E x \in S : \A y \in S : x <= y
  <2>1. turned \in SUBSET (1 .. n + 1) /\ turned # {}
    <3>1. \A y \in S : (n + 1) - y \in 1 .. n + 1
      OBVIOUS
    <3>2. QED
      BY <3>1
  <2>2. PICK a \in turned : \A b \in turned : b <= a
    <3> HIDE DEF turned
    <3> QED
      BY <1>1, <2>1
  <2>3. PICK x \in S : a = (n + 1) - x
    OBVIOUS
  <2>4. ASSUME NEW y \in S PROVE x <= y
    <3>1. (n + 1) - y \in turned
      OBVIOUS
    <3>2. (n + 1) - y <= (n + 1) - x /\ x \in Int /\ y \in Int
      BY <2>2, <2>3, <3>1
    <3>3. QED
      BY <3>2
  <2>5. QED
    BY <2>4
<1>4. Max(S) \in S /\ \A y \in S : Max(S) >= y
  BY <1>2 DEF Max
<1>5. Min(S) \in S /\ \A y \in S : Min(S) <= y
  BY <1>3 DEF Min
<1>6. QED
  BY <1>4, <1>5

LEMMA TimesOfDay ==
    ASSUME NEW d \in Nat, NEW h \in Hours
    PROVE  d * PerDay + h \in Nat /\ DayOf(d * PerDay + h) = d /\ HourOf(d * PerDay + h) = h
<1>1. PICK p \in Nat \ {0} : p = PerDay /\ h \in 0 .. p - 1
  BY ScheduleAssumption
<1>2. d * p \in Nat /\ (d * p + h) \div p = d /\ (d * p + h) % p = h
  BY <1>1
<1>3. QED
  BY <1>1, <1>2 DEF DayOf, HourOf

LEMMA MomentIsTime ==
    ASSUME NEW t \in Nat
    PROVE  DayOf(t) \in Nat /\ HourOf(t) \in Hours /\ t = DayOf(t) * PerDay + HourOf(t)
<1>1. PICK p \in Nat \ {0} : p = PerDay /\ Hours = 0 .. p - 1
  BY ScheduleAssumption
<1>2. t \div p \in Nat /\ t % p \in 0 .. p - 1
  BY <1>1
<1>3. t = ((t \div p) * p) + (t % p)
  BY <1>1
<1>4. QED
  BY <1>1, <1>2, <1>3 DEF DayOf, HourOf

LEMMA DaysInOrder ==
    ASSUME NEW d \in Nat, NEW e \in Nat, NEW h \in Hours, NEW k \in Hours
    PROVE  /\ d < e => d * PerDay + h < e * PerDay + k
           /\ h < k => d * PerDay + h < d * PerDay + k
<1>1. PICK p \in Nat \ {0} : p = PerDay /\ h \in 0 .. p - 1 /\ k \in 0 .. p - 1
  BY ScheduleAssumption
<1>2. ASSUME d < e PROVE d * p + h < e * p + k
  <2>1. PICK i \in Nat : e = d + 1 + i
    <3>1. e = d + 1 + (e - d - 1) /\ e - d - 1 \in Nat
      BY <1>2
    <3>2. QED
      BY <3>1
  <2>2. e * p = d * p + p + i * p /\ i * p >= 0 /\ i * p \in Int /\ d * p \in Int
    BY <1>1, <2>1
  <2>3. QED
    BY <1>1, <2>2
<1>3. d * p \in Int
  BY <1>1
<1>4. QED
  BY <1>1, <1>2, <1>3

\* The moments at which a schedule runs.
RunsAt(probe, x) == x \in Nat /\ IsDueDate(probe.repeat, DayOf(x)) /\ HourOf(x) \in probe.times

LEMMA ProbeRuns ==
    ASSUME NEW probe \in Probes, NEW d \in 0 .. LastKnown - 366
    PROVE  \E x \in d .. d + 366 : IsDueDate(probe.repeat, x)
<1>1. PICK repeat : repeat = probe.repeat /\ Repeats(repeat)
  BY ScheduleAssumption
<1>2. \E x \in d .. d + 366 : IsDueDate(repeat, x)
  BY <1>1, RunsWithinYear
<1>3. QED
  BY <1>1, <1>2

LEMMA RunsOnDay ==
    ASSUME NEW probe \in Probes, NEW d \in Nat, IsDueDate(probe.repeat, d), NEW h \in probe.times
    PROVE  RunsAt(probe, d * PerDay + h)
<1>1. h \in Hours
  BY ScheduleAssumption
<1>2. QED
  BY <1>1, TimesOfDay DEF RunsAt

\* A later day is later, and a later moment is not on an earlier day.
LEMMA LaterDay ==
    ASSUME NEW x \in Nat, NEW y \in Nat
    PROVE  /\ DayOf(x) < DayOf(y) => x < y
           /\ x <= y => DayOf(x) <= DayOf(y)
<1>1. /\ DayOf(x) \in Nat /\ HourOf(x) \in Hours /\ x = DayOf(x) * PerDay + HourOf(x)
      /\ DayOf(y) \in Nat /\ HourOf(y) \in Hours /\ y = DayOf(y) * PerDay + HourOf(y)
  BY MomentIsTime
<1>2. DayOf(x) < DayOf(y) => x < y
  BY <1>1, DaysInOrder
<1>3. DayOf(y) < DayOf(x) => y < x
  BY <1>1, DaysInOrder
<1>4. QED
  BY <1>1, <1>2, <1>3

LEMMA TimesBounded ==
    ASSUME NEW probe \in Probes, NEW d \in Nat
    PROVE  /\ \A h \in probe.times : d * PerDay + h \in 0 .. (d + 1) * PerDay
           /\ (d + 1) * PerDay \in Nat
<1>1. PICK p \in Nat \ {0} : p = PerDay /\ probe.times \subseteq 0 .. p - 1
  BY ScheduleAssumption
<1>2. d * p \in Nat /\ (d + 1) * p = d * p + p
  BY <1>1
<1>3. QED
  BY <1>1, <1>2

\* The search ahead finds the first run after a moment, within a year and a day.
LEMMA NextIsFirst ==
    ASSUME NEW probe \in Probes, NEW t \in Nat, DayOf(t) <= LastKnown - ScanDays
    PROVE  LET n == NextOccurrence(probe, t)
           IN  /\ RunsAt(probe, n) /\ t < n /\ DayOf(n) <= DayOf(t) + 367
               /\ \A x \in Nat : RunsAt(probe, x) /\ t < x => n <= x
<1> DEFINE D == DayOf(t)
           days == {d \in D .. D + ScanDays : IsDueDate(probe.repeat, d)}
           after == {d \in days : \E h \in probe.times : d * PerDay + h > t}
           first == Min(after)
           moments == {x \in {first * PerDay + h : h \in probe.times} : x > t}
           n == NextOccurrence(probe, t)
<1>1. /\ probe.enabled /\ Repeats(probe.repeat) /\ probe.times # {} /\ probe.times \subseteq Hours
      /\ D \in Nat /\ ScanDays = 400 /\ LastKnown = 1460
  <2>1. YearStart[5] = 1461
    BY DEF YearStart
  <2>2. D \in Nat
    BY MomentIsTime
  <2>3. QED
    BY <2>1, <2>2, ScheduleAssumption DEF ScanDays, LastKnown
<1>2. PICK e \in D + 1 .. D + 367 : IsDueDate(probe.repeat, e)
  <2>1. D + 1 \in 0 .. LastKnown - 366
    BY <1>1
  <2> HIDE DEF D
  <2>2. \A d \in 0 .. LastKnown - 366 : \E x \in d .. d + 366 : IsDueDate(probe.repeat, x)
    BY ProbeRuns
  <2>3. \E x \in D + 1 .. (D + 1) + 366 : IsDueDate(probe.repeat, x)
    BY <2>1, <2>2
  <2>4. QED
    BY <1>1, <2>3
<1>3. e \in after
  <2>1. PICK h \in probe.times : TRUE
    BY <1>1
  <2>2. DayOf(t) < DayOf(e * PerDay + h) /\ e * PerDay + h \in Nat
    BY <1>1, <1>2, <2>1, TimesOfDay
  <2>3. t < e * PerDay + h
    BY <2>2, LaterDay
  <2>4. e \in days
    BY <1>1, <1>2
  <2>5. e * PerDay + h > t
    BY <2>2, <2>3
  <2>6. QED
    BY <2>1, <2>4, <2>5
<1>4. first \in after /\ first <= e /\ \A d \in after : first <= d
  <2>1. after \in SUBSET (0 .. D + ScanDays) /\ D + ScanDays \in Nat
    BY <1>1
  <2> HIDE DEF after, first
  <2>2. Min(after) \in after /\ \A d \in after : Min(after) <= d
    BY <1>3, <2>1, EndsOfDays
  <2>3. QED
    BY <1>3, <2>2 DEF first
<1>5. first \in Nat /\ IsDueDate(probe.repeat, first) /\ D <= first
  BY <1>1, <1>4
<1>6. n = Min(moments)
  BY <1>1, <1>3 DEF NextOccurrence
<1>7. moments # {} /\ moments \in SUBSET (0 .. (first + 1) * PerDay)
  <2>1. PICK h \in probe.times : first * PerDay + h > t
    BY <1>4
  <2>2. \A k \in probe.times : first * PerDay + k \in 0 .. (first + 1) * PerDay
    BY <1>5, TimesBounded
  <2> HIDE DEF first
  <2>3. QED
    BY <2>1, <2>2
<1> HIDE DEF days, after, first, D, n
<1>8. n \in moments /\ \A x \in moments : n <= x
  <2>1. (first + 1) * PerDay \in Nat
    BY <1>5, TimesBounded
  <2> HIDE DEF moments
  <2>2. QED
    BY <1>6, <1>7, <2>1, EndsOfDays
<1>9. PICK h \in probe.times : n = first * PerDay + h /\ n > t
  BY <1>8
<1>10. RunsAt(probe, n) /\ n \in Nat /\ DayOf(n) = first
  BY <1>1, <1>5, <1>9, RunsOnDay, TimesOfDay DEF RunsAt
<1>11. t < n
  BY <1>9, <1>10
<1>12. ASSUME NEW x \in Nat, RunsAt(probe, x), t < x PROVE n <= x
  <2>1. /\ DayOf(x) \in Nat /\ x = DayOf(x) * PerDay + HourOf(x)
        /\ HourOf(x) \in probe.times /\ IsDueDate(probe.repeat, DayOf(x))
    BY <1>12, MomentIsTime DEF RunsAt
  <2>2. D <= DayOf(x)
    BY <1>12, LaterDay DEF D
  <2>3. CASE first < DayOf(x)
    BY <1>10, <2>3, LaterDay
  <2>4. CASE ~(first < DayOf(x))
    <3>1. DayOf(x) \in after
      <4>1. DayOf(x) \in days
        BY <1>1, <1>2, <1>4, <1>5, <2>1, <2>2, <2>4 DEF days
      <4>2. DayOf(x) * PerDay + HourOf(x) > t
        BY <1>12, <2>1
      <4>3. QED
        BY <2>1, <4>1, <4>2 DEF after
    <3>2. DayOf(x) = first
      BY <1>4, <1>5, <2>1, <2>4, <3>1
    <3>3. x \in moments
      BY <1>12, <2>1, <3>2
    <3>4. QED
      BY <1>8, <3>3
  <2>5. QED
    BY <2>3, <2>4
<1>13. DayOf(n) <= D + 367
  BY <1>1, <1>2, <1>4, <1>5, <1>10
<1>14. QED
  BY <1>10, <1>11, <1>12, <1>13 DEF n, D

\* The search back finds the last run up to a moment.
LEMMA LastIsLatest ==
    ASSUME NEW probe \in Probes, NEW t \in Nat, DayOf(t) \in ScanDays .. LastKnown
    PROVE  LET p == LastOccurrence(probe, t)
           IN  /\ RunsAt(probe, p) /\ p <= t
               /\ \A x \in Nat : RunsAt(probe, x) /\ x <= t => x <= p
<1> DEFINE D == DayOf(t)
           days == {d \in D - ScanDays .. D : IsDueDate(probe.repeat, d)}
           before == {d \in days : \E h \in probe.times : d * PerDay + h <= t}
           latest == Max(before)
           moments == {x \in {latest * PerDay + h : h \in probe.times} : x <= t}
           p == LastOccurrence(probe, t)
<1>1. /\ probe.enabled /\ probe.times # {} /\ probe.times \subseteq Hours
      /\ D \in Nat /\ ScanDays = 400 /\ LastKnown = 1460 /\ D \in 400 .. 1460
  <2>1. YearStart[5] = 1461
    BY DEF YearStart
  <2>2. D \in Nat
    BY MomentIsTime
  <2>3. QED
    BY <2>1, <2>2, ScheduleAssumption DEF ScanDays, LastKnown
<1>2. PICK e \in D - 367 .. D - 1 : IsDueDate(probe.repeat, e)
  <2>1. D - 367 \in 0 .. LastKnown - 366
    BY <1>1
  <2> HIDE DEF D
  <2>2. \A d \in 0 .. LastKnown - 366 : \E x \in d .. d + 366 : IsDueDate(probe.repeat, x)
    BY ProbeRuns
  <2>3. \E x \in D - 367 .. (D - 367) + 366 : IsDueDate(probe.repeat, x)
    BY <2>1, <2>2
  <2>4. QED
    BY <1>1, <2>3
<1>3. e \in before
  <2>1. PICK h \in probe.times : TRUE
    BY <1>1
  <2>a. e \in Nat /\ e < D /\ h \in Hours
    BY <1>1, <1>2, <2>1
  <2>b. DayOf(e * PerDay + h) = e /\ e * PerDay + h \in Nat
    BY <2>a, TimesOfDay
  <2>2. DayOf(e * PerDay + h) < DayOf(t) /\ e * PerDay + h \in Nat
    BY <2>a, <2>b
  <2>3. e * PerDay + h < t
    BY <2>2, LaterDay
  <2>4. e \in days
    BY <1>1, <1>2
  <2>5. e * PerDay + h <= t
    BY <2>2, <2>3
  <2>6. QED
    BY <2>1, <2>4, <2>5
<1>4. latest \in before /\ \A d \in before : d <= latest
  <2>1. before \in SUBSET (0 .. D) /\ before # {} /\ D \in Nat
    BY <1>1, <1>3
  <2> HIDE DEF before, latest, D
  <2>2. Max(before) \in before /\ \A d \in before : d <= Max(before)
    BY <2>1, EndsOfDays
  <2>3. QED
    BY <2>2 DEF latest
<1>5. latest \in Nat /\ IsDueDate(probe.repeat, latest) /\ latest <= D /\ e <= latest
  BY <1>1, <1>3, <1>4
<1>6. p = Max(moments)
  BY <1>1, <1>3 DEF LastOccurrence
<1>7. moments # {} /\ moments \in SUBSET (0 .. (latest + 1) * PerDay)
  <2>1. PICK h \in probe.times : latest * PerDay + h <= t
    BY <1>4
  <2>2. \A k \in probe.times : latest * PerDay + k \in 0 .. (latest + 1) * PerDay
    BY <1>5, TimesBounded
  <2> HIDE DEF latest
  <2>3. QED
    BY <2>1, <2>2
<1> HIDE DEF days, before, latest, D, p
<1>8. p \in moments /\ \A x \in moments : x <= p
  <2>1. (latest + 1) * PerDay \in Nat
    BY <1>5, TimesBounded
  <2> HIDE DEF moments
  <2>2. QED
    BY <1>6, <1>7, <2>1, EndsOfDays
<1>9. PICK h \in probe.times : p = latest * PerDay + h /\ p <= t
  BY <1>8
<1>10. RunsAt(probe, p) /\ p \in Nat /\ DayOf(p) = latest
  BY <1>1, <1>5, <1>9, RunsOnDay, TimesOfDay DEF RunsAt
<1>11. ASSUME NEW x \in Nat, RunsAt(probe, x), x <= t PROVE x <= p
  <2>1. /\ DayOf(x) \in Nat /\ x = DayOf(x) * PerDay + HourOf(x)
        /\ HourOf(x) \in probe.times /\ IsDueDate(probe.repeat, DayOf(x))
    BY <1>11, MomentIsTime DEF RunsAt
  <2>2. DayOf(x) <= D
    BY <1>11, LaterDay DEF D
  <2>3. CASE DayOf(x) < latest
    BY <1>10, <2>3, LaterDay
  <2>4. CASE ~(DayOf(x) < latest)
    <3>1. DayOf(x) \in before
      <4>1. DayOf(x) \in days
        BY <1>1, <1>2, <1>5, <2>1, <2>2, <2>4 DEF days
      <4>2. DayOf(x) * PerDay + HourOf(x) <= t
        BY <1>11, <2>1
      <4>3. QED
        BY <2>1, <4>1, <4>2 DEF before
    <3>2. DayOf(x) = latest
      BY <1>4, <1>5, <2>1, <2>4, <3>1
    <3>3. x \in moments
      BY <1>11, <2>1, <3>2
    <3>4. QED
      BY <1>8, <3>3
  <2>5. QED
    BY <2>3, <2>4
<1>12. QED
  BY <1>9, <1>10, <1>11 DEF p

LEMMA FirstOfClock ==
    ASSUME NEW S \in SUBSET Days, S # {}
    PROVE  Min(S) \in S
<1>1. PICK n \in Nat : n = LastKnown - ScanDays /\ ScanDays \in Nat
  <2>1. YearStart[5] = 1461
    BY DEF YearStart
  <2>2. QED
    BY <2>1 DEF ScanDays, LastKnown
<1>2. S \in SUBSET (0 .. n)
  BY <1>1, ScheduleAssumption
<1>3. QED
  BY <1>2, EndsOfDays

LEMMA ClockStarts == ScheduleInit => today \in Days
BY FirstOfClock, ScheduleAssumption DEF ScheduleInit

LEMMA ClockStays == today \in Days /\ [ScheduleNext]_scheduleVars => (today \in Days)'
<1> SUFFICES ASSUME today \in Days, [ScheduleNext]_scheduleVars PROVE today' \in Days
  OBVIOUS
<1>1. CASE NextDay
  <2> DEFINE ahead == {d \in Days : d > today}
  <2>1. ahead \in SUBSET Days /\ ahead # {} /\ today' = Min(ahead)
    BY <1>1 DEF NextDay
  <2> HIDE DEF ahead
  <2>2. today' \in ahead
    BY <2>1, FirstOfClock
  <2>3. QED
    BY <2>1, <2>2
<1>2. CASE ~NextDay
  BY <1>2 DEF ScheduleNext, SaveSchedule, EditFile, ChangeEnv, scheduleVars
<1>3. QED
  BY <1>1, <1>2

LEMMA SearchOnDay == today \in Days => SearchFindsRuns
<1> SUFFICES ASSUME today \in Days, NEW probe \in Probes, NEW t \in Instants(today)
             PROVE  LET n == NextOccurrence(probe, t)
                        p == LastOccurrence(probe, t)
                    IN  /\ p # Never /\ n # Never /\ p <= t /\ t < n
                        /\ LastOccurrence(probe, n) = n
                        /\ LastOccurrence(probe, n - 1) = p
                        /\ IsDueDate(probe.repeat, DayOf(n)) /\ HourOf(n) \in probe.times
  BY DEF SearchFindsRuns
<1> DEFINE n == NextOccurrence(probe, t)
           p == LastOccurrence(probe, t)
<1>1. ScanDays = 400 /\ LastKnown = 1460 /\ today \in 400 .. 1060
  <2>1. YearStart[5] = 1461
    BY DEF YearStart
  <2>2. QED
    BY <2>1, ScheduleAssumption DEF ScanDays, LastKnown
<1>2. t \in Nat /\ DayOf(t) = today
  <2>1. PICK h \in Hours : t = today * PerDay + h
    BY DEF Instants
  <2>2. today \in Nat
    BY <1>1
  <2>3. QED
    BY <2>1, <2>2, TimesOfDay
<1>3. /\ RunsAt(probe, n) /\ t < n /\ DayOf(n) <= today + 367
      /\ \A x \in Nat : RunsAt(probe, x) /\ t < x => n <= x
  <2>1. DayOf(t) <= LastKnown - ScanDays
    BY <1>1, <1>2
  <2>2. QED
    BY <1>2, <2>1, NextIsFirst
<1>4. /\ RunsAt(probe, p) /\ p <= t
      /\ \A x \in Nat : RunsAt(probe, x) /\ x <= t => x <= p
  <2>1. DayOf(t) \in ScanDays .. LastKnown
    BY <1>1, <1>2
  <2>2. QED
    BY <1>2, <2>1, LastIsLatest
<1> HIDE DEF n, p
<1>5. n \in Nat /\ p \in Nat /\ n - 1 \in Nat /\ t <= n - 1 /\ n - 1 <= n
  BY <1>2, <1>3, <1>4 DEF RunsAt
<1>6. DayOf(n) \in ScanDays .. LastKnown /\ DayOf(n - 1) \in ScanDays .. LastKnown
  <2>1. DayOf(n) \in Nat /\ DayOf(n - 1) \in Nat
    BY <1>5, MomentIsTime
  <2>2. DayOf(t) <= DayOf(n - 1) /\ DayOf(n - 1) <= DayOf(n)
    BY <1>2, <1>5, LaterDay
  <2>3. today <= DayOf(n - 1) /\ DayOf(n) <= today + 367
    BY <1>2, <1>3, <2>2
  <2>4. QED
    BY <1>1, <2>1, <2>2, <2>3
<1>7. LastOccurrence(probe, n) = n
  <2> DEFINE q == LastOccurrence(probe, n)
  <2>1. RunsAt(probe, q) /\ q <= n /\ \A x \in Nat : RunsAt(probe, x) /\ x <= n => x <= q
    BY <1>5, <1>6, LastIsLatest
  <2> HIDE DEF q
  <2>2. n <= q /\ q \in Nat
    BY <1>3, <1>5, <2>1 DEF RunsAt
  <2>3. q = n
    BY <1>5, <2>1, <2>2
  <2>4. QED
    BY <2>3 DEF q
<1>8. LastOccurrence(probe, n - 1) = p
  <2> DEFINE q == LastOccurrence(probe, n - 1)
  <2>1. RunsAt(probe, q) /\ q <= n - 1 /\ \A x \in Nat : RunsAt(probe, x) /\ x <= n - 1 => x <= q
    BY <1>5, <1>6, LastIsLatest
  <2> HIDE DEF q
  <2>2. q \in Nat
    BY <2>1 DEF RunsAt
  <2>3. p <= n - 1
    BY <1>2, <1>4, <1>5
  <2>4. p <= q
    BY <1>4, <1>5, <2>1, <2>3
  <2>5. q <= t
    <3>1. ~(n <= q)
      BY <1>5, <2>1, <2>2
    <3>2. QED
      BY <1>2, <1>3, <2>1, <2>2, <3>1
  <2>6. q <= p
    BY <1>4, <2>1, <2>2, <2>5
  <2>7. q = p
    BY <1>5, <2>2, <2>4, <2>6
  <2>8. QED
    BY <2>7 DEF q
<1>9. p # Never /\ n # Never
  BY <1>5 DEF Never
<1>10. QED
  BY <1>3, <1>4, <1>7, <1>8, <1>9 DEF RunsAt, n, p

\* On every day the search ahead and the search back find each run of a schedule that is on, and
\* no moment that is not one, whatever days, dates, weeks and times it has (nextOccurrence and
\* lastOccurrence, src/shared/schedule.ts:229).
THEOREM SearchesFindRuns == ScheduleSpec => []SearchFindsRuns
<1>1. QED
  BY ClockStarts, ClockStays, SearchOnDay, PTL DEF ScheduleSpec

LEMMA OneWeek ==
    ASSUME NEW c \in Int, NEW n \in 1 .. 4
    PROVE  \E w \in 0 .. n - 1 : \A i \in 0 .. n - 1 : (c + i) % n = 0 <=> i = w
<1>1. CASE n = 1
  BY <1>1
<1>2. CASE n = 2
  <2>1. \E w \in 0 .. 1 : \A i \in 0 .. 1 : (c + i) % 2 = 0 <=> i = w
    <3>1. (c + 0) % 2 = 0 \/ (c + 1) % 2 = 0
      OBVIOUS
    <3>2. ~ ((c + 0) % 2 = 0 /\ (c + 1) % 2 = 0)
      OBVIOUS
    <3>3. QED
      BY <3>1, <3>2
  <2>2. QED
    BY <1>2, <2>1
<1>3. CASE n = 3
  <2>1. \E w \in 0 .. 2 : \A i \in 0 .. 2 : (c + i) % 3 = 0 <=> i = w
    <3>1. (c + 0) % 3 = 0 \/ (c + 1) % 3 = 0 \/ (c + 2) % 3 = 0
      OBVIOUS
    <3>2. \A i, j \in 0 .. 2 : (c + i) % 3 = 0 /\ (c + j) % 3 = 0 => i = j
      OBVIOUS
    <3>3. QED
      BY <3>1, <3>2
  <2>2. QED
    BY <1>3, <2>1
<1>4. CASE n = 4
  <2>1. \E w \in 0 .. 3 : \A i \in 0 .. 3 : (c + i) % 4 = 0 <=> i = w
    <3>1. (c + 0) % 4 = 0 \/ (c + 1) % 4 = 0 \/ (c + 2) % 4 = 0 \/ (c + 3) % 4 = 0
      OBVIOUS
    <3>2. \A i, j \in 0 .. 3 : (c + i) % 4 = 0 /\ (c + j) % 4 = 0 => i = j
      OBVIOUS
    <3>3. QED
      BY <3>1, <3>2
  <2>2. QED
    BY <1>4, <2>1
<1>5. QED
  BY <1>1, <1>2, <1>3, <1>4

LEMMA WeeksOnDay == today \in Days => WeeksAlternate
<1> SUFFICES ASSUME today \in Days, NEW probe \in Probes, probe.repeat.kind = "weekly"
             PROVE  LET dueIn(w) == {x \in probe.repeat.days : IsDueDate(probe.repeat,
                                       MondayOf(today) + 7 * w + ((x + 6) % 7))}
                        n == probe.repeat.interval
                    IN  /\ \A w \in 0 .. n - 1 : dueIn(w) \in {{}, probe.repeat.days}
                        /\ Cardinality({w \in 0 .. n - 1 : dueIn(w) # {}}) = 1
  BY DEF WeeksAlternate
<1>1. PICK repeat : repeat = probe.repeat /\ repeat.kind = "weekly" /\ Repeats(repeat)
  BY ScheduleAssumption
<1>2. /\ repeat.days # {} /\ repeat.days \subseteq 0 .. 6
      /\ repeat.interval \in 1 .. 4 /\ repeat.anchor \in Int
      /\ repeat.interval > 1 => repeat.anchor # NoAnchor
  BY <1>1 DEF Repeats
<1> DEFINE dueIn(w) == {x \in repeat.days : IsDueDate(repeat, MondayOf(today) + 7 * w + ((x + 6) % 7))}
           n == repeat.interval
<1>3. PICK u \in Int : MondayOf(today) = 7 * u + 4
  <2>1. today \in Int
    BY ScheduleAssumption DEF ScanDays, LastKnown
  <2>2. QED
    BY <2>1, MondayFacts
<1>4. PICK v \in Int : MondayOf(repeat.anchor) = 7 * v + 4
  BY <1>2, MondayFacts
<1>5. PICK w \in 0 .. n - 1 : \A i \in 0 .. n - 1 : ((u - v) + i) % n = 0 <=> i = w
  <2>1. u - v \in Int
    OBVIOUS
  <2>2. QED
    BY <1>2, <2>1, OneWeek
<1>6. ASSUME NEW i \in 0 .. n - 1, NEW x \in repeat.days
      PROVE  IsDueDate(repeat, MondayOf(today) + 7 * i + ((x + 6) % 7)) <=> i = w
  <2> DEFINE d == MondayOf(today) + 7 * i + ((x + 6) % 7)
  <2>1. d = 7 * (u + i) + 4 + ((x + 6) % 7)
    BY <1>2, <1>3
  <2>2. (x + 6) % 7 \in 0 .. 6 /\ (((x + 6) % 7) + 1) % 7 = x /\ u + i \in Int
    BY <1>2
  <2> HIDE DEF d
  <2>3. MondayOf(d) = 7 * (u + i) + 4 /\ Weekday(d) = x
    BY <2>1, <2>2, MondayFacts
  <2>4. WeeksBetween(d, repeat.anchor) = (u - v) + i
    <3>1. WeeksBetween(d, repeat.anchor) = ((7 * (u + i) + 4) - (7 * v + 4)) \div 7
      BY <1>4, <2>3 DEF WeeksBetween
    <3>2. PICK k \in Int : k = (u - v) + i
      BY <1>2
    <3>3. (7 * (u + i) + 4) - (7 * v + 4) = 7 * k
      BY <2>2, <3>2
    <3>4. (7 * k) \div 7 = k
      OBVIOUS
    <3>5. QED
      BY <3>1, <3>2, <3>3, <3>4
  <2>5. IsDueDate(repeat, d) <=> (n > 1 => ((u - v) + i) % n = 0)
    BY <1>1, <1>2, <2>3, <2>4 DEF IsDueDate
  <2>6. n = 1 => i = w
    BY <1>2
  <2>7. n > 1 \/ n = 1
    BY <1>2
  <2>8. IsDueDate(repeat, d) <=> i = w
    BY <1>5, <2>5, <2>6, <2>7
  <2>9. QED
    BY <2>8 DEF d
<1>7. \A i \in 0 .. n - 1 : dueIn(i) = IF i = w THEN repeat.days ELSE {}
  BY <1>6
<1> HIDE DEF dueIn
<1>8. {i \in 0 .. n - 1 : dueIn(i) # {}} = {w}
  BY <1>2, <1>7
<1>9. Cardinality({i \in 0 .. n - 1 : dueIn(i) # {}}) = 1
  BY <1>8, FS_Singleton
<1>10. \A i \in 0 .. n - 1 : dueIn(i) \in {{}, repeat.days}
  BY <1>7
<1>11. QED
  BY <1>1, <1>9, <1>10 DEF dueIn

LEMMA NormalRepeatKeeps ==
    ASSUME NEW id \in Jobs, NEW r, NEW now, NormalRepeat(id, r, now) # Invalid,
           r.kind = "weekly" => DOMAIN r = {"kind", "days", "interval", "anchor"}
    PROVE  LET repeat == NormalRepeat(id, r, now)
           IN  /\ repeat.kind = r.kind /\ repeat.kind \in Kinds(id)
               /\ r.kind = "weekly" => DOMAIN repeat = DOMAIN r /\ repeat.days = r.days
<1>1. r.kind \in Kinds(id) /\ Kinds(id) \subseteq {"daily", "weekly", "monthly"}
  BY DEF NormalRepeat, Kinds, Jobs
<1>2. CASE r.kind = "daily"
  BY <1>1, <1>2 DEF NormalRepeat
<1>3. CASE r.kind = "monthly"
  BY <1>1, <1>3 DEF NormalRepeat
<1>4. CASE r.kind = "weekly"
  <2>1. \/ NormalRepeat(id, r, now) = r
        \/ NormalRepeat(id, r, now) = [r EXCEPT !.anchor = NoAnchor]
        \/ NormalRepeat(id, r, now) = [r EXCEPT !.anchor = now]
    BY <1>1, <1>4 DEF NormalRepeat
  <2>2. QED
    BY <1>1, <1>4, <2>1
<1>5. QED
  BY <1>1, <1>2, <1>3, <1>4

\* What the rules let pass has its times in the day and does not meet the draw.
LEMMA NormalKeeps ==
    ASSUME NEW id \in Jobs, NEW raw, Shaped(raw), NEW now,
           NEW result, result = NormalizeJobSchedule(raw, id, now), result # Invalid
    PROVE  /\ Shaped(result) /\ result.times \subseteq Hours /\ result.repeat.kind \in Kinds(id)
           /\ ~HitsBlackout(id, result.repeat, result.times)
<1> DEFINE object == AsObject(raw)
           repeat == NormalRepeat(id, object.repeat, now)
<1>1. Shaped(object) /\ object.times = raw.times
  <2>1. CASE raw.form = "list"
    <3>1. object = [raw EXCEPT !.form = "object", !.enabled = TRUE, !.repeat = [kind |-> "daily"]]
      BY <2>1 DEF AsObject, Shaped
    <3>2. object.repeat = [kind |-> "daily"] /\ DOMAIN object = DOMAIN raw /\ object.times = raw.times
      BY <3>1 DEF Shaped
    <3>3. QED
      BY <3>2 DEF Shaped
  <2>2. CASE raw.form # "list"
    BY <2>2 DEF AsObject
  <2>3. QED
    BY <2>1, <2>2
<1> HIDE DEF object
<1>2. /\ repeat # Invalid /\ GoodTimes(id, object.times) /\ ~HitsBlackout(id, repeat, object.times)
      /\ result = [object EXCEPT !.repeat = repeat]
  BY DEF NormalizeJobSchedule, object
<1>3. /\ repeat.kind = object.repeat.kind /\ repeat.kind \in Kinds(id)
      /\ object.repeat.kind = "weekly" => DOMAIN repeat = DOMAIN object.repeat
  BY <1>1, <1>2, NormalRepeatKeeps DEF Shaped
<1> HIDE DEF repeat
<1>4. DOMAIN result = DOMAIN object /\ result.repeat = repeat /\ result.times = object.times
  BY <1>1, <1>2 DEF Shaped
<1>5. Bad \notin object.times
  BY <1>2 DEF GoodTimes
<1>6. Shaped(result)
  BY <1>1, <1>3, <1>4 DEF Shaped
<1>7. QED
  BY <1>1, <1>2, <1>3, <1>4, <1>5, <1>6 DEF Shaped

FileShaped == today \in Days /\ DOMAIN file \subseteq Jobs /\ \A id \in DOMAIN file : Shaped(file[id])

LEMMA FileStep == FileShaped /\ [ScheduleNext]_scheduleVars => FileShaped'
<1> SUFFICES ASSUME FileShaped, [ScheduleNext]_scheduleVars PROVE FileShaped'
  OBVIOUS
<1>1. today' \in Days
  BY ClockStays DEF FileShaped
<1>2. CASE UNCHANGED file
  BY <1>1, <1>2 DEF FileShaped
<1>3. CASE SaveSchedule
  <2>1. PICK ids \in SUBSET Jobs : \E patch \in [ids -> UNION {Written[id] : id \in ids}] :
          LET saved == [id \in ids |-> NormalizeJobSchedule(patch[id], id, today)]
              own == {id \in ids : saved[id] # Default(id, env)}
          IN  /\ \A id \in ids : patch[id] \in Written[id] /\ saved[id] # Invalid
              /\ file' = [id \in (DOMAIN file \ ids) \cup own |->
                             IF id \in own THEN saved[id] ELSE file[id]]
    BY <1>3 DEF SaveSchedule
  <2>2. PICK patch \in [ids -> UNION {Written[id] : id \in ids}] :
          LET saved == [id \in ids |-> NormalizeJobSchedule(patch[id], id, today)]
              own == {id \in ids : saved[id] # Default(id, env)}
          IN  /\ \A id \in ids : patch[id] \in Written[id] /\ saved[id] # Invalid
              /\ file' = [id \in (DOMAIN file \ ids) \cup own |->
                             IF id \in own THEN saved[id] ELSE file[id]]
    BY <2>1
  <2> DEFINE saved == [id \in ids |-> NormalizeJobSchedule(patch[id], id, today)]
             own == {id \in ids : saved[id] # Default(id, env)}
  <2>3. ASSUME NEW id \in ids PROVE Shaped(saved[id])
    <3>1. Shaped(patch[id]) /\ saved[id] = NormalizeJobSchedule(patch[id], id, today) /\ id \in Jobs
      BY <2>2, WrittenAssumption
    <3>2. saved[id] # Invalid
      BY <2>2
    <3> HIDE DEF saved
    <3>3. QED
      BY <3>1, <3>2, NormalKeeps
  <2>4. file' = [id \in (DOMAIN file \ ids) \cup own |-> IF id \in own THEN saved[id] ELSE file[id]]
    BY <2>2
  <2>5. own \subseteq ids
    OBVIOUS
  <2> HIDE DEF saved, own
  <2>6. DOMAIN file' \subseteq Jobs
    BY <2>4, <2>5 DEF FileShaped
  <2>7. ASSUME NEW id \in DOMAIN file' PROVE Shaped(file'[id])
    BY <2>3, <2>4, <2>5 DEF FileShaped
  <2>8. QED
    BY <1>1, <2>6, <2>7 DEF FileShaped, Shaped
<1>4. CASE EditFile
  <2>0. PICK id \in Jobs : \E raw \in Written[id] : file' = With(file, id, raw)
    BY <1>4 DEF EditFile
  <2>1. PICK raw \in Written[id] : file' = With(file, id, raw)
    BY <2>0
  <2>2. QED
    BY <1>1, <2>1, WrittenAssumption DEF With, FileShaped
<1>5. QED
  BY <1>2, <1>3, <1>4 DEF ScheduleNext, NextDay, ChangeEnv, scheduleVars

\* Whatever is read for the lottery has its times in the day, and not in the draw.
LEMMA LottoRead ==
    ASSUME FileShaped
    PROVE  LET lotto == GetSchedule["lotto"]
           IN  /\ lotto.times \subseteq Hours /\ lotto.repeat.kind = "weekly"
               /\ Evening \in lotto.times => Saturday \notin lotto.repeat.days
<1> DEFINE lotto == GetSchedule["lotto"]
           job_ == NormalizeJobSchedule(file["lotto"], "lotto", ReadAnchor)
           mended == NormalizeJobSchedule(Salvaged(file["lotto"]), "lotto", ReadAnchor)
<1>1. lotto = Read("lotto", ReadAnchor) /\ "lotto" \in Jobs
  BY DEF GetSchedule, Jobs
<1>2. CASE lotto = Default("lotto", env)
  <2>1. lotto = Weekly(0)
    BY <1>2 DEF Default
  <2>2. 0 \in Hours
    BY ScheduleAssumption
  <2> HIDE DEF lotto
  <2>3. QED
    BY <2>1, <2>2 DEF Weekly, Saturday, lotto
<1>3. ASSUME NEW raw, Shaped(raw), lotto = NormalizeJobSchedule(raw, "lotto", ReadAnchor), lotto # Invalid
      PROVE  /\ lotto.times \subseteq Hours /\ lotto.repeat.kind = "weekly"
             /\ Evening \in lotto.times => Saturday \notin lotto.repeat.days
  <2> HIDE DEF lotto
  <2>1. /\ lotto.times \subseteq Hours /\ lotto.repeat.kind \in Kinds("lotto")
        /\ ~HitsBlackout("lotto", lotto.repeat, lotto.times)
    BY <1>1, <1>3, NormalKeeps
  <2>2. QED
    BY <2>1 DEF Kinds, HitsBlackout
<1>4. CASE lotto # Default("lotto", env)
  <2>1. "lotto" \in DOMAIN file /\ ((lotto = job_ /\ job_ # Invalid) \/ (lotto = mended /\ mended # Invalid))
    BY <1>1, <1>4 DEF Read
  <2>2. Shaped(file["lotto"])
    BY <2>1 DEF FileShaped
  <2>3. Shaped(Salvaged(file["lotto"]))
    BY <2>2 DEF Shaped, Salvaged
  <2> HIDE DEF lotto
  <2>4. QED
    BY <1>3, <2>1, <2>2, <2>3 DEF lotto
<1>5. QED
  BY <1>2, <1>3, <1>4

\* Whatever the file holds, as it was saved, written by hand or left by an older version, no run
\* of the lottery is scheduled into the hours of the draw (lenientJob,
\* src/src/scheduler/schedule-store.ts:128).
THEOREM LottoKeepsOutOfDraw == ScheduleSpec => []NoRunInBlackout
<1>1. ScheduleInit => FileShaped
  BY ClockStarts DEF ScheduleInit, FileShaped
<1>2. FileShaped => NoRunInBlackout
  <2> SUFFICES ASSUME FileShaped, NEW d \in today .. today + 7, NEW h \in GetSchedule["lotto"].times,
                      IsDueDate(GetSchedule["lotto"].repeat, d), Blackout("lotto", d * PerDay + h)
               PROVE  FALSE
    BY DEF NoRunInBlackout
  <2>1. /\ h \in Hours /\ GetSchedule["lotto"].repeat.kind = "weekly"
        /\ Evening \in GetSchedule["lotto"].times => Saturday \notin GetSchedule["lotto"].repeat.days
    BY LottoRead
  <2>2. d \in Nat
    BY ScheduleAssumption DEF FileShaped, ScanDays, LastKnown
  <2>3. Weekday(d) = Saturday /\ h = Evening
    BY <2>1, <2>2, TimesOfDay DEF Blackout
  <2>4. Weekday(d) \in GetSchedule["lotto"].repeat.days
    BY <2>1 DEF IsDueDate
  <2>5. QED
    BY <2>1, <2>3, <2>4
<1>3. QED
  BY <1>1, <1>2, FileStep, PTL DEF ScheduleSpec

\* A schedule of every few weeks runs in whole weeks, from Monday on, and in exactly one of that
\* many weeks in a row, from whatever day it is counted (isDueDate, src/shared/schedule.ts:210).
THEOREM WeeksTakeTurns == ScheduleSpec => []WeeksAlternate
<1>1. QED
  BY ClockStarts, ClockStays, WeeksOnDay, PTL DEF ScheduleSpec
=============================================================================
