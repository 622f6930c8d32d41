--------------------------- MODULE EventCuration ---------------------------
(***************************************************************************)
(* How the events of the board come from what the agent answers (curate,   *)
(* src/src/events/curate.ts): links are checked against the results of the *)
(* search, dates read from a free text where need be, and what has ended,  *)
(* is elsewhere or comes twice is dropped; if the agent fails, the results *)
(* of the search stand in.                                                 *)
(*                                                                         *)
(* Days are numbered, the years having YearLength days; 0 stands for a     *)
(* date that is not known.  The sections of the board are sets: the order  *)
(* of the answer matters for doubles alone, of which the first is shown.   *)
(***************************************************************************)
EXTENDS Naturals, Sequences

CONSTANTS
    Venues,      \* MANDATORY_VENUES
    Titles,      \* titles that differ as titleKey sees them
    YearLength,
    Today        \* the days on which to collect

VARIABLES
    date,    \* the day of the collection
    corpus,  \* what the search found: at most one result (bound)
    answer,  \* what the agent wrote
    board    \* the snapshot

eventVars == <<date, corpus, answer, board>>

ASSUME CurationDays == YearLength \in Nat \ {0} /\ Today \subseteq Nat \ 0 .. 2

NoTitle == "untitled"
YearOf(d) == (d - 1) \div YearLength
DayOfYear(d) == ((d - 1) % YearLength) + 1

\* The sources of a link: the result of the search, the page or the front page
\* of a venue or ticket office, or the agent's mind.
Links == {"found", "official", "officialRoot", "invented", "none"}
Kinds == {"popup", "exhibition", "festival"}

\* A result of the search: good, if its host is reputable and it has a path.
Finds == [title : Titles, good : BOOLEAN, capital : BOOLEAN]

Brief(S) == {<<>>} \cup {<<e>> : e \in S}

EmptyBoard(source) ==
    [source |-> source, popups |-> {}, venues |-> [v \in Venues |-> {}], festivals |-> {}]

EventInit ==
    /\ date \in Today
    /\ corpus \in Brief(Finds)
    /\ answer = <<>> /\ board = EmptyBoard("none")

-----------------------------------------------------------------------------
\* When an event takes place, as the agent may give it: by date, in a text
\* without a year, or not at all; it has ended, ends, goes on or is to come.
Spans == {<<date - 2, date - 1>>, <<date - 1, date>>, <<date, date + 1>>, <<date + 1, date + 2>>}
Forms == {"dates", "period", "none"}

\* Bound: two entries, of which the second differs in its dates or its link.
\* An exhibition names halls by a name that fits a set of the venues.
Entries ==
    {e \in [kind : Kinds, at : SUBSET Venues, title : Titles \cup {NoTitle}, span : Spans, form : Forms,
            link : Links, capital : BOOLEAN] :
        /\ e.kind # "exhibition" => e.at = {}
        /\ e.kind # "popup" => e.capital}

Answers ==
    {<<e>> : e \in Entries}
    \cup {<<[e EXCEPT !.link = l], e>> : e \in {x \in Entries : x.form = "dates"}, l \in {"none", "found"}}

\* parsePeriod: a text without a year is taken for one of this year.
ThisYear(d) == YearOf(date) * YearLength + DayOfYear(d)

\* fillDates, after normDate.
From(e) == IF e.form = "dates" THEN e.span[1] ELSE IF e.form = "period" THEN ThisYear(e.span[1]) ELSE 0
Until(e) == IF e.form = "dates" THEN e.span[2] ELSE IF e.form = "period" THEN ThisYear(e.span[2]) ELSE 0

\* isEnded
isEnded(e) == Until(e) # 0 /\ Until(e) < date

\* computeTag: to come, about to end, or neither.
computeTag(e) ==
    IF From(e) > date THEN "upcoming"
    ELSE IF Until(e) # 0 /\ Until(e) >= date THEN "ending" ELSE "none"

\* acceptableLink: a reputable host and a path.
acceptableLink(l) == l = "official" \/ (l = "found" /\ corpus # <<>> /\ corpus[1].good)

\* matchCorpusLink: the result that the name of the event fits.
matchCorpusLink(title) ==
    IF corpus # <<>> /\ corpus[1].title = title /\ corpus[1].good THEN "found" ELSE "none"

\* resolveLink: a link from the search, a page of an official site, or else
\* what the search has for the name; and none of them unless acceptable.
resolveLink(e) ==
    LET candidate == IF e.link = "official" \/ (e.link = "found" /\ corpus # <<>>)
                        THEN e.link ELSE matchCorpusLink(e.title)
    IN  IF acceptableLink(candidate) THEN candidate ELSE "none"

\* normPopup, normExhibition, normFestival
Item(e) ==
    [title |-> e.title, link |-> resolveLink(e), from |-> From(e), until |-> Until(e), tag |-> computeTag(e),
     capital |-> e.capital]

\* An entry without a link that can be shown is not shown, and neither is one
\* that has ended.
Showable(e) == resolveLink(e) # "none" /\ ~isEnded(e)

\* dedupeByTitle: of the entries S of a list those that have a title which none
\* before has.
dedupeByTitle(list, S) ==
    {i \in S : list[i].title # NoTitle /\ \A j \in S : list[j].title = list[i].title => i <= j}

\* Mutant: doubles go before it is known which of them can be shown.
DedupedFirst(list, S) == {Item(list[i]) : i \in {k \in dedupeByTitle(list, S) : Showable(list[k])}}

\* One section of the board, of the entries S.
Section(list, S) == {Item(list[i]) : i \in dedupeByTitle(list, {k \in S : Showable(list[k])})}

OfKind(list, kind) == {i \in DOMAIN list : list[i].kind = kind}

\* isCapitalArea, for popups only.
Popups(list) == {i \in OfKind(list, "popup") : list[i].capital}

\* matchVenue: the halls that the agent lists under a name that fits v (the
\* first such group of them; the entries of an answer are of one group).
AtVenue(list, v) == {i \in OfKind(list, "exhibition") : v \in list[i].at}

\* curate
AgentCurates ==
    /\ board.source = "none"
    /\ answer' \in Answers
    /\ board' = [source |-> "llm",
                 popups |-> Section(answer', Popups(answer')),
                 venues |-> [v \in Venues |-> Section(answer', AtVenue(answer', v))],
                 festivals |-> Section(answer', OfKind(answer', "festival"))]
    /\ UNCHANGED <<date, corpus>>

\* rawSnapshot: the results as they are, without dates, whatever their link;
\* the result may be of the search for popups, for a venue or for festivals.
RawItem(r) ==
    [title |-> r.title, link |-> "found", from |-> 0, until |-> 0, tag |-> "none", capital |-> r.capital]

FallsBackToRaw ==
    /\ board.source = "none"
    /\ \E kind \in Kinds, at \in Venues :
           LET raw == {RawItem(corpus[i]) : i \in DOMAIN corpus}
           IN  board' = [source |-> "naver-raw",
                         popups |-> IF kind = "popup" THEN {r \in raw : r.capital} ELSE {},
                         venues |-> [v \in Venues |-> IF kind = "exhibition" /\ v = at THEN raw ELSE {}],
                         festivals |-> IF kind = "festival" THEN raw ELSE {}]
    /\ UNCHANGED <<date, corpus, answer>>

\* The next collection.
CollectAgain ==
    /\ board.source # "none"
    /\ date' \in Today /\ corpus' \in Brief(Finds)
    /\ answer' = <<>> /\ board' = EmptyBoard("none")

EventNext == AgentCurates \/ FallsBackToRaw \/ CollectAgain

EventSpec == EventInit /\ [][EventNext]_eventVars

-----------------------------------------------------------------------------
Listed(section) == {x.title : x \in section}

\* An entry that belongs on the board: it has a name, a page to look at and is
\* not over, by dates that are certain.
Belongs(e) ==
    /\ e.title # NoTitle
    /\ \/ e.link = "official"
       \/ corpus # <<>> /\ corpus[1].good /\ (e.link = "found" \/ corpus[1].title = e.title)
    /\ e.form = "none" \/ e.span[2] >= date
    /\ e.form = "period" => YearOf(e.span[1]) = YearOf(date) /\ YearOf(e.span[2]) = YearOf(date)
    /\ e.capital

(***************************************************************************)
(* The steps that drop entries neither leave one that must go nor take one *)
(* that belongs: nothing is shown that is over, elsewhere, unnamed, twice, *)
(* or without a page that the search or an official site has; and each     *)
(* event with such a page that is still on is in its section, even where   *)
(* the agent gives it twice, once without a link.                          *)
(***************************************************************************)
BoardStandsUp ==
    board.source = "llm" =>
        LET sections == {board.popups, board.festivals} \cup {board.venues[v] : v \in Venues}
        IN  /\ \A s \in sections : \A x \in s :
                   /\ x.link \in {"official", "found"} /\ x.title # NoTitle
                   /\ x.until = 0 \/ x.until >= date
                   /\ \A y \in s : x.title = y.title => x = y
            /\ \A x \in board.popups : x.capital
            /\ \A i \in DOMAIN answer : Belongs(answer[i]) =>
                   CASE answer[i].kind = "popup" -> answer[i].title \in Listed(board.popups)
                     [] answer[i].kind = "festival" -> answer[i].title \in Listed(board.festivals)
                     [] OTHER -> \A v \in answer[i].at : answer[i].title \in Listed(board.venues[v])
=============================================================================
