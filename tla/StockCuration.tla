--------------------------- MODULE StockCuration ---------------------------
(***************************************************************************)
(* What one briefing says: refreshStock gathers the prices of the          *)
(* registered stocks (gather), puts the holdings and what the pulses said  *)
(* of them beside (buildPositionRows, both in src/src/stock/stock.ts),     *)
(* lets the agent write, joins its words to the prices (normalizeCurated   *)
(* and toSnapshot in src/src/stock/curate.ts), and looks up each stock it  *)
(* recommends to watch (verifyWatchlist).  Meanwhile the user buys, sells  *)
(* and unregisters (src/src/stock/holdings.ts).                            *)
(*                                                                         *)
(* The agent may forget a stock, invent one, write its symbol in a form of *)
(* its own or leave a field out.  A headline counts as such; prices, and   *)
(* what is computed from them, as there or not.                            *)
(***************************************************************************)
EXTENDS Naturals

CONSTANTS
    Home,      \* companies of the market of the briefing
    Away,      \* companies of the other market
    MaxEdits   \* bound: changes that the user makes during the run

VARIABLES
    registered,  \* the stocks of this market
    held,        \* the holdings of this market
    stage,       \* what the run awaits
    quotes,      \* the registered stocks as they were gathered: is there a price
    indexed,     \* the index of the market: its card, and a value on it
    rows,        \* the holdings as the agent is told: a price, headlines of pulses
    told,        \* what the agent wrote, normalised
    tried,       \* queries made for the first stock of the watch list
    found,       \* the company that was found for it, as a set
    brief,       \* the snapshot
    edits

curationVars == <<registered, held, stage, quotes, indexed, rows, told, tried, found, brief, edits>>

Companies == Home \cup Away
Unknown == "unknown"
MarketOf(c) == IF c \in Home THEN "home" ELSE "away"

\* A symbol as the agent writes it: that of a company, exactly or in a form
\* that normalizeSymbol folds into it ("A005930"), or one of none.
Symbols == [of : Companies, exact : BOOLEAN] \cup {[of |-> Unknown, exact |-> TRUE]}
SymbolOf(c) == [of |-> c, exact |-> TRUE]

\* A section of the answer, of which the order is left out.  Bound: at most one entry.
Brief(S) == {{}} \cup {{e} : e \in S}

NoQuotes == [c \in {} |-> TRUE]
Nothing == [indices |-> {}, news |-> FALSE, analyses |-> {}, watchlist |-> {}, positions |-> {}]
NoBrief == [source |-> "none", index |-> {}, news |-> FALSE, analyses |-> {}, watchlist |-> {},
            positions |-> [c \in {} |-> "nothing"]]

CurationInit ==
    /\ registered \in SUBSET Home /\ held \in SUBSET registered
    /\ stage = "gather" /\ quotes = NoQuotes /\ indexed = {}
    /\ rows = [c \in {} |-> {}]
    /\ told = Nothing /\ tried = 0 /\ found = {} /\ brief = NoBrief /\ edits = 0

-----------------------------------------------------------------------------
\* createHolding: what is bought is registered as well, unless that fails,
\* which stops nothing.
Buy(c) ==
    /\ c \notin held
    /\ held' = held \cup {c}
    /\ \E mirrored \in BOOLEAN : registered' = IF mirrored THEN registered \cup {c} ELSE registered

Sell(c) == c \in held /\ held' = held \ {c} /\ UNCHANGED registered
Unregister(c) == c \in registered /\ registered' = registered \ {c} /\ UNCHANGED held

\* Bound: nothing reads the two lists after the prompt.
Edit ==
    /\ stage \in {"gather", "prompt"} /\ edits < MaxEdits
    /\ edits' = edits + 1
    /\ \E c \in Home : Buy(c) \/ Sell(c) \/ Unregister(c)
    /\ UNCHANGED <<stage, quotes, indexed, rows, told, tried, found, brief>>

\* gather: a price that cannot be had leaves its stock in the table.  The index
\* has a card, with or without a value, unless fetchIndexHistory throws.
gather ==
    /\ stage = "gather"
    /\ quotes' \in [registered -> BOOLEAN]
    /\ indexed' \in {{}, {"card"}, {"card", "value"}}
    /\ stage' = "prompt"
    /\ UNCHANGED <<registered, held, rows, told, tried, found, brief, edits>>

\* buildPositionRows, and pulseNotesBySymbol: the price of a holding is the one
\* gathered, if its stock was registered then.
buildPositionRows ==
    /\ stage = "prompt"
    /\ \E noted \in SUBSET held :
           rows' = [c \in held |->
                       {t \in {"price", "notes"} :
                           \/ t = "price" /\ c \in DOMAIN quotes /\ quotes[c]
                           \/ t = "notes" /\ c \in noted}]
    /\ stage' = "agent"
    /\ UNCHANGED <<registered, held, quotes, indexed, told, tried, found, brief, edits>>

-----------------------------------------------------------------------------
\* Bound: at most one entry of a section, and either the sections that are
\* compared with each other or one of the rest.
Answers ==
    LET analysed == [symbol : Symbols, reasons : SUBSET {"rationale", "risks"}]
        watched == [symbol : Symbols, name : Home \cup {Unknown}, reasons : {{"rationale"}, {"rationale", "risks"}}]
    IN  [indices : {{}}, news : BOOLEAN, analyses : Brief(analysed), watchlist : Brief(watched), positions : {{}}]
        \cup [indices : {{}}, news : {FALSE}, analyses : {{}}, watchlist : {{}},
              positions : Brief([symbol : Symbols, summary : BOOLEAN])]
        \cup [indices : Brief(SUBSET {"outlook", "rationale"}), news : {FALSE}, analyses : {{}}, watchlist : {{}},
              positions : {{}}]

\* normalizeIndexNarrative
normalizeIndexNarrative(said) == IF "rationale" \in said THEN said ELSE said \ {"outlook"}

\* normalizeAnalysisNarrative: no verdict without its reasons.
Reasoned(entry) == {"rationale", "risks"} \subseteq entry.reasons

\* normalizeCurated: what is analysed already is not watched, going by the
\* letters of the symbol.
normalizeCurated(a) ==
    LET analyses == {e \in a.analyses : Reasoned(e)}
        Fresh(w) == Reasoned(w) /\ \A e \in analyses : e.symbol # w.symbol
    IN  [a EXCEPT !.indices = {normalizeIndexNarrative(said) : said \in a.indices},
                  !.analyses = analyses,
                  !.watchlist = {w \in a.watchlist : Fresh(w)}]

-----------------------------------------------------------------------------
\* toSnapshot, the positions: the holdings decide, and where the agent sums
\* nothing up, the headlines of the pulses stand.
Positions(n) ==
    [c \in DOMAIN rows |->
        IF \E p \in n.positions : p.symbol = SymbolOf(c) /\ p.summary
           THEN "summary"
        ELSE IF "notes" \in rows[c] THEN "notes" ELSE "nothing"]

\* toSnapshot, the analyses: those of stocks in the table, with its price.
Analyses(n) ==
    {[company |-> e.symbol.of, reasons |-> e.reasons, verified |-> quotes[e.symbol.of]] :
        e \in {f \in n.analyses : \E c \in DOMAIN quotes : f.symbol = SymbolOf(c)}}

\* toSnapshot: the index card with what was said of it.
toSnapshot(n) ==
    [source |-> "llm",
     index |-> indexed \cup IF indexed = {} THEN {} ELSE UNION n.indices,
     news |-> n.news, analyses |-> Analyses(n), watchlist |-> {}, positions |-> Positions(n)]

\* emptySnapshot
CurateFails ==
    /\ stage = "agent"
    /\ brief' = [NoBrief EXCEPT !.source = "empty"]
    /\ stage' = "over"
    /\ UNCHANGED <<registered, held, quotes, indexed, rows, told, tried, found, edits>>

\* curateStock
AgentWrites ==
    /\ stage = "agent"
    /\ \E a \in Answers :
           /\ told' = normalizeCurated(a)
           /\ brief' = toSnapshot(told')
           /\ stage' = IF told'.watchlist = {} THEN "over" ELSE "search"
    /\ UNCHANGED <<registered, held, quotes, indexed, rows, tried, found, edits>>

-----------------------------------------------------------------------------
\* searchWatchItem asks by symbol, then by name.
Queries(w) == IF w.name = Unknown THEN 1 ELSE 2

\* Mutant: the first candidate will do.
AnyCandidate(candidates, w) == IF candidates = {} THEN {} ELSE {CHOOSE c \in candidates : TRUE}

\* pickWatchCandidate: the market of the briefing before the other, the symbol
\* before the name, and no third choice.
pickWatchCandidate(candidates, w) ==
    LET Pick(S) == IF w.symbol.of \in S THEN {w.symbol.of} ELSE {w.name} \cap S
        near == Pick(candidates \cap Home)
    IN  IF near # {} THEN near ELSE Pick(candidates \cap Away)

\* searchWatchItem, one query: it has any candidates, or fails, which counts as
\* none.  The last one that finds nothing drops the stock.
Search ==
    /\ stage = "search"
    /\ \E candidates \in SUBSET Companies, w \in told.watchlist :
           LET hit == pickWatchCandidate(candidates, w)
           IN  /\ found' = hit
               /\ IF hit # {} THEN stage' = "price" /\ UNCHANGED tried
                  ELSE /\ tried' = tried + 1
                       /\ stage' = IF tried' = Queries(w) THEN "over" ELSE "search"
    /\ UNCHANGED <<registered, held, quotes, indexed, rows, told, brief, edits>>

\* The entry of the watch list, with the market on which it was found.
Verified(c, price) == [company |-> c, market |-> MarketOf(c), priced |-> price]

\* verifyWatchlist: a stock without a price is dropped.
PriceOfWatched ==
    /\ stage = "price"
    /\ \E price \in BOOLEAN, c \in found :
           brief' = IF price THEN [brief EXCEPT !.watchlist = {Verified(c, price)}] ELSE brief
    /\ stage' = "over"
    /\ UNCHANGED <<registered, held, quotes, indexed, rows, told, tried, found, edits>>

\* The next briefing starts afresh.
NextBriefing ==
    /\ stage = "over"
    /\ stage' = "gather" /\ quotes' = NoQuotes /\ indexed' = {}
    /\ rows' = [c \in {} |-> {}]
    /\ told' = Nothing /\ tried' = 0 /\ found' = {} /\ brief' = NoBrief
    /\ UNCHANGED <<registered, held, edits>>

CurationNext ==
    \/ Edit
    \/ gather
    \/ buildPositionRows
    \/ CurateFails
    \/ AgentWrites
    \/ Search
    \/ PriceOfWatched
    \/ NextBriefing

CurationSpec == CurationInit /\ [][CurationNext]_curationVars

-----------------------------------------------------------------------------
\* quoteOutage: no index and no price of any stock, so that the slot stays open.
Outage == brief.source = "llm" /\ indexed = {} /\ quotes # NoQuotes /\ \A c \in DOMAIN quotes : ~quotes[c]

\* hasContent
HasContent ==
    brief.index # {} \/ brief.news \/ brief.analyses # {} \/ DOMAIN brief.positions # {}

\* What refreshStock makes of it: "good" is sent, "blank" handled unsent, and
\* the others leave the slot open.
Outcome ==
    IF brief.source = "empty" THEN "empty"
    ELSE IF Outage THEN "outage" ELSE IF HasContent THEN "good" ELSE "blank"

(***************************************************************************)
(* Whatever the agent forgets, invents or misspells, and whatever lookup   *)
(* fails: every holding it was told of is in the briefing, and so is what  *)
(* the pulses said of it; every verdict comes with its reasons and stands  *)
(* beside the price of the stock it is about; and a stock to watch is one  *)
(* that the agent named, with a price from its own market.                 *)
(***************************************************************************)
BriefingIsGrounded ==
    stage = "over" /\ brief.source = "llm" =>
        /\ \A c \in DOMAIN rows :
               /\ c \in DOMAIN brief.positions
               /\ "notes" \in rows[c] => brief.positions[c] # "nothing"
        /\ \A e \in brief.analyses :
               /\ e.company \in DOMAIN quotes /\ e.verified = quotes[e.company]
               /\ {"rationale", "risks"} \subseteq e.reasons
        /\ "outlook" \in brief.index => "rationale" \in brief.index
        /\ \A e \in brief.watchlist :
               /\ \E w \in told.watchlist : e.company \in {w.symbol.of, w.name}
               /\ e.priced /\ e.market = MarketOf(e.company)

\* The briefing was made, and no price and no index value could be had.
Priceless ==
    stage = "over" /\ quotes # NoQuotes /\ "value" \notin indexed /\ \A c \in DOMAIN quotes : ~quotes[c]

(***************************************************************************)
(* "If Naver is down, the list of indices is empty and the price of every  *)
(* registered stock null: such a state counts not as a success but as a    *)
(* failed collection, and the slot stays open" (section 4-b of             *)
(* refreshStock): a briefing without any price or index value is not sent. *)
(***************************************************************************)
OutageStaysOpen == Priceless => Outcome # "good"
=============================================================================
