----------------------------- MODULE VideoBoard -----------------------------
(***************************************************************************)
(* The YouTube page in the browser, beside the server of module Videos.    *)
(* The page shows a click's effect at once and takes it back when the      *)
(* request fails; it polls while a collection runs and loads the list when *)
(* it has ended; and it marks the videos that were opened as watched when  *)
(* the user comes back to it.                                              *)
(*                                                                         *)
(* src/web/src/components/YoutubeBoard.tsx and the routes it calls.        *)
(* Requests arrive in the order they were sent.  Their responses may       *)
(* overtake each other, a request may fail before or after the server      *)
(* handled it, and the server may restart: these are the faults.           *)
(***************************************************************************)
EXTENDS Videos

VARIABLES
    page,        \* what is shown: [cards, watched, no], or None
    collecting,  \* the page says that a collection runs
    polling,     \* a poll of the status is under way
    pending,     \* pendingRef: opened videos, to be marked when the user is back
    hidden,      \* hiddenAtRef: the page was hidden after a video was opened
    notice,      \* autoNotice: the videos marked just now, or None
    up,          \* requests on their way, in order
    down,        \* responses on their way
    \* History, read by the properties alone:
    word         \* what the user last said of each video with the card's switch

client == <<page, collecting, polling, pending, hidden, notice, word>>
vars == <<serverVars, acts, client, up, down>>

Req(op, v) == [op |-> op, v |-> v, to |-> None, prev |-> None, group |-> {}]

List == [cards |-> Shown, watched |-> watched]

\* The page is being mounted, or it was and a video has been opened.
Init ==
    /\ VideosInit
    /\ \/ page = None /\ pending = {} /\ up = <<Req("load", None), Req("status", None)>>
       \/ page = List /\ up = <<>> /\ \E v \in Ids : pending = {v}
    /\ collecting = FALSE /\ polling = FALSE
    /\ hidden = FALSE /\ notice = None /\ down = <<>>
    /\ word = [v \in Ids |-> "nothing"]

-----------------------------------------------------------------------------
\* The user.  Every click counts among the acts.
Send(reqs) == up' = up \o reqs
OnPage == IF page = None THEN {} ELSE {v \in Ids : page.cards[v] # None}

SetWatched(ids, value) ==
    page' = IF page = None THEN None
            ELSE [page EXCEPT !.watched = IF value THEN @ \union ids ELSE @ \ ids]

\* Mutant: the video stays in the queue of those to be marked.
ToggleOnly(v) ==
    LET next == v \notin page.watched
    IN /\ Act /\ v \in OnPage
       /\ SetWatched({v}, next)
       /\ Send(<<Req(IF next THEN "mark" ELSE "unmark", v)>>)
       /\ word' = [word EXCEPT ![v] = IF next THEN "watched" ELSE "unwatched"]
       /\ UNCHANGED <<serverVars, collecting, polling, pending, hidden, notice, down>>

ToggleWatched(v) ==
    LET next == v \notin page.watched
    IN /\ Act /\ v \in OnPage
       /\ pending' = pending \ {v}
       /\ SetWatched({v}, next)
       /\ Send(<<Req(IF next THEN "mark" ELSE "unmark", v)>>)
       /\ word' = [word EXCEPT ![v] = IF next THEN "watched" ELSE "unwatched"]
       /\ UNCHANGED <<serverVars, collecting, polling, hidden, notice, down>>

\* Opening a video that is not marked leaves it to the page.
OpenVideo(v) ==
    /\ Act /\ v \in OnPage /\ v \notin page.watched
    /\ pending' = pending \union {v}
    /\ word' = [word EXCEPT ![v] = "nothing"]
    /\ UNCHANGED <<serverVars, page, collecting, polling, hidden, notice, up, down>>

Hide ==
    /\ pending # {} /\ ~hidden /\ hidden' = TRUE
    /\ UNCHANGED <<serverVars, page, collecting, polling, pending, notice, up, down, acts, word>>

\* Back after a few seconds: nothing is marked, the queue stays.
BackAtOnce ==
    /\ hidden /\ hidden' = FALSE
    /\ UNCHANGED <<serverVars, page, collecting, polling, pending, notice, up, down, acts, word>>

\* Requests for several videos, in some order.
Group(op, ids) ==
    LET nth == CHOOSE f \in Bijection(1 .. Cardinality(ids), ids) : TRUE
    IN [i \in 1 .. Cardinality(ids) |-> [Req(op, nth[i]) EXCEPT !.group = ids]]

Back ==
    /\ hidden /\ hidden' = FALSE
    /\ pending # {} /\ pending' = {}
    /\ SetWatched(pending, TRUE)
    /\ Send(Group("mark", pending))
    /\ UNCHANGED <<serverVars, collecting, polling, notice, down, acts, word>>

\* A video that was opened again is not taken out of the queue.
UndoAutoWatched ==
    /\ notice # None /\ Act
    /\ notice' = None
    /\ SetWatched(notice, FALSE)
    /\ Send(Group("unmark", notice))
    /\ word' = [v \in Ids |-> IF v \in notice \ pending THEN "unwatched" ELSE word[v]]
    /\ UNCHANGED <<serverVars, collecting, polling, pending, hidden, down>>

NoticeExpires ==
    /\ notice # None /\ notice' = None
    /\ UNCHANGED <<serverVars, page, collecting, polling, pending, hidden, up, down, acts, word>>

DismissVideo(v) ==
    /\ Act /\ v \in OnPage
    /\ page' = [page EXCEPT !.cards[v] = None]
    /\ Send(<<[Req("dismiss", v) EXCEPT !.prev = page]>>)
    /\ UNCHANGED <<serverVars, collecting, polling, pending, hidden, notice, down, word>>

\* The channel's cards go when the request has succeeded.
BlockChannel(v) ==
    /\ Act /\ v \in OnPage
    /\ Send(<<[Req("block", v) EXCEPT !.to = page.cards[v]]>>)
    /\ UNCHANGED <<serverVars, page, collecting, polling, pending, hidden, notice, down, word>>

MoveVideo(v, to) ==
    /\ Act /\ v \in OnPage /\ ~collecting /\ to # page.cards[v]
    /\ page' = [page EXCEPT !.cards[v] = to]
    /\ Send(<<[Req("move", v) EXCEPT !.prev = page, !.to = to]>>)
    /\ UNCHANGED <<serverVars, collecting, polling, pending, hidden, notice, down, word>>

Refresh ==
    /\ Act /\ ~collecting
    /\ Send(<<Req("refresh", None)>>)
    /\ UNCHANGED <<serverVars, page, collecting, polling, pending, hidden, notice, down, word>>

\* Every five seconds while the page says that a collection runs.
Poll ==
    /\ collecting /\ ~polling /\ polling' = TRUE
    /\ Send(<<Req("poll", None)>>)
    /\ UNCHANGED <<serverVars, page, collecting, pending, hidden, notice, down, acts, word>>

User ==
    \/ \E v \in Ids : \/ ToggleWatched(v) \/ OpenVideo(v) \/ DismissVideo(v)
                      \/ BlockChannel(v)
                      \/ \E k \in Range(defs) : MoveVideo(v, k)
    \/ Hide \/ BackAtOnce \/ Back \/ UndoAutoWatched \/ NoticeExpires \/ Refresh

-----------------------------------------------------------------------------
\* The server answers the next request.
Status == [collecting |-> isYoutubeCollecting]
Reply(r, ok, body) == [req |-> r, ok |-> ok, body |-> body]
Respond(ok, body) ==
    /\ up' = Tail(up) /\ down' = Append(down, Reply(Head(up), ok, body))
    /\ UNCHANGED <<client, acts>>

Serve ==
    /\ up # <<>>
    /\ LET r == Head(up)
       IN \/ /\ r.op = "load" /\ Respond(TRUE, List) /\ UNCHANGED serverVars
          \/ /\ r.op \in {"status", "poll"}
             /\ Respond(TRUE, Status) /\ UNCHANGED serverVars
          \/ r.op = "mark" /\ markWatched(r.v) /\ Respond(TRUE, None)
          \/ r.op = "unmark" /\ unmarkWatched(r.v) /\ Respond(r.v \in watched, None)
          \/ r.op = "dismiss" /\ addDismiss(r.v) /\ Respond(TRUE, None)
          \/ r.op = "block" /\ addBlock(ChannelOf[r.v], r.to) /\ Respond(TRUE, None)
          \/ /\ r.op = "move"
             /\ IF MoveAllowed(r.v, r.prev.cards[r.v], r.to)
                THEN moveYoutubeVideo(r.v, r.to) /\ Respond(TRUE, List')
                ELSE Respond(FALSE, None) /\ UNCHANGED serverVars
          \* 202, or 409, which the page takes for the same
          \/ r.op = "refresh" /\ StartCollection /\ Respond(TRUE, Status')
          \/ r.op = "refresh" /\ UNCHANGED serverVars /\ Respond(TRUE, Status)

\* The request is lost, or its response is: the server has handled it then.
RequestLost ==
    /\ Act /\ up # <<>>
    /\ up' = Tail(up) /\ down' = Append(down, Reply(Head(up), FALSE, None))
    /\ UNCHANGED <<serverVars, client>>

ResponseLost(i) ==
    /\ Act /\ i \in DOMAIN down /\ down[i].ok
    /\ down' = [down EXCEPT ![i] = Reply(@.req, FALSE, None)]
    /\ UNCHANGED <<serverVars, client, up>>

\* Files survive, the collection and every connection do not.
Restart ==
    /\ Act
    /\ job' = None /\ pinned' = NoPins
    /\ up' = <<>>
    /\ down' = down \o [i \in DOMAIN up |-> Reply(up[i], FALSE, None)]
    /\ UNCHANGED <<store, snap, runs, client>>

-----------------------------------------------------------------------------
\* The page gets a response.  Of videos marked together it waits for all.
KeepsQueue == UNCHANGED <<pending, hidden>>
Unsaid(ids) == word' = [v \in Ids |-> IF v \in ids THEN "nothing" ELSE word[v]]

GroupOf(r) == {j \in DOMAIN down : down[j].req.op = r.op /\ down[j].req.group = r.group}
Complete(j) == LET r == down[j].req
               IN r.group = {} \/ {down[m].req.v : m \in GroupOf(r)} = r.group

GotLoad(d) ==
    /\ d.req.op = "load"
    /\ page' = IF d.ok THEN d.body ELSE page
    /\ UNCHANGED <<up, collecting, polling, notice, word>>

\* applyStatus
ApplyStatus(d) == collecting' = IF d.ok THEN d.body.collecting ELSE collecting

GotStatus(d) ==
    /\ d.req.op = "status" /\ ApplyStatus(d)
    /\ UNCHANGED <<up, page, polling, notice, word>>

GotPoll(d) ==
    /\ d.req.op = "poll" /\ ApplyStatus(d) /\ polling' = FALSE
    /\ IF d.ok /\ ~d.body.collecting THEN Send(<<Req("load", None)>>) ELSE UNCHANGED up
    /\ UNCHANGED <<page, notice, word>>

GotRefresh(d) ==
    /\ d.req.op = "refresh"
    /\ collecting' = (d.ok \/ collecting)
    /\ UNCHANGED <<up, page, polling, notice, word>>

\* One card's switch: a failure puts this card back.
GotSwitch(d) ==
    /\ d.req.op \in {"mark", "unmark"} /\ d.req.group = {}
    /\ IF d.ok THEN UNCHANGED <<page, word>>
       ELSE SetWatched({d.req.v}, d.req.op = "unmark") /\ Unsaid({d.req.v})
    /\ UNCHANGED <<up, collecting, polling, notice>>

GotDismiss(d) ==
    /\ d.req.op = "dismiss"
    /\ page' = IF d.ok THEN page ELSE d.req.prev
    /\ UNCHANGED <<up, collecting, polling, notice, word>>

GotBlock(d) ==
    /\ d.req.op = "block"
    /\ page' = IF ~d.ok \/ page = None THEN page
               ELSE [page EXCEPT !.cards =
                        [v \in Ids |-> IF @[v] = d.req.to /\ ChannelOf[v] = ChannelOf[d.req.v]
                                       THEN None ELSE @[v]]]
    /\ UNCHANGED <<up, collecting, polling, notice, word>>

\* After a failed move, the page asks whether a collection runs.
GotMove(d) ==
    /\ d.req.op = "move"
    /\ page' = IF d.ok THEN d.body ELSE d.req.prev
    /\ IF d.ok THEN UNCHANGED up ELSE Send(<<Req("status", None)>>)
    /\ UNCHANGED <<collecting, polling, notice, word>>

\* autoMarkWatched, undoAutoWatched: what failed is put back, a notice
\* offers to undo the others.
GotGroup(r, idx) ==
    LET failed == {down[j].req.v : j \in {j \in idx : ~down[j].ok}}
    IN /\ IF failed = {} THEN UNCHANGED page ELSE SetWatched(failed, r.op = "unmark")
       /\ IF r.op = "unmark" THEN Unsaid(failed) ELSE UNCHANGED word
       /\ notice' = IF r.op = "mark" /\ failed # r.group THEN r.group \ failed ELSE notice
       /\ UNCHANGED <<up, collecting, polling>>

\* A response that overtakes another is a fault.
InTurn(idx) ==
    IF \A j \in 1 .. Max(idx) : j \in idx \/ ~Complete(j) THEN UNCHANGED acts ELSE Act

\* What is left of the responses, in their order.
Taken(idx) ==
    LET rest   == DOMAIN down \ idx
        Nth(j) == CHOOSE k \in rest : Cardinality({m \in rest : m <= k}) = j
    IN down' = [j \in 1 .. Cardinality(rest) |-> down[Nth(j)]]

ReceiveOne(i) ==
    LET d == down[i]
    IN /\ d.req.group = {}
       /\ InTurn({i}) /\ Taken({i}) /\ KeepsQueue /\ UNCHANGED serverVars
       /\ \/ GotLoad(d) \/ GotStatus(d) \/ GotPoll(d) \/ GotRefresh(d) \/ GotSwitch(d)
          \/ GotDismiss(d) \/ GotBlock(d) \/ GotMove(d)

ReceiveGroup(i) ==
    LET r == down[i].req
        idx == {Min({j \in GroupOf(r) : down[j].req.v = v}) : v \in r.group}
    IN /\ r.group # {} /\ Complete(i) /\ i = Min(idx)
       /\ InTurn(idx) /\ Taken(idx) /\ KeepsQueue /\ UNCHANGED serverVars
       /\ GotGroup(r, idx)

Receive == \E i \in DOMAIN down : ReceiveOne(i) \/ ReceiveGroup(i)

-----------------------------------------------------------------------------
\* Most dialogs make the page load the list anew.
Dialog ==
    /\ \/ Allow /\ Send(<<Req("load", None)>>)
       \/ Arrange /\ UNCHANGED up
    /\ UNCHANGED <<client, down>>

Expired(v) ==
    /\ Expire(v) /\ Unsaid({v})
    /\ UNCHANGED <<page, collecting, polling, pending, hidden, notice, up, down>>

Scheduled == StartCollection /\ UNCHANGED <<acts, client, up, down>>
Works == Collect /\ UNCHANGED <<acts, client, up, down>>
Fails == CollectionFails /\ UNCHANGED <<acts, client, up, down>>

Next ==
    \/ User \/ Poll \/ Serve \/ Receive
    \/ RequestLost \/ (\E i \in DOMAIN down : ResponseLost(i)) \/ Restart
    \/ Dialog \/ (\E v \in Ids : Expired(v))
    \/ Scheduled \/ Works \/ Fails

Spec == Init /\ [][Next]_vars

-----------------------------------------------------------------------------
TypeOK ==
    /\ VideosTypeOK
    /\ page # None => page.cards \in [Ids -> Keys \union {None}] /\ page.watched \subseteq Ids
    /\ collecting \in BOOLEAN /\ polling \in BOOLEAN /\ hidden \in BOOLEAN
    /\ pending \subseteq Ids /\ (notice # None => notice \subseteq Ids)

(* What the user says with a card's switch stands: once no request or      *)
(* failure of one is on its way, the server has the video as the user left *)
(* it last, whatever the page marked by itself when the user came back,    *)
(* before or in between.  A word whose request failed was taken back on    *)
(* the page, an opened video is left to the page again, and an exclusion   *)
(* that ran out is no word any more.                                       *)
LastWordStands ==
    (/\ \A i \in DOMAIN up : up[i].op \notin {"mark", "unmark"}
     /\ \A i \in DOMAIN down : down[i].req.op \in {"mark", "unmark"} => down[i].ok)
    => \A v \in Ids : /\ word[v] = "watched" => v \in watched
                      /\ word[v] = "unwatched" => v \notin watched
=============================================================================
