------------------------------ MODULE MailAuth ------------------------------
(***************************************************************************)
(* The Google account that mails are sent with: tokens                     *)
(* (src/src/notify/google-auth.ts), sendMail and the text that reports a   *)
(* dead account (src/src/notify/mailer.ts), the consent routes             *)
(* (src/src/api/routes.ts) and the banner of the page                      *)
(* (src/web/src/components/MailAuthBanner.tsx).                            *)
(*                                                                         *)
(* A grant is what the user consents to, known by its refresh token.  It   *)
(* is alive until the user or Google revokes it.  One that was stored      *)
(* before scopes were recorded may lack the right to send.  The cached     *)
(* access token is the grant it was issued for, or NoGrant when there is   *)
(* none or it has expired.  Google returns the same refresh token at every *)
(* refresh.  The token file is written in one step with its copy in        *)
(* memory.                                                                 *)
(***************************************************************************)
EXTENDS Naturals, FiniteSets

CONSTANTS
    Senders,       \* the tabs' mails that may be on their way together
    Grants,        \* what the user can consent to
    NoGrant,
    MaxAttempts,   \* MAX_ATTEMPTS
    MaxFaults      \* bound: everything below that conjoins Fault

VARIABLES
    auth,       \* google-oauth.json and cached
    inFlight,   \* refreshInFlight: the senders whose call of it is awaited, or {}
    mail,       \* the call of sendMail of each sender
    alerted,    \* lastReauthAlertAt is less than REAUTH_ALERT_INTERVAL_MS ago
    told,       \* a text went out in that time, and no mail after it
    alive,      \* the grants that Google accepts
    scoped,     \* the grants that include gmail.send
    consent,    \* where the user is on the way through the consent screen
    ticket,     \* pendingOauthStates holds the state of that consent
    page,       \* what the banner shows
    faults

vars == <<auth, inFlight, mail, alerted, told, alive, scoped, consent, ticket, page, faults>>

NoAccount == [refresh |-> NoGrant, access |-> NoGrant, reauth |-> FALSE, scope |-> "unknown"]

CanSend == auth.scope \in {"unknown", "send"}
HasToken == auth.refresh # NoGrant
Connected == HasToken /\ ~auth.reauth /\ CanSend
NeedsReauth == auth.reauth \/ (HasToken /\ ~CanSend)

\* What the banner makes of the status it has read.
Shown == IF NeedsReauth THEN "warn" ELSE IF Connected THEN "line" ELSE "muted"

Idle == [stage |-> "idle", attempt |-> 1, grant |-> NoGrant, of |-> {}]
Ready(n) == [Idle EXCEPT !.stage = "ready", !.attempt = n]

Fault == faults < MaxFaults /\ faults' = faults + 1
NoFault == faults' = faults

userVars == <<consent, ticket, page>>
googleVars == <<alive, scoped>>

\* An old file may hold a grant without a recorded scope.
Init ==
    /\ \E g \in Grants :
        /\ alive = {g}
        /\ scoped \in {Grants, Grants \ {g}}
        /\ auth \in {NoAccount, [NoAccount EXCEPT !.refresh = g]}
    /\ inFlight = {}
    /\ mail = [s \in Senders |-> Idle]
    /\ alerted = FALSE /\ told = FALSE
    /\ consent = "none" /\ ticket = FALSE /\ page = "unknown"
    /\ faults = 0

-----------------------------------------------------------------------------

StartMail(s) ==
    /\ mail[s].stage = "idle"
    /\ mail' = [mail EXCEPT ![s] = Ready(1)]
    /\ UNCHANGED <<auth, inFlight, alerted, told, googleVars, userVars>> /\ NoFault

\* alertReauthNeeded for the senders of S: it looks at the time of the last
\* text, and awaits the text if that is long enough ago.
Alerting(S) ==
    [s \in Senders |->
        IF s \notin S THEN mail[s]
        ELSE IF alerted THEN Idle ELSE [Idle EXCEPT !.stage = "text"]]

Lost(S) == [s \in Senders |-> IF s \in S THEN Idle ELSE mail[s]]

\* getAccessToken up to its first await.
Refused(s) ==
    /\ mail[s].stage = "ready"
    /\ ~HasToken \/ auth.reauth
    /\ mail' = Alerting({s})
    /\ UNCHANGED <<auth, inFlight, alerted, told, googleVars, userVars>> /\ NoFault

UseAccessToken(s) ==
    /\ mail[s].stage = "ready" /\ HasToken /\ ~auth.reauth
    /\ auth.access # NoGrant
    /\ mail' = [mail EXCEPT ![s].stage = "post", ![s].grant = auth.access]
    /\ UNCHANGED <<auth, inFlight, alerted, told, googleVars, userVars>> /\ NoFault

NeedsToken(s) ==
    /\ mail[s].stage = "ready" /\ HasToken /\ ~auth.reauth
    /\ auth.access = NoGrant

JoinOrStart(s) ==
    IF inFlight = {}
    THEN /\ mail' = [mail EXCEPT ![s].stage = "refresh", ![s].grant = auth.refresh]
         /\ inFlight' = {s}
    ELSE /\ mail' = [mail EXCEPT ![s].stage = "wait", ![s].of = inFlight]
         /\ UNCHANGED inFlight

GetAccessToken(s) ==
    /\ NeedsToken(s)
    /\ JoinOrStart(s)
    /\ UNCHANGED <<auth, alerted, told, googleVars, userVars>> /\ NoFault

-----------------------------------------------------------------------------
(* refreshAccessToken: the answer, what is stored, and what every caller   *)
(* that awaits this refresh does then.  Its finally forgets whatever       *)
(* refresh is remembered.                                                  *)

Awaiting(s) == {s} \cup {w \in Senders : mail[w].stage = "wait" /\ s \in mail[w].of}

Refreshed(s, a) ==
    /\ mail[s].stage = "refresh"
    /\ auth' = a
    /\ inFlight' = {}
    /\ UNCHANGED <<alerted, told, googleVars, userVars>>

RefreshSucceeds(s) ==
    /\ mail[s].grant \in alive
    /\ Refreshed(s, [auth EXCEPT !.refresh = mail[s].grant, !.access = mail[s].grant,
                                 !.reauth = FALSE])
    /\ mail' = [w \in Senders |->
                    IF w \in Awaiting(s)
                    THEN [mail[w] EXCEPT !.stage = "post", !.grant = mail[s].grant, !.of = {}]
                    ELSE mail[w]]
    /\ NoFault

DeadIsTried(a) == [a EXCEPT !.access = NoGrant]

\* What invalid_grant leaves.
Dead(a) == [a EXCEPT !.access = NoGrant, !.reauth = TRUE]

RefreshIsDead(s) ==
    /\ mail[s].grant \notin alive
    /\ Refreshed(s, Dead(auth))
    /\ mail' = Alerting(Awaiting(s))
    /\ NoFault

\* Another error, or no answer at all.
RefreshFails(s) ==
    /\ Refreshed(s, auth) \/ Refreshed(s, [auth EXCEPT !.access = NoGrant, !.reauth = FALSE])
    /\ mail' = Lost(Awaiting(s))
    /\ Fault

-----------------------------------------------------------------------------
(* The answers of the Gmail API.                                           *)

clearReauthAlert == alerted' = FALSE

PostSucceeds(s) ==
    /\ mail[s].stage = "post" /\ mail[s].grant \in alive \cap scoped
    /\ mail' = Lost({s})
    /\ clearReauthAlert /\ told' = FALSE
    /\ UNCHANGED <<auth, inFlight, googleVars, userVars>> /\ NoFault

\* 401: whatever access token is cached now is dropped.
PostUnauthorized(s) ==
    /\ mail[s].stage = "post"
    /\ (mail[s].grant \notin alive /\ NoFault) \/ Fault
    /\ IF mail[s].attempt < MaxAttempts
       THEN /\ auth' = [auth EXCEPT !.access = NoGrant]
            /\ mail' = [mail EXCEPT ![s] = Ready(mail[s].attempt + 1)]
       ELSE mail' = Lost({s}) /\ UNCHANGED auth
    /\ UNCHANGED <<inFlight, alerted, told, googleVars, userVars>>

\* 403: the token is good, but not for sending.
PostForbidden(s) ==
    /\ mail[s].stage = "post" /\ mail[s].grant \in alive \ scoped
    /\ auth' = [auth EXCEPT !.reauth = TRUE]
    /\ mail' = Alerting({s})
    /\ UNCHANGED <<inFlight, alerted, told, googleVars, userVars>> /\ NoFault

\* A status worth another attempt, or one that is not, or no answer.
PostFails(s) ==
    /\ mail[s].stage = "post"
    /\ \/ mail' = Lost({s})
       \/ /\ mail[s].attempt < MaxAttempts
          /\ mail' = [mail EXCEPT ![s] = Ready(mail[s].attempt + 1)]
    /\ UNCHANGED <<auth, inFlight, alerted, told, googleVars, userVars>> /\ Fault

\* The text to the user: the time is recorded once it is out.
TextSent(s) ==
    /\ mail[s].stage = "text"
    /\ mail' = Lost({s})
    /\ alerted' = TRUE /\ told' = TRUE
    /\ UNCHANGED <<auth, inFlight, googleVars, userVars>> /\ NoFault

TextFails(s) ==
    /\ mail[s].stage = "text"
    /\ mail' = Lost({s})
    /\ UNCHANGED <<auth, inFlight, alerted, told, googleVars, userVars>> /\ Fault

-----------------------------------------------------------------------------
(* Time and Google.                                                        *)

\* An access token lives for an hour: that it expires in the midst of a mail
\* is rare, and bounded with the faults.
AccessExpires ==
    /\ auth.access # NoGrant
    /\ auth' = [auth EXCEPT !.access = NoGrant]
    /\ UNCHANGED <<inFlight, mail, alerted, told, googleVars, userVars>>
    /\ ((\A s \in Senders : mail[s].stage = "idle") /\ NoFault) \/ Fault

\* Six hours are over; no call lasts that long.
IntervalPasses ==
    /\ alerted /\ \A s \in Senders : mail[s].stage = "idle"
    /\ alerted' = FALSE /\ told' = FALSE
    /\ UNCHANGED <<auth, inFlight, mail, googleVars, userVars>> /\ NoFault

Revoke(g) ==
    /\ g \in alive
    /\ alive' = alive \ {g}
    /\ UNCHANGED <<auth, inFlight, mail, alerted, told, scoped, userVars>> /\ Fault

\* Mails, refreshes, tickets and exchanges of the old process are gone.
Restart ==
    /\ mail' = [s \in Senders |-> Idle] /\ inFlight' = {} /\ ticket' = FALSE
    /\ consent' = IF consent = "exchange" THEN "none" ELSE consent
    /\ page' = IF consent = "exchange" THEN "unknown" ELSE page
    /\ UNCHANGED <<auth, alerted, told, googleVars>> /\ Fault

-----------------------------------------------------------------------------
(* The user: banner, consent screen, disconnection.                        *)

\* "failed" is the banner of a consent that came back with an error; it
\* stays until the page is loaded anew.
Poll ==
    /\ page \notin {"away", "failed", Shown}
    /\ page' = Shown
    /\ UNCHANGED <<auth, inFlight, mail, alerted, told, googleVars, consent, ticket>> /\ NoFault

PollFails ==
    /\ page \notin {"away", "failed", "unknown"}
    /\ page' = "unknown"
    /\ UNCHANGED <<auth, inFlight, mail, alerted, told, googleVars, consent, ticket>> /\ Fault

startAuth ==
    /\ page \in {"warn", "muted", "failed"}
    /\ page' = "away" /\ consent' = "screen" /\ ticket' = TRUE
    /\ UNCHANGED <<auth, inFlight, mail, alerted, told, googleVars>> /\ NoFault

\* The callback: a ticket that has gone or a refusal ends it.
Callback ==
    /\ consent = "screen"
    /\ ticket' = FALSE
    /\ \/ ticket /\ consent' = "exchange" /\ UNCHANGED page /\ NoFault
       \/ ~ticket /\ consent' = "none" /\ page' = "failed" /\ NoFault
       \/ consent' = "none" /\ page' = "failed" /\ Fault
    /\ UNCHANGED <<auth, inFlight, mail, alerted, told, googleVars>>

InUse == {auth.refresh, auth.access} \cup {mail[s].grant : s \in Senders}

exchangeCode ==
    /\ consent = "exchange"
    /\ LET g == CHOOSE g \in Grants : g \notin InUse     \* a name for the new grant
        IN  /\ alive' = (alive \cap InUse) \cup {g} /\ scoped' = scoped \cup {g}
            /\ auth' = [refresh |-> g, access |-> g, reauth |-> FALSE, scope |-> "send"]
    /\ consent' = "none" /\ page' = "unknown"
    /\ UNCHANGED <<inFlight, mail, alerted, told, ticket>> /\ NoFault

\* No refresh token, the box for sending not ticked, or another failure.
ExchangeFails ==
    /\ consent = "exchange"
    /\ auth' \in {[auth EXCEPT !.reauth = TRUE],
                  [auth EXCEPT !.reauth = TRUE, !.scope = "other"], auth}
    /\ consent' = "none" /\ page' = "failed"
    /\ UNCHANGED <<inFlight, mail, alerted, told, googleVars, ticket>> /\ Fault

\* From this page or another one.
disconnect ==
    /\ HasToken
    /\ auth' = NoAccount /\ inFlight' = {} /\ ticket' = FALSE
    /\ page' = IF page = "line" THEN "unknown" ELSE page
    /\ UNCHANGED <<mail, alerted, told, googleVars, consent>> /\ Fault

-----------------------------------------------------------------------------

Answer(s) ==
    \/ Refused(s) \/ UseAccessToken(s) \/ GetAccessToken(s)
    \/ RefreshSucceeds(s) \/ RefreshIsDead(s)
    \/ PostSucceeds(s) \/ PostUnauthorized(s) \/ PostForbidden(s)
    \/ TextSent(s)

Next ==
    \/ \E s \in Senders :
        StartMail(s) \/ Answer(s) \/ RefreshFails(s) \/ PostFails(s) \/ TextFails(s)
    \/ AccessExpires \/ IntervalPasses \/ Restart \/ \E g \in Grants : Revoke(g)
    \/ Poll \/ PollFails \/ startAuth \/ Callback \/ exchangeCode \/ ExchangeFails \/ disconnect

\* Every tab goes on sending mails and every request is answered; the page
\* is open, and the user follows a warning.
Fairness ==
    /\ \A s \in Senders : WF_vars(StartMail(s)) /\ WF_vars(Answer(s))
    /\ WF_vars(Poll) /\ WF_vars(page \in {"warn", "failed"} /\ startAuth)
    /\ WF_vars(Callback) /\ WF_vars(exchangeCode)

Spec == Init /\ [][Next]_vars /\ Fairness

-----------------------------------------------------------------------------

\* The warning by text is held back only while a text that really went out
\* is less than six hours old and no mail has been sent since: a text that
\* failed, or an account that has worked in between, never silences the next
\* warning (alertReauthNeeded, clearReauthAlert).
SilenceOnlyAfterText == alerted => told

\* An account that can no longer send does not stay in force unnoticed: it is
\* found out by the mails that fail, shown, and replaced by a user who
\* follows the banner, or it is disconnected.
DeadAccountRecovers ==
    (HasToken /\ auth.refresh \notin alive \cap scoped)
        ~> (~HasToken \/ auth.refresh \in alive \cap scoped)

\* What a user has disconnected is connected again by a consent only, as the
\* comments of disconnect and of the route say.
DisconnectStands ==
    [][~HasToken /\ HasToken' => consent = "exchange"]_vars
=============================================================================
