----------------------------- MODULE GoogleSignIn -----------------------------
(***************************************************************************)
(* Signing in with Google: the app's authorization-code flow with its PKCE *)
(* record, which outlives the process (google_auth_codes.dart,             *)
(* pending_oauth.dart, auth_service.dart, session_controller.dart), the    *)
(* exchange on the server and the legacy browser flow, whose states live   *)
(* in the server's memory (auth/oauth.py).  An attempt's number stands for *)
(* its verifier, its challenge and its state.                              *)
(***************************************************************************)
EXTENDS Integers, Sequences, FiniteSets

CONSTANTS
  MaxAttempts, \* bound on sign-ins started in the app
  MaxKills,    \* bound on kills of the app
  MaxLogins,   \* bound on logins of the browser flow
  MaxStates    \* _MAX_PENDING_STATES

ASSUME SignInAssumption ==
  /\ MaxAttempts \in Nat /\ MaxKills \in Nat /\ MaxLogins \in Nat
  /\ MaxStates \in Nat \ {0}

Attempt == 1 .. MaxAttempts
Login == 1 .. MaxLogins
NoAttempt == 0
NoLink == [state |-> NoAttempt, ok |-> FALSE]
Link == [state : Attempt, ok : BOOLEAN]

VARIABLES
  running,  \* the app's process: "dead", "booting" or "up"
  link,     \* the link that launched it
  pending,  \* the stored record
  jwt,      \* the stored session
  opening,  \* attempts that have stored their record and open the browser
  waiting,  \* attempts whose future waits for a redirect
  inbox,    \* redirects on their way to a future: <<attempt, link>>
  results,  \* codes obtained, not yet posted: [code, verifier]
  posts,    \* exchanges under way: [code, verifier, live]
  page,     \* consent pages open in the browser
  started, kills,
  used,     \* codes Google has redeemed
  failed,   \* the network failed a post
  states, logins, \* the browser flow: its pending states and its logins
  closed,   \* history: logins whose callback came, or that a restart forgot
  posted    \* history: the posts made

app == <<running, link, pending, jwt, opening, waiting, inbox, results>>
browser == <<states, logins, closed>>
vars == <<app, posts, page, started, kills, used, failed, browser, posted>>

Init ==
  /\ running = "up" /\ link = NoLink
  /\ pending = NoAttempt /\ jwt = FALSE
  /\ opening = {} /\ waiting = {} /\ inbox = {} /\ results = {}
  /\ posts = {} /\ page = {}
  /\ started = 0 /\ kills = 0
  /\ used = {} /\ failed = FALSE
  /\ states = {} /\ logins = 0 /\ closed = {}
  /\ posted = <<>>

-----------------------------------------------------------------------------
\* The app.

\* obtainAuthorizationCode stores the record before the browser opens.
SavePending ==
  /\ running = "up" /\ ~jwt
  /\ started < MaxAttempts /\ started' = started + 1
  /\ pending' = started'
  /\ opening' = opening \cup {started'}
  /\ UNCHANGED <<running, link, jwt, waiting, inbox, results, posts, page, kills,
                 used, failed, browser, posted>>

\* The listener is there before the page; a browser that cannot open ends the
\* attempt and clears the record.
OpenBrowser(a) ==
  /\ running = "up" /\ a \in opening
  /\ opening' = opening \ {a}
  /\ \/ /\ waiting' = waiting \cup {a} /\ page' = page \cup {a}
        /\ UNCHANGED pending
     \/ /\ pending' = NoAttempt
        /\ UNCHANGED <<waiting, page>>
  /\ UNCHANGED <<running, link, jwt, inbox, results, posts, started, kills, used,
                 failed, browser, posted>>

\* The user agrees or refuses on a page; the redirect reaches every future
\* that waits for the scheme, or launches the app.
Redirect(a, ok) ==
  /\ a \in page /\ page' = page \ {a}
  /\ LET l == [state |-> a, ok |-> ok] IN
       IF running = "dead"
       THEN /\ running' = "booting" /\ link' = l
            /\ UNCHANGED <<waiting, inbox>>
       ELSE /\ inbox' = inbox \cup (waiting \X {l})
            /\ waiting' = {}
            /\ UNCHANGED <<running, link>>
  /\ UNCHANGED <<pending, jwt, opening, results, posts, started, kills, used, failed,
                 browser, posted>>

IsOurs(a, l) == l.state = a

\* A code is taken only from this request's callback; the record goes anyway.
Taken(a, l) ==
  IF IsOurs(a, l) /\ l.ok THEN {[code |-> l.state, verifier |-> a]} ELSE {}

Arrive(a, l) ==
  /\ running = "up" /\ <<a, l>> \in inbox
  /\ inbox' = inbox \ {<<a, l>>}
  /\ pending' = NoAttempt
  /\ results' = results \cup Taken(a, l)
  /\ UNCHANGED <<running, link, jwt, opening, waiting, posts, page, started, kills,
                 used, failed, browser, posted>>

\* Only the stored record and session survive; a post may still arrive.
Kill ==
  /\ running # "dead" /\ kills < MaxKills /\ kills' = kills + 1
  /\ running' = "dead"
  /\ opening' = {} /\ waiting' = {} /\ inbox' = {} /\ results' = {}
  /\ posts' = {[p EXCEPT !.live = FALSE] : p \in posts}
  /\ UNCHANGED <<link, pending, jwt, page, started, used, failed, browser, posted>>

\* The user opens the app, from its icon or once more with the link that
\* launched it before.
Launch(l) ==
  /\ running = "dead"
  /\ l \in {NoLink, link}
  /\ running' = "booting" /\ link' = l
  /\ UNCHANGED <<pending, jwt, opening, waiting, inbox, results, posts, page, started,
                 kills, used, failed, browser, posted>>

\* Bug: the record is dropped before the link is looked at.
RecoveredTooLate == {}

\* recoverPendingAuthorization: the launch link, against the stored record.
Recovered == IF link = NoLink THEN {} ELSE Taken(pending, link)

\* Bug: the record is kept after it has been recovered.
RecordKept == pending

RecordCleared == NoAttempt

\* SessionController.build: a stored session is enough; otherwise a pending
\* record meets the launch link, or is dropped.
Boot ==
  /\ running = "booting"
  /\ running' = "up"
  /\ IF jwt \/ pending = NoAttempt
     THEN UNCHANGED <<pending, results>>
     ELSE /\ pending' = RecordCleared
          /\ results' = results \cup Recovered
  /\ UNCHANGED <<link, jwt, opening, waiting, inbox, posts, page, started, kills, used,
                 failed, browser, posted>>

Post(r) ==
  /\ running = "up" /\ r \in results
  /\ results' = results \ {r}
  /\ posts' = posts \cup {[code |-> r.code, verifier |-> r.verifier, live |-> TRUE]}
  /\ posted' = Append(posted, r)
  /\ UNCHANGED <<running, link, pending, jwt, opening, waiting, inbox, page, started,
                 kills, used, failed, browser>>

\* exchange_code_pkce: Google redeems a code once, for its own verifier; the
\* answer, if the app is still there to hear it, is the session.
Exchange(p) ==
  /\ p \in posts /\ posts' = posts \ {p}
  /\ LET good == p.code \notin used /\ p.code = p.verifier IN
       /\ used' = IF good THEN used \cup {p.code} ELSE used
       /\ jwt' = (jwt \/ (good /\ p.live))
  /\ UNCHANGED <<running, link, pending, opening, waiting, inbox, results, page, started,
                 kills, failed, browser, posted>>

PostFails(p) ==
  /\ p \in posts /\ posts' = posts \ {p}
  /\ failed' = TRUE
  /\ UNCHANGED <<app, page, started, kills, used, browser, posted>>

SignOut ==
  /\ running = "up" /\ jwt
  /\ jwt' = FALSE
  /\ UNCHANGED <<running, link, pending, opening, waiting, inbox, results, posts, page,
                 started, kills, used, failed, browser, posted>>

-----------------------------------------------------------------------------
\* The browser flow.

\* Logins are numbered in the order in which their states were stored.
WithoutOldest == {s \in states : \E r \in states : r < s}

\* Bug: room is made one state too late.
RoomTooLate == IF Cardinality(states) > MaxStates THEN WithoutOldest ELSE states

\* Bug: the newest state makes room (popitem()).
RoomOfNewest ==
  IF Cardinality(states) >= MaxStates THEN {s \in states : \E r \in states : s < r} ELSE states

\* _remember_state: the oldest state makes room.
Room == IF Cardinality(states) >= MaxStates THEN WithoutOldest ELSE states

GoogleLogin ==
  /\ logins < MaxLogins /\ logins' = logins + 1
  /\ states' = Room \cup {logins'}
  /\ UNCHANGED <<app, posts, page, started, kills, used, failed, closed, posted>>

\* google_callback: a consent refused, or without a code, is answered before the
\* state is looked at and leaves it pending; a code pops it, whatever becomes of
\* the exchange; an unknown state, used, evicted or forgotten, is refused.
GoogleCallback(l) ==
  /\ l \in states
  /\ states' = states \ {l}
  /\ closed' = closed \cup {l}
  /\ UNCHANGED <<app, posts, page, started, kills, used, failed, logins, posted>>

\* The server restarts; its states are gone.
ServerRestart ==
  /\ states # {} /\ states' = {}
  /\ closed' = closed \cup states
  /\ UNCHANGED <<app, posts, page, started, kills, used, failed, logins, posted>>

AppGoesOn ==
  \/ Boot
  \/ \E a \in Attempt, l \in Link : Arrive(a, l)
  \/ \E r \in results : Post(r)
  \/ \E p \in posts : Exchange(p) \/ PostFails(p)

Next ==
  \/ AppGoesOn
  \/ SavePending \/ Kill \/ SignOut
  \/ \E a \in Attempt : OpenBrowser(a)
  \/ \E a \in Attempt, ok \in BOOLEAN : Redirect(a, ok)
  \/ \E l \in Link \cup {NoLink} : Launch(l)
  \/ GoogleLogin \/ ServerRestart
  \/ \E l \in Login : GoogleCallback(l)

Spec == Init /\ [][Next]_vars

\* The app's own steps and the calls under way go on; the user, the browser
\* and the system may do anything or nothing.
FairSpec == Spec /\ WF_vars(AppGoesOn)

-----------------------------------------------------------------------------
\* Properties.

\* Types of the state; what abandoned logins leave behind is bounded.
TypeOK ==
  /\ running \in {"dead", "booting", "up"} /\ link \in Link \cup {NoLink}
  /\ pending \in Attempt \cup {NoAttempt} /\ jwt \in BOOLEAN
  /\ opening \cup waiting \cup page \cup used \subseteq Attempt
  /\ inbox \subseteq Attempt \X Link
  /\ results \subseteq [code : Attempt, verifier : Attempt]
  /\ posts \subseteq [code : Attempt, verifier : Attempt, live : BOOLEAN]
  /\ states \cup closed \subseteq Login /\ Cardinality(states) <= MaxStates

\* A code is exchanged with the verifier of the request it answers, and only
\* once, also when the process was killed, relaunched with the same link, or
\* several sign-ins were open at a time.
CodesMatchOnce ==
  /\ \A i \in DOMAIN posted : posted[i].code = posted[i].verifier
  /\ \A i, j \in DOMAIN posted : posted[i].code = posted[j].code => i = j

\* A consent that finds the app killed is not lost: the redirect that launches
\* the app again ends in a session, if no other attempt has replaced the
\* record, the app is not killed again and the network holds.
InterruptedSignInCompletes ==
  (running = "booting" /\ link.ok /\ pending = link.state /\ link.state \notin used)
    ~> (jwt \/ running = "dead" \/ failed)

\* Only old logins make room: one that fewer than _MAX_PENDING_STATES logins have
\* followed can still be completed, however many before it were abandoned, unless
\* its callback has come or the server has restarted since (oauth.py:26-29).
RecentLoginsKept ==
  \A l \in 1 .. logins : logins - l < MaxStates => l \in states \cup closed
=============================================================================
