------------------------------- MODULE Digests -------------------------------
(***************************************************************************)
(* The evening digest: the tick that sends it (reminder_scheduler.py,      *)
(* reminders.py, push_sender.py), the registrations it is sent to          *)
(* (devices.py) and the shared phone that makes them (push_service.dart,   *)
(* session_controller.dart).  The phone's calls travel on their own: one   *)
(* may arrive after later ones, or not at all.                             *)
(***************************************************************************)
EXTENDS Integers, FiniteSets

CONSTANTS
  User, Token,
  MaxCalls,   \* bound on the phone's calls
  MaxSignIns, \* bound on sign-ins
  MaxTicks,   \* bound on ticks in the reminder hour
  MaxLosses,  \* bound on lost calls, expired sessions, failures,
              \* deletions and restarts
  Nobody, NoToken

ASSUME DigestsAssumption ==
  /\ Nobody \notin User /\ NoToken \notin Token
  /\ MaxCalls \in Nat /\ MaxSignIns \in Nat /\ MaxTicks \in Nat /\ MaxLosses \in Nat

VARIABLES
  device,   \* devices, by token: [user, live]; user Nobody if there is no row
  alive,    \* accounts that are not deleted
  busy,     \* users whose calendar has events tomorrow
  reminded, \* users.last_reminder_date, a day
  day, tick, ticks,
  phone,    \* the app: session, its push service (starting: starts that wait
            \* for a token) and its current token
  calls,    \* its calls that have not been answered
  made, signIns, losses,
  digests,  \* history: how often a day's digest was sent to a user who had no
            \* unrecorded one
  unnoted,  \* history: <<day, user>> sent, but not recorded
  tidy      \* history: the session's registration was stored, and neither a call of
            \* an earlier session nor a deletion fell between its two steps

server == <<device, alive, reminded>>
vars == <<server, busy, day, tick, ticks, phone, calls, made, signIns, losses,
          digests, unnoted, tidy>>

NoRow == [user |-> Nobody, live |-> FALSE]
Rest == [pc |-> "rest", todo |-> {}, user |-> Nobody, tokens |-> {}]
Call == 1 .. MaxCalls

Init ==
  /\ device = [k \in Token |-> NoRow]
  /\ alive = User
  /\ busy \in {B \in SUBSET User : B # {}}
  /\ reminded = [u \in User |-> 0]
  /\ day = 1 /\ tick = Rest /\ ticks = 0
  /\ \E k \in Token :
       phone = [session |-> Nobody, started |-> FALSE, starting |-> 0, listening |-> FALSE,
                last |-> NoToken, token |-> k, leaving |-> 0, spent |-> {}]
  /\ calls = {}
  /\ made = 0 /\ signIns = 0 /\ losses = 0
  /\ digests = [d \in 1 .. MaxTicks + 1 |-> [u \in User |-> 0]]
  /\ unnoted = {} /\ tidy = FALSE

Lose == losses < MaxLosses /\ losses' = losses + 1

-----------------------------------------------------------------------------
\* The phone.

Sends(kind, u, k, start) ==
  /\ made < MaxCalls /\ made' = made + 1
  /\ calls' = calls \cup {[id |-> made', kind |-> kind, user |-> u, token |-> k,
                           session |-> signIns, start |-> start, heard |-> TRUE,
                           found |-> FALSE, row |-> NoRow, clean |-> FALSE]}

Stopped(p) == [p EXCEPT !.started = FALSE, !.listening = FALSE, !.last = NoToken]
SignedOut(p) == [p EXCEPT !.session = Nobody, !.leaving = 0]

SignIn(u) ==
  /\ phone.session = Nobody /\ signIns < MaxSignIns
  /\ signIns' = signIns + 1
  /\ phone' = [phone EXCEPT !.session = u]
  /\ alive' = alive \cup {u}
  /\ tidy' = FALSE
  /\ UNCHANGED <<device, reminded, busy, day, tick, ticks, calls, made, losses,
                 digests, unnoted>>

\* PushService.start up to its first await.
Start ==
  /\ phone.session # Nobody /\ ~phone.started /\ phone.leaving = 0
  /\ phone' = [phone EXCEPT !.started = TRUE, !.starting = @ + 1]
  /\ UNCHANGED <<server, busy, day, tick, ticks, calls, made, signIns, losses,
                 digests, unnoted, tidy>>

\* The token is there: it is registered for whoever is signed in by now; with
\* nobody signed in a 401 resets the phone, whose start goes on all the same.
StartRegisters ==
  /\ phone.starting > 0
  /\ LET p == [phone EXCEPT !.starting = @ - 1, !.last = phone.token] IN
       IF phone.session = Nobody
       THEN /\ phone' = [Stopped(p) EXCEPT !.listening = TRUE]
            /\ UNCHANGED <<calls, made>>
       ELSE /\ phone' = p
            /\ Sends("register", phone.session, phone.token, TRUE)
  /\ UNCHANGED <<server, busy, day, tick, ticks, signIns, losses, digests, unnoted, tidy>>

\* FCM gives the phone a new token; the old one is dead for good.
Rotate(k) ==
  /\ k \notin phone.spent \cup {phone.token} /\ phone.session # Nobody
  /\ tidy' = FALSE
  /\ IF phone.listening
     THEN /\ phone' = [phone EXCEPT !.token = k, !.last = k, !.spent = @ \cup {phone.token}]
          /\ Sends("register", phone.session, k, FALSE)
     ELSE /\ phone' = [phone EXCEPT !.token = k, !.spent = @ \cup {phone.token}]
          /\ UNCHANGED <<calls, made>>
  /\ UNCHANGED <<server, busy, day, tick, ticks, signIns, losses, digests, unnoted>>

\* signOut: the push service stops and awaits its unregistration, if it ever
\* had a token; then the session goes.
SignOut ==
  /\ phone.session # Nobody /\ phone.leaving = 0
  /\ tidy' = FALSE
  /\ IF phone.last = NoToken
     THEN /\ phone' = SignedOut(Stopped(phone))
          /\ UNCHANGED <<calls, made>>
     ELSE /\ Sends("unregister", phone.session, phone.last, FALSE)
          /\ phone' = [Stopped(phone) EXCEPT !.leaving = made']
  /\ UNCHANGED <<server, busy, day, tick, ticks, signIns, losses, digests, unnoted>>

\* handleUnauthorized: a 401 resets the phone and tells the server nothing.
Unauthorized ==
  /\ phone.session # Nobody /\ Lose
  /\ phone' = SignedOut(Stopped(phone))
  /\ tidy' = FALSE
  /\ UNCHANGED <<server, busy, day, tick, ticks, calls, made, signIns, digests, unnoted>>

\* A call is answered, refused with a 401 or broken: a sign-out that waited for
\* it goes on, and the start that made it listens for rotations, whatever
\* happened to the session meanwhile.
Answered(c, refused) ==
  /\ calls' = calls \ {c}
  /\ LET p == IF refused THEN SignedOut(Stopped(phone))
              ELSE IF phone.leaving = c.id THEN SignedOut(phone) ELSE phone
     IN  phone' = IF c.heard THEN [p EXCEPT !.listening = @ \/ c.start] ELSE phone

LoseCall(c) ==
  /\ Lose
  /\ Answered(c, FALSE)
  /\ tidy' = FALSE
  /\ UNCHANGED <<server, busy, day, tick, ticks, made, signIns, digests, unnoted>>

\* The connection breaks while the call goes on.
GiveUp(c) ==
  /\ phone.leaving = c.id /\ Lose
  /\ phone' = SignedOut(phone)
  /\ calls' = (calls \ {c}) \cup {[c EXCEPT !.heard = FALSE]}
  /\ UNCHANGED <<server, busy, day, tick, ticks, made, signIns, digests, unnoted, tidy>>

-----------------------------------------------------------------------------
\* Registrations.

\* register_device reads the token's row, which may be gone (deleted_at) or none.
FindDevice(c) ==
  /\ c.kind = "register" /\ ~c.found
  /\ IF c.user \in alive
     THEN /\ calls' = (calls \ {c}) \cup
                      {[c EXCEPT !.found = TRUE, !.row = device[c.token],
                                 !.clean = \A d \in calls : d.session = signIns]}
          /\ UNCHANGED phone
     ELSE Answered(c, TRUE)
  /\ tidy' = (tidy /\ c.user \in alive)
  /\ UNCHANGED <<server, busy, day, tick, ticks, made, signIns, losses, digests, unnoted>>

\* Bug: the row keeps the account that registered it first.
FirstRegistrationWins(c) ==
  [user |-> IF device[c.token].user = Nobody THEN c.user ELSE device[c.token].user,
   live |-> device[c.token].live \/ ~c.row.live]

\* One row per token, the last registration wins; of the row that was read, the
\* commit writes only the columns the registration changes.
LastRegistrationWins(c) ==
  [user |-> IF c.row.user # c.user THEN c.user ELSE device[c.token].user,
   live |-> device[c.token].live \/ ~c.row.live]

\* No row was read, but by now another request has inserted the token's one.
Conflict(c) == c.row.user = Nobody /\ device[c.token].user # Nobody

\* ... and then commits the row.
Register(c) ==
  /\ c.kind = "register" /\ c.found /\ ~Conflict(c)
  /\ Answered(c, FALSE)
  /\ device' = [device EXCEPT ![c.token] = LastRegistrationWins(c)]
  /\ tidy' = (tidy \/ /\ c.clean /\ c.session = signIns /\ c.token = phone.token
                      /\ phone.session # Nobody /\ phone.leaving = 0)
  /\ UNCHANGED <<alive, reminded, busy, day, tick, ticks, made, signIns, losses,
                 digests, unnoted>>

\* The unique token index refuses the second of two first registrations.
RegistrationConflicts(c) ==
  /\ c.kind = "register" /\ c.found /\ Conflict(c)
  /\ Answered(c, FALSE)
  /\ UNCHANGED <<server, busy, day, tick, ticks, made, signIns, losses, digests, unnoted,
                 tidy>>

\* unregister_device finds the caller's own row first...
FindRow(c) ==
  /\ c.kind = "unregister" /\ ~c.found
  /\ IF c.user \in alive /\ device[c.token] = [user |-> c.user, live |-> TRUE]
     THEN calls' = (calls \ {c}) \cup {[c EXCEPT !.found = TRUE]} /\ UNCHANGED phone
     ELSE Answered(c, c.user \notin alive)
  /\ tidy' = (tidy /\ c.user \in alive)
  /\ UNCHANGED <<server, busy, day, tick, ticks, made, signIns, losses, digests, unnoted>>

\* ... and then marks that row, whoever it belongs to by now.
Unregister(c) ==
  /\ c.kind = "unregister" /\ c.found
  /\ Answered(c, FALSE)
  /\ device' = [device EXCEPT ![c.token].live = FALSE]
  /\ UNCHANGED <<alive, reminded, busy, day, tick, ticks, made, signIns, losses,
                 digests, unnoted, tidy>>

\* delete_account takes the user's devices along, also from under a registration
\* that has read its row.
DeleteAccount(u) ==
  /\ u \in alive /\ Lose
  /\ alive' = alive \ {u}
  /\ device' = [k \in Token |-> IF device[k].user = u THEN [device[k] EXCEPT !.live = FALSE]
                                ELSE device[k]]
  /\ calls' = {[c EXCEPT !.clean = FALSE] : c \in calls}
  /\ tidy' = (tidy /\ phone.session # u)
  /\ UNCHANGED <<reminded, busy, day, tick, ticks, phone, made, signIns, digests, unnoted>>

-----------------------------------------------------------------------------
\* The tick.

TokensOf(u) == {k \in Token : device[k] = [user |-> u, live |-> TRUE]}

\* The reminder hour begins, on another day or again.
TickStarts(d) ==
  /\ tick = Rest /\ ticks < MaxTicks
  /\ d \in {day, day + 1}
  /\ day' = d /\ ticks' = ticks + 1
  /\ tick' = [Rest EXCEPT !.pc = "next", !.todo = {u \in alive : TokensOf(u) # {}}]
  /\ UNCHANGED <<server, busy, phone, calls, made, signIns, losses, digests, unnoted, tidy>>

\* Bug: whoever was reminded today is reminded again.
DueWhenever(u) == u \in alive /\ u \in busy

Due(u) == u \in alive /\ reminded[u] # day /\ u \in busy

\* A user's row, events and tokens are read.
TakeUser(u) ==
  /\ tick.pc = "next" /\ u \in tick.todo
  /\ tick' = IF Due(u)
             THEN [tick EXCEPT !.pc = "send", !.user = u, !.tokens = TokensOf(u)]
             ELSE [tick EXCEPT !.todo = @ \ {u}]
  /\ UNCHANGED <<server, busy, day, ticks, phone, calls, made, signIns, losses,
                 digests, unnoted, tidy>>

\* The push goes out; a failure is swallowed and reports no dead token.
Send ==
  /\ tick.pc = "send"
  /\ \/ /\ tick.tokens # {}
        /\ digests' = [digests EXCEPT ![day][tick.user] =
                          IF <<day, tick.user>> \in unnoted THEN @ ELSE @ + 1]
        /\ unnoted' = unnoted \cup {<<day, tick.user>>}
        /\ tick' = [tick EXCEPT !.pc = "note", !.tokens = @ \cap phone.spent]
        /\ UNCHANGED losses
     \/ /\ IF tick.tokens = {} THEN UNCHANGED losses ELSE Lose
        /\ tick' = [tick EXCEPT !.pc = "note", !.tokens = {}]
        /\ UNCHANGED <<digests, unnoted>>
  /\ UNCHANGED <<server, busy, day, ticks, phone, calls, made, signIns, tidy>>

NextUser == [tick EXCEPT !.pc = "next", !.todo = @ \ {tick.user}, !.user = Nobody,
                         !.tokens = {}]

\* Bug: the day of the events is noted, not the day of the reminder.
NotedTomorrow == day + 1

Noted == day

\* Dead tokens are dropped and the day noted, in one commit.
Note ==
  /\ tick.pc = "note"
  /\ device' = [k \in Token |-> IF k \in tick.tokens THEN [device[k] EXCEPT !.live = FALSE]
                                ELSE device[k]]
  /\ reminded' = [reminded EXCEPT ![tick.user] = Noted]
  /\ unnoted' = unnoted \ {<<day, tick.user>>}
  /\ tick' = NextUser
  /\ UNCHANGED <<alive, busy, day, ticks, phone, calls, made, signIns, losses, digests, tidy>>

\* Bug: one user's failure ends the tick.
AfterFailureStop == Rest

AfterFailure == NextUser

\* Any of a user's steps may fail; the failure is logged and the tick goes on.
UserFails ==
  /\ tick.pc \in {"send", "note"} /\ Lose
  /\ tick' = AfterFailure
  /\ UNCHANGED <<server, busy, day, ticks, phone, calls, made, signIns, digests,
                 unnoted, tidy>>

TickEnds ==
  /\ tick.pc = "next" /\ tick.todo = {}
  /\ tick' = Rest
  /\ UNCHANGED <<server, busy, day, ticks, phone, calls, made, signIns, losses,
                 digests, unnoted, tidy>>

\* The server process dies: the tick and the calls it was serving with it.
Crash ==
  /\ Lose
  /\ tick' = Rest
  /\ calls' = {}
  /\ phone' = [IF phone.leaving = 0 THEN phone ELSE SignedOut(phone) EXCEPT
                 !.listening = @ \/ \E c \in calls : c.start]
  /\ UNCHANGED <<server, busy, day, ticks, made, signIns, digests, unnoted, tidy>>

Next ==
  \/ \E u \in User : SignIn(u) \/ DeleteAccount(u) \/ TakeUser(u)
  \/ Start \/ StartRegisters \/ SignOut \/ Unauthorized
  \/ \E k \in Token : Rotate(k)
  \/ \E c \in calls : \/ LoseCall(c) \/ GiveUp(c)
                      \/ FindDevice(c) \/ Register(c) \/ RegistrationConflicts(c)
                      \/ FindRow(c) \/ Unregister(c)
  \/ \E d \in 1 .. MaxTicks + 1 : TickStarts(d)
  \/ Send \/ Note \/ UserFails \/ TickEnds \/ Crash

Spec == Init /\ [][Next]_vars

-----------------------------------------------------------------------------
\* Properties.

\* Types of the state.
TypeOK ==
  /\ device \in [Token -> [user : User \cup {Nobody}, live : BOOLEAN]]
  /\ \A k \in Token : device[k].live => device[k].user # Nobody
  /\ alive \subseteq User
  /\ reminded \in [User -> 0 .. day]
  /\ phone.starting \in 0 .. MaxSignIns
  /\ phone.last \in Token \cup {NoToken} /\ phone.session \in User \cup {Nobody}
  /\ phone.leaving \in {c.id : c \in calls} \cup {0}

\* A user gets one digest a day, also when the hour's tick runs twice; only a
\* digest whose commit did not happen may be sent again.
OncePerDay == \A d \in DOMAIN digests, u \in User : digests[d][u] <= 1

\* One user's failure costs nobody else the digest: a tick ends only when each
\* user it listed has been dealt with, unless the process dies.
OthersServed ==
  [][tick # Rest /\ tick' = Rest => tick.todo = {} \/ Crash]_vars

\* The phone is registered for the person who is signed in on it, whoever used
\* it before, once a registration of this session is stored, unless a call of
\* an earlier session was under way when it read the row, or an account was
\* deleted before it wrote it.
ReaderHoldsPhone ==
  tidy => device[phone.token] = [user |-> phone.session, live |-> TRUE]

\* "a signed-out (or switched) device stops receiving the previous account's
\* digests" (push_service.dart:14-18).
PreviousAccountSilent ==
  [][\A u \in User :
       digests'[day][u] # digests[day][u] /\ phone.token \in tick.tokens
        => u = phone.session]_vars
=============================================================================
