---------------------------- MODULE DigestsProofs ----------------------------
(***************************************************************************)
(* Proofs about Digests, for any users, tokens and bounds.  Only the tick  *)
(* and the day enter the first two results; the phone and its calls, which *)
(* may do anything there, are what the others are about.                   *)
(***************************************************************************)
EXTENDS Digests, TLAPS

Days == 1 .. MaxTicks + 1

TickRecord == [pc : {"rest", "next", "send", "note"}, todo : SUBSET User,
               user : User \cup {Nobody}, tokens : SUBSET Token]

\* The tick is one process: it handles one user, whom it has found not yet
\* reminded, and the days go by with the ticks.
TickInv ==
  /\ tick \in TickRecord
  /\ tick.pc \in {"send", "note"} => tick.user \in User
  /\ tick.pc = "send" => reminded[tick.user] # day
  /\ ticks \in 0 .. MaxTicks /\ day \in 1 .. ticks + 1
  /\ reminded \in [User -> Nat]
  /\ alive \subseteq User

\* A digest that was sent today is recorded, or known not to be; none was sent
\* on a day to come.
SentInv ==
  /\ digests \in [Days -> [User -> 0 .. 1]]
  /\ \A d \in Days, u \in User : d > day => digests[d][u] = 0
  /\ \A u \in User : digests[day][u] = 1 => reminded[u] = day \/ <<day, u>> \in unnoted

DigestInv == TickInv /\ SentInv

LEMMA InitDigest == Init => DigestInv
<1> SUFFICES ASSUME Init PROVE DigestInv
  OBVIOUS
<1> USE DigestsAssumption
<1>1. TickInv
  <2>1. tick = [pc |-> "rest", todo |-> {}, user |-> Nobody, tokens |-> {}]
    BY DEF Init, Rest
  <2>2. reminded \in [User -> Nat] /\ alive \subseteq User /\ ticks = 0 /\ day = 1
    BY DEF Init
  <2> QED  BY <2>1, <2>2 DEF TickInv, TickRecord
<1>2. SentInv
  BY DEF Init, SentInv, Days
<1> QED  BY <1>1, <1>2 DEF DigestInv

\* Steps that leave the tick's record alone.
LEMMA TickUntouched ==
  ASSUME DigestInv, UNCHANGED <<tick, ticks, day, reminded, digests, unnoted>>,
         alive' \subseteq User
  PROVE  DigestInv'
  BY DEF DigestInv, TickInv, SentInv

\* Steps that leave the record of what was sent alone.
LEMMA SentUntouched ==
  ASSUME DigestInv, TickInv', UNCHANGED <<day, digests, reminded, unnoted>>
  PROVE  DigestInv'
  BY DEF DigestInv, SentInv

\* What the tick's steps make of its record.
LEMMA NextUserFacts ==
  ASSUME TickInv
  PROVE  NextUser \in TickRecord /\ NextUser.pc = "next"
<1>1. tick \in TickRecord
  BY DEF TickInv
<1> QED  BY <1>1 DEF NextUser, TickRecord

LEMMA RestFacts == Rest \in TickRecord /\ Rest.pc = "rest"
  BY DEF Rest, TickRecord

LEMMA StepDigest == ASSUME DigestInv, [Next]_vars PROVE DigestInv'
<1> USE DigestsAssumption
<1>0. alive \subseteq User /\ TickInv /\ SentInv
  BY DEF DigestInv, TickInv
<1>1. ASSUME NEW u \in User, SignIn(u) \/ DeleteAccount(u) PROVE DigestInv'
  BY <1>0, <1>1, TickUntouched DEF SignIn, DeleteAccount
<1>2. CASE Start \/ StartRegisters \/ SignOut \/ Unauthorized
  BY <1>0, <1>2, TickUntouched DEF Start, StartRegisters, SignOut, Unauthorized, server
<1>3. ASSUME NEW k \in Token, Rotate(k) PROVE DigestInv'
  BY <1>0, <1>3, TickUntouched DEF Rotate, server
<1>4. ASSUME NEW c \in calls, \/ LoseCall(c) \/ GiveUp(c) \/ FindDevice(c) \/ Register(c)
                               \/ RegistrationConflicts(c) \/ FindRow(c) \/ Unregister(c)
      PROVE  DigestInv'
  BY <1>0, <1>4, TickUntouched
  DEF LoseCall, GiveUp, FindDevice, Register, RegistrationConflicts, FindRow, Unregister, server
<1>5. ASSUME NEW d \in Days, TickStarts(d) PROVE DigestInv'
  <2>1. TickInv'
    <3>1. tick' = [Rest EXCEPT !.pc = "next", !.todo = {u \in alive : TokensOf(u) # {}}]
      BY <1>5 DEF TickStarts
    <3>2. tick' \in TickRecord /\ tick'.pc = "next"
      BY <1>0, <3>1 DEF Rest, TickRecord
    <3> QED  BY <1>0, <1>5, <3>2 DEF TickStarts, TickInv, server
  <2>2. SentInv'
    <3>1. CASE d = day
      BY <1>0, <1>5, <3>1 DEF TickStarts, SentInv, server
    <3>2. CASE d = day + 1
      BY <1>0, <1>5, <3>2 DEF TickStarts, SentInv, TickInv, server, Days
    <3> QED  BY <1>5, <3>1, <3>2 DEF TickStarts
  <2> QED  BY <2>1, <2>2 DEF DigestInv
<1>6. ASSUME NEW u \in User, TakeUser(u) PROVE DigestInv'
  <2>1. tick \in TickRecord /\ TokensOf(u) \in SUBSET Token
    BY <1>0 DEF TickInv, TokensOf
  <2>2. ASSUME Due(u) PROVE TickInv'
    <3>1. tick' = [tick EXCEPT !.pc = "send", !.user = u, !.tokens = TokensOf(u)]
      BY <1>6, <2>2 DEF TakeUser
    <3>2. tick' \in TickRecord /\ tick'.pc = "send" /\ tick'.user = u
      BY <2>1, <3>1 DEF TickRecord
    <3> QED  BY <1>0, <1>6, <2>2, <3>2 DEF TakeUser, Due, TickInv, server
  <2>3. ASSUME ~Due(u) PROVE TickInv'
    <3>1. tick' = [tick EXCEPT !.todo = @ \ {u}] /\ tick.pc = "next"
      BY <1>6, <2>3 DEF TakeUser
    <3>2. tick' \in TickRecord /\ tick'.pc = "next"
      BY <2>1, <3>1 DEF TickRecord
    <3> QED  BY <1>0, <1>6, <3>2 DEF TakeUser, TickInv, server
  <2>4. TickInv'
    BY <2>2, <2>3
  <2> QED  BY <1>6, <2>4, SentUntouched DEF TakeUser, server
<1>7. CASE Send
  <2> DEFINE u == tick.user
  <2>0. tick \in TickRecord /\ u \in User /\ reminded[u] # day /\ day \in Days
        /\ UNCHANGED <<day, reminded>>
    BY <1>0, <1>7 DEF Send, TickInv, Days, server
  <2>1. TickInv'
    <3>1. tick' \in TickRecord /\ tick'.pc = "note" /\ tick'.user = u
      BY <1>7, <2>0 DEF Send, TickRecord
    <3> QED  BY <1>0, <1>7, <2>0, <3>1 DEF Send, TickInv, server
  <2>2. SentInv'
    <3>1. CASE UNCHANGED <<digests, unnoted>>
      BY <1>0, <2>0, <3>1 DEF SentInv
    <3>2. CASE /\ digests' = [digests EXCEPT ![day][u] = IF <<day, u>> \in unnoted THEN @ ELSE @ + 1]
               /\ unnoted' = unnoted \cup {<<day, u>>}
      <4>1. digests[day][u] \in 0 .. 1 /\ (digests[day][u] = 1 => <<day, u>> \in unnoted)
        BY <1>0, <2>0 DEF SentInv
      <4>2. (IF <<day, u>> \in unnoted THEN digests[day][u] ELSE digests[day][u] + 1) \in 0 .. 1
        BY <4>1
      <4>3. digests' \in [Days -> [User -> 0 .. 1]]
        BY <1>0, <2>0, <3>2, <4>2 DEF SentInv
      <4>4. /\ \A d \in Days \ {day} : digests'[d] = digests[d]
            /\ \A v \in User \ {u} : digests'[day][v] = digests[day][v]
        BY <1>0, <2>0, <3>2 DEF SentInv
      <4>5. ASSUME NEW d \in Days, NEW v \in User, d > day PROVE digests'[d][v] = 0
        BY <1>0, <2>0, <4>4, <4>5 DEF SentInv, Days
      <4>6. ASSUME NEW v \in User, digests'[day][v] = 1
            PROVE  reminded[v] = day \/ <<day, v>> \in unnoted'
        BY <1>0, <3>2, <4>4, <4>6 DEF SentInv
      <4> QED  BY <2>0, <4>3, <4>5, <4>6 DEF SentInv
    <3> QED  BY <1>7, <3>1, <3>2 DEF Send
  <2> QED  BY <2>1, <2>2 DEF DigestInv
<1>8. CASE Note
  <2> DEFINE u == tick.user
  <2>0. /\ u \in User /\ day \in Days /\ UNCHANGED <<day, digests, alive, ticks>>
        /\ reminded' = [reminded EXCEPT ![u] = day] /\ unnoted' = unnoted \ {<<day, u>>}
        /\ tick' = NextUser
    BY <1>0, <1>8 DEF Note, Noted, TickInv, Days
  <2>1. TickInv'
    <3>1. reminded' \in [User -> Nat]
      BY <1>0, <2>0 DEF TickInv, Days
    <3> QED  BY <1>0, <2>0, <3>1, NextUserFacts DEF TickInv
  <2>2. SentInv'
    <3>1. ASSUME NEW v \in User, digests[day][v] = 1
          PROVE  reminded'[v] = day \/ <<day, v>> \in unnoted'
      <4>1. CASE v = u
        BY <1>0, <2>0, <4>1 DEF TickInv
      <4>2. CASE v # u
        BY <1>0, <2>0, <3>1, <4>2 DEF TickInv, SentInv
      <4> QED  BY <4>1, <4>2
    <3> QED  BY <1>0, <2>0, <3>1 DEF SentInv
  <2> QED  BY <2>1, <2>2 DEF DigestInv
<1>9. CASE UserFails \/ TickEnds \/ Crash
  <2>1. (tick' = NextUser \/ tick' = Rest) /\ UNCHANGED <<day, ticks, reminded, alive>>
    BY <1>9 DEF UserFails, AfterFailure, TickEnds, Crash, server
  <2>2. TickInv'
    BY <1>0, <2>1, NextUserFacts, RestFacts DEF TickInv
  <2> QED  BY <1>9, <2>2, SentUntouched DEF UserFails, TickEnds, Crash, server
<1>10. CASE UNCHANGED vars
  BY <1>0, <1>10, TickUntouched DEF vars, server
<1> QED  BY <1>1, <1>2, <1>3, <1>4, <1>5, <1>6, <1>7, <1>8, <1>9, <1>10 DEF Next, Days

LEMMA DigestHolds == Spec => []DigestInv
<1>1. DigestInv /\ [Next]_vars => DigestInv'
  BY StepDigest
<1> QED  BY InitDigest, <1>1, PTL DEF Spec

\* Nobody gets two digests on one day, whatever ticks, failures and restarts
\* there are, but for one whose commit did not happen.
THEOREM OneDigestADay == Spec => []OncePerDay
<1>1. DigestInv => OncePerDay
  <2> SUFFICES ASSUME DigestInv, NEW d \in DOMAIN digests, NEW u \in User
               PROVE  digests[d][u] <= 1
    BY DEF OncePerDay
  <2>1. digests[d][u] \in 0 .. 1
    BY DEF DigestInv, SentInv
  <2> QED  BY <2>1
<1> QED  BY DigestHolds, <1>1, PTL

\* A tick ends when every user it listed has been dealt with, or with the
\* process: no user's failure ends it.
THEOREM NobodySkipped == Spec => OthersServed
<1>1. DigestInv /\ [Next]_vars =>
        [tick # Rest /\ tick' = Rest => tick.todo = {} \/ Crash]_vars
  <2> SUFFICES ASSUME DigestInv, Next, tick # Rest, tick' = Rest
               PROVE  tick.todo = {} \/ Crash
    OBVIOUS
  <2>1. TickInv /\ tick'.pc = "rest" /\ tick \in TickRecord
    BY RestFacts DEF DigestInv, TickInv
  <2>2. \/ UNCHANGED tick
        \/ \E d \in Days : TickStarts(d)
        \/ \E u \in User : TakeUser(u)
        \/ Send \/ Note \/ UserFails \/ TickEnds \/ Crash
    BY DEF Next, Days, SignIn, DeleteAccount, Start, StartRegisters, SignOut, Unauthorized,
           Rotate, LoseCall, GiveUp, FindDevice, Register, RegistrationConflicts, FindRow,
           Unregister
  <2>3. tick'.pc # "rest" \/ UNCHANGED tick \/ TickEnds \/ Crash
    <3>1. CASE \E d \in Days : TickStarts(d)
      BY <3>1 DEF TickStarts, Rest
    <3>2. CASE \E u \in User : TakeUser(u)
      BY <2>1, <3>2 DEF TakeUser, TickRecord
    <3>3. CASE Send
      BY <2>1, <3>3 DEF Send, TickRecord
    <3>4. CASE Note \/ UserFails
      BY <2>1, <3>4, NextUserFacts DEF Note, UserFails, AfterFailure
    <3> QED  BY <2>2, <3>1, <3>2, <3>3, <3>4
  <2> QED  BY <2>1, <2>3 DEF TickEnds
<1> QED  BY <1>1, DigestHolds, PTL DEF Spec, OthersServed

-----------------------------------------------------------------------------
\* The phone and its calls.

PhoneRecord ==
  [session : User \cup {Nobody}, started : BOOLEAN, starting : Nat, listening : BOOLEAN,
   last : Token \cup {NoToken}, token : Token, leaving : Nat, spent : SUBSET Token]

CallRecord ==
  [id : Nat \ {0}, kind : {"register", "unregister"}, user : User, token : Token,
   session : Nat, start : BOOLEAN, heard : BOOLEAN, found : BOOLEAN,
   row : [user : User \cup {Nobody}, live : BOOLEAN], clean : BOOLEAN]

ServerTypes ==
  /\ device \in [Token -> [user : User \cup {Nobody}, live : BOOLEAN]]
  /\ \A k \in Token : device[k].live => device[k].user # Nobody
  /\ alive \subseteq User
  /\ reminded \in [User -> 0 .. day]

PhoneTypes ==
  /\ phone \in PhoneRecord /\ calls \subseteq CallRecord
  /\ made \in Nat /\ signIns \in 0 .. MaxSignIns /\ tidy \in BOOLEAN

\* One start per sign-in: a session that could still start has not started.
Ready(p) == p.session # Nobody /\ ~p.started /\ p.leaving = 0

SessionInv ==
  /\ phone.session = Nobody => phone.leaving = 0
  /\ phone.session = Nobody \/ phone.leaving # 0 => ~phone.started
  /\ phone.starting + (IF Ready(phone) THEN 1 ELSE 0) <= signIns
  /\ phone.token \notin phone.spent

\* A sign-out waits for a call that is under way and that it still listens to.
CallsInv ==
  /\ \A c \in calls : /\ c.id <= made /\ c.session <= signIns
                      /\ phone.leaving = c.id => c.heard
  /\ \A c, d \in calls : c.id = d.id => c = d
  /\ phone.leaving \in {c.id : c \in calls} \cup {0}

\* A call of this session is its reader's, and takes the phone from them only
\* while they are signing out.
OwnCalls == \A c \in calls :
  c.session = signIns /\ phone.session # Nobody =>
    c.user = phone.session /\ (c.kind = "unregister" => phone.leaving = c.id)

\* Once the registration has arrived, nothing under way can undo it.
TidyInv == tidy =>
  /\ phone.session \in alive /\ phone.leaving = 0
  /\ \A c \in calls : c.session = signIns /\ c.kind = "register"
  /\ device[phone.token] = [user |-> phone.session, live |-> TRUE]

\* Only tokens the phone has given up are pruned.
PruneInv == tick.pc = "note" => tick.tokens \subseteq phone.spent

PhoneInv == PhoneTypes /\ SessionInv /\ CallsInv /\ OwnCalls
HolderInv == ServerTypes /\ PhoneInv /\ TidyInv /\ PruneInv

\* A registration of this session, for a token still in use, that has read its row
\* when no call of an earlier session was under way.
Fresh(c) ==
  /\ c.kind = "register" /\ c.found /\ c.clean /\ c.session = signIns
  /\ phone.session # Nobody /\ phone.leaving = 0 /\ c.token \notin phone.spent

\* What it has read is still good enough for its commit to give the reader the row.
Undisturbed(c) ==
  /\ c.user \in alive
  /\ \A d \in calls : d.session = signIns
  /\ IF c.row.user = Nobody
     THEN device[c.token].user = Nobody \/ device[c.token] = [user |-> c.user, live |-> TRUE]
     ELSE /\ c.row.user = c.user => device[c.token].user = c.user
          /\ c.row.live => device[c.token].live

\* A row, once there, stays.
RowInv ==
  /\ \A c \in calls : c.row.live => c.row.user # Nobody
  /\ \A c \in calls : c.row.user # Nobody => device[c.token].user # Nobody
  /\ \A c \in calls : Fresh(c) => Undisturbed(c)

LEMMA InitHolder == Init => HolderInv
<1> SUFFICES ASSUME Init PROVE HolderInv
  OBVIOUS
<1> USE DigestsAssumption
<1>1. /\ phone \in PhoneRecord /\ phone.session = Nobody /\ ~phone.started
      /\ phone.starting = 0 /\ phone.leaving = 0 /\ phone.spent = {}
  <2>1. PICK k \in Token :
               phone = [session |-> Nobody, started |-> FALSE, starting |-> 0,
                        listening |-> FALSE, last |-> NoToken, token |-> k, leaving |-> 0,
                        spent |-> {}]
    BY DEF Init
  <2> QED  BY <2>1 DEF PhoneRecord
<1>2. ServerTypes
  BY DEF Init, ServerTypes, NoRow
<1>3. PhoneInv
  <2>1. calls = {} /\ made = 0 /\ signIns = 0 /\ tidy = FALSE
    BY DEF Init
  <2>2. PhoneTypes
    <3>1. made \in Nat /\ signIns \in 0 .. MaxSignIns /\ calls \subseteq CallRecord
      BY <2>1
    <3>2. tidy \in BOOLEAN
      BY <2>1, Zenon
    <3> QED  BY <1>1, <3>1, <3>2, Zenon DEF PhoneTypes
  <2>3. SessionInv
    BY <1>1, <2>1 DEF SessionInv, Ready
  <2>4. CallsInv /\ OwnCalls
    BY <1>1, <2>1 DEF CallsInv, OwnCalls
  <2> QED  BY <2>2, <2>3, <2>4 DEF PhoneInv
<1>4. TidyInv /\ PruneInv
  BY DEF Init, TidyInv, PruneInv, Rest
<1> QED  BY <1>2, <1>3, <1>4 DEF HolderInv

\* Stopping and signing out, in any state of the phone.
LEMMA SignedOutFacts ==
  ASSUME NEW p \in PhoneRecord
  PROVE  /\ Stopped(p) = [p EXCEPT !.started = FALSE, !.listening = FALSE, !.last = NoToken]
         /\ Stopped(p) \in PhoneRecord
         /\ SignedOut(p) = [p EXCEPT !.session = Nobody, !.leaving = 0]
         /\ SignedOut(p) \in PhoneRecord
  BY DEF Stopped, SignedOut, PhoneRecord

\* What an answer does to the phone: nothing, or it ends the session.
AnswerEffect(c) ==
  /\ phone' \in PhoneRecord
  /\ phone'.starting = phone.starting /\ phone'.token = phone.token
  /\ phone'.spent = phone.spent
  /\ \/ /\ phone'.session = phone.session /\ phone'.leaving = phone.leaving
        /\ phone'.started = phone.started
        /\ phone.leaving # c.id
     \/ phone'.session = Nobody /\ phone'.leaving = 0 /\ ~phone'.started

LEMMA AnswerChanges ==
  ASSUME PhoneInv, NEW c \in calls, NEW refused \in BOOLEAN, Answered(c, refused)
  PROVE  /\ AnswerEffect(c)
         /\ ~refused /\ phone.leaving = 0 => phone'.session = phone.session
<1> USE DEF PhoneRecord
<1>1. /\ phone \in PhoneRecord /\ c.id \in Nat \ {0} /\ c.start \in BOOLEAN /\ c.heard \in BOOLEAN
      /\ phone.leaving = c.id => c.heard
      /\ phone.leaving # 0 => ~phone.started
  BY DEF PhoneInv, PhoneTypes, CallsInv, SessionInv, CallRecord
<1>2. CASE ~c.heard
  BY <1>1, <1>2 DEF Answered, AnswerEffect
<1>3. CASE c.heard /\ refused
  <2>1. phone' = [SignedOut(Stopped(phone)) EXCEPT !.listening = @ \/ c.start]
    BY <1>3 DEF Answered
  <2> QED  BY <1>1, <1>3, <2>1 DEF AnswerEffect, SignedOut, Stopped
<1>4. CASE c.heard /\ ~refused /\ phone.leaving = c.id
  <2>1. phone' = [SignedOut(phone) EXCEPT !.listening = @ \/ c.start]
    BY <1>4 DEF Answered
  <2> QED  BY <1>1, <1>4, <2>1 DEF AnswerEffect, SignedOut
<1>5. CASE c.heard /\ ~refused /\ phone.leaving # c.id
  <2>1. phone' = [phone EXCEPT !.listening = @ \/ c.start]
    BY <1>5 DEF Answered
  <2> QED  BY <1>1, <1>5, <2>1 DEF AnswerEffect
<1> QED  BY <1>2, <1>3, <1>4, <1>5

\* An answered call leaves the rest as it was.
LEMMA AnswerKeeps ==
  ASSUME PhoneInv, NEW c \in calls, NEW refused \in BOOLEAN, Answered(c, refused),
         UNCHANGED <<made, signIns>>, tidy' \in BOOLEAN
  PROVE  PhoneInv'
<1>1. AnswerEffect(c)
  BY AnswerChanges
<1>2. calls' = calls \ {c}
  BY DEF Answered
<1>3. PhoneTypes'
  BY <1>1, <1>2 DEF PhoneInv, PhoneTypes, AnswerEffect
<1>4. SessionInv'
  BY <1>1 DEF PhoneInv, PhoneTypes, SessionInv, AnswerEffect, Ready, PhoneRecord
<1>5. CallsInv'
  BY <1>1, <1>2 DEF PhoneInv, PhoneTypes, CallsInv, AnswerEffect, PhoneRecord, CallRecord
<1>6. OwnCalls'
  BY <1>1, <1>2 DEF PhoneInv, OwnCalls, AnswerEffect
<1> QED  BY <1>3, <1>4, <1>5, <1>6 DEF PhoneInv

\* A call that is marked (found, or no longer heard) stays the same call.
LEMMA MarkKeeps ==
  ASSUME PhoneInv, NEW c \in calls, NEW d \in CallRecord,
         d.id = c.id, d.kind = c.kind, d.user = c.user, d.session = c.session,
         phone.leaving = c.id => d.heard,
         calls' = (calls \ {c}) \cup {d},
         UNCHANGED <<phone, made, signIns>>, tidy' \in BOOLEAN
  PROVE  PhoneInv'
<1>1. PhoneTypes' /\ SessionInv'
  BY DEF PhoneInv, PhoneTypes, SessionInv, Ready
<1>2. CallsInv'
  <2>1. \A e \in calls' : e = d \/ (e \in calls /\ e # c)
    OBVIOUS
  <2>2. \A e \in calls' : /\ e.id <= made' /\ e.session <= signIns'
                          /\ phone'.leaving = e.id => e.heard
    BY <2>1 DEF PhoneInv, CallsInv
  <2>3. \A e, g \in calls' : e.id = g.id => e = g
    BY <2>1 DEF PhoneInv, CallsInv
  <2>4. phone'.leaving \in {e.id : e \in calls'} \cup {0}
    BY DEF PhoneInv, CallsInv
  <2> QED  BY <2>2, <2>3, <2>4 DEF CallsInv
<1>3. OwnCalls'
  BY DEF PhoneInv, OwnCalls
<1> QED  BY <1>1, <1>2, <1>3 DEF PhoneInv

\* A new call of the session, which takes the next number.
LEMMA SendKeeps ==
  ASSUME PhoneInv, NEW kind \in {"register", "unregister"}, NEW k \in Token,
         NEW start \in BOOLEAN, phone.session \in User,
         kind = "unregister" => phone.leaving = 0, Sends(kind, phone.session, k, start),
         phone' \in PhoneRecord, phone'.session = phone.session,
         phone'.leaving = (IF kind = "unregister" THEN made' ELSE phone.leaving),
         SessionInv', UNCHANGED signIns, tidy' \in BOOLEAN
  PROVE  PhoneInv'
<1> DEFINE c == [id |-> made', kind |-> kind, user |-> phone.session, token |-> k,
                 session |-> signIns, start |-> start, heard |-> TRUE, found |-> FALSE,
                 row |-> NoRow, clean |-> FALSE]
<1>1. made' = made + 1 /\ calls' = calls \cup {c} /\ made \in Nat /\ signIns \in Nat
  BY DigestsAssumption DEF Sends, PhoneInv, PhoneTypes
<1>2. c \in CallRecord
  BY <1>1 DEF CallRecord, NoRow
<1>3. PhoneTypes'
  <2> HIDE DEF c
  <2> QED  BY <1>1, <1>2 DEF PhoneInv, PhoneTypes
<1>4. \A d \in calls : d.id <= made /\ d.id # made' /\ d.id \in Nat \ {0}
  BY <1>1 DEF PhoneInv, PhoneTypes, CallsInv, CallRecord
<1>5. \A d \in calls' : d \in calls \/ (d = c /\ d.id = made')
  BY <1>1
<1>6. CallsInv'
  <2>1. \A d \in calls' : /\ d.id <= made' /\ d.session <= signIns'
                          /\ phone'.leaving = d.id => d.heard
    BY <1>1, <1>4, <1>5 DEF PhoneInv, CallsInv
  <2>2. \A d, e \in calls' : d.id = e.id => d = e
    BY <1>4, <1>5 DEF PhoneInv, CallsInv
  <2>3. phone'.leaving \in {d.id : d \in calls'} \cup {0}
    <3>1. c \in calls' /\ c.id = made' /\ phone'.leaving \in {made', phone.leaving}
      BY <1>1
    <3>2. phone.leaving \in {d.id : d \in calls} \cup {0} /\ calls \subseteq calls'
      BY <1>1 DEF PhoneInv, CallsInv
    <3> HIDE DEF c
    <3> QED  BY <3>1, <3>2
  <2> QED  BY <2>1, <2>2, <2>3 DEF CallsInv
<1>7. OwnCalls'
  <2> SUFFICES ASSUME NEW d \in calls', d.session = signIns'
               PROVE  d.user = phone'.session /\ (d.kind = "unregister" => phone'.leaving = d.id)
    BY DEF OwnCalls
  <2>1. CASE d = c
    BY <2>1
  <2>2. CASE d \in calls
    <3>1. d.user = phone.session /\ (d.kind = "unregister" => phone.leaving = d.id)
      BY <2>2, DigestsAssumption DEF PhoneInv, OwnCalls
    <3> QED  BY <1>4, <2>2, <3>1
  <2> QED  BY <1>5, <2>1, <2>2
<1> QED  BY <1>3, <1>6, <1>7 DEF PhoneInv

\* The session ends, whichever way, and nothing new is sent.
LEMMA EndKeeps ==
  ASSUME PhoneInv, phone' \in PhoneRecord, phone'.session = Nobody, phone'.leaving = 0,
         ~phone'.started, phone'.starting <= phone.starting, phone'.token = phone.token,
         phone'.spent = phone.spent, calls' \subseteq calls,
         UNCHANGED <<made, signIns>>, tidy' \in BOOLEAN
  PROVE  PhoneInv'
<1>1. PhoneTypes'
  BY DEF PhoneInv, PhoneTypes
<1>2. SessionInv'
  <2>1. phone.starting \in Nat /\ phone'.starting \in Nat /\ signIns \in Nat
    BY DigestsAssumption DEF PhoneInv, PhoneTypes, PhoneRecord
  <2>2. phone.starting <= signIns /\ phone.token \notin phone.spent
    BY <2>1 DEF PhoneInv, SessionInv
  <2> QED  BY <2>1, <2>2 DEF SessionInv, Ready
<1>3. CallsInv' /\ OwnCalls'
  <2>1. \A c \in calls : c.id # 0
    BY DEF PhoneInv, PhoneTypes, CallRecord
  <2> QED  BY <2>1 DEF PhoneInv, CallsInv, OwnCalls
<1> QED  BY <1>1, <1>2, <1>3 DEF PhoneInv

\* Steps of the phone that leave the server and the tick alone.
LEMMA ServerUntouched ==
  ASSUME HolderInv, UNCHANGED <<device, reminded, day, tick>>, alive' \subseteq User,
         phone.spent \subseteq phone'.spent
  PROVE  ServerTypes' /\ PruneInv'
<1>1. ServerTypes'
  BY DEF HolderInv, ServerTypes
<1>2. PruneInv'
  BY DEF HolderInv, PruneInv
<1> QED  BY <1>1, <1>2

LEMMA UntidyHolds == ASSUME tidy' = FALSE PROVE TidyInv' /\ tidy' \in BOOLEAN
  BY Zenon DEF TidyInv

LEMMA PhoneMoves ==
  ASSUME HolderInv, Start \/ StartRegisters \/ SignOut \/ Unauthorized
  PROVE  HolderInv'
<1> USE DigestsAssumption
<1>0. /\ PhoneInv /\ TidyInv /\ ServerTypes /\ phone \in PhoneRecord /\ alive \subseteq User
      /\ signIns \in Nat /\ made \in Nat /\ tidy \in BOOLEAN
  BY DEF HolderInv, PhoneInv, PhoneTypes, ServerTypes
<1>a. phone \in PhoneRecord
  BY <1>0
<1>1. CASE Start
  <2>1. /\ phone' = [phone EXCEPT !.started = TRUE, !.starting = @ + 1]
        /\ UNCHANGED <<device, alive, reminded, day, tick, calls, made, signIns, tidy>>
        /\ Ready(phone)
    BY <1>1 DEF Start, server, Ready
  <2>2. /\ phone' \in PhoneRecord /\ phone'.starting = phone.starting + 1
        /\ phone'.session = phone.session /\ phone'.leaving = phone.leaving
        /\ phone'.token = phone.token /\ phone'.spent = phone.spent /\ phone'.started
    <3> DEFINE n == phone.starting + 1
    <3>1. phone' = [phone EXCEPT !.started = TRUE, !.starting = n] /\ n \in Nat
      BY <1>a, <2>1 DEF PhoneRecord
    <3>2. n = phone.starting + 1
      OBVIOUS
    <3> HIDE DEF n
    <3> QED  BY <1>a, <3>1, <3>2 DEF PhoneRecord
  <2>3. SessionInv'
    BY <1>0, <2>1, <2>2 DEF PhoneInv, SessionInv, Ready, PhoneRecord
  <2>4. PhoneInv'
    BY <1>0, <2>1, <2>2, <2>3 DEF PhoneInv, PhoneTypes, CallsInv, OwnCalls
  <2>5. TidyInv'
    BY <1>0, <2>1, <2>2 DEF TidyInv
  <2> QED  BY <1>0, <2>1, <2>2, <2>4, <2>5, ServerUntouched DEF HolderInv
<1>2. CASE StartRegisters /\ phone.session = Nobody
  <2> DEFINE p == [phone EXCEPT !.starting = @ - 1, !.last = phone.token]
  <2>1. /\ phone' = [Stopped(p) EXCEPT !.listening = TRUE] /\ phone.starting > 0
        /\ UNCHANGED <<device, alive, reminded, day, tick, calls, made, signIns, tidy>>
    BY <1>2 DEF StartRegisters, server
  <2>2. /\ phone' \in PhoneRecord /\ phone'.session = Nobody
        /\ phone'.leaving = phone.leaving /\ ~phone'.started
        /\ phone'.starting = phone.starting - 1
        /\ phone'.token = phone.token /\ phone'.spent = phone.spent
        /\ phone.starting \in Nat
    <3> DEFINE n == phone.starting - 1
    <3>1. /\ phone' = [Stopped([phone EXCEPT !.starting = n, !.last = phone.token])
                        EXCEPT !.listening = TRUE]
          /\ n \in Nat /\ phone.starting \in Nat
      BY <1>a, <2>1 DEF PhoneRecord
    <3>2. n = phone.starting - 1
      OBVIOUS
    <3> HIDE DEF n
    <3> QED  BY <1>a, <1>2, <3>1, <3>2 DEF PhoneRecord, Stopped
  <2>3. phone.leaving = 0
    BY <1>0, <1>2 DEF PhoneInv, SessionInv
  <2>4. PhoneInv'
    BY <1>0, <2>1, <2>2, <2>3, EndKeeps
  <2>5. TidyInv'
    BY <1>0, <1>2, <2>1 DEF TidyInv
  <2> QED  BY <1>0, <2>1, <2>2, <2>4, <2>5, ServerUntouched DEF HolderInv
<1>3. CASE StartRegisters /\ phone.session # Nobody
  <2>1. /\ phone' = [phone EXCEPT !.starting = @ - 1, !.last = phone.token]
        /\ phone.starting > 0
        /\ Sends("register", phone.session, phone.token, TRUE)
        /\ UNCHANGED <<device, alive, reminded, day, tick, signIns, tidy>>
    BY <1>3 DEF StartRegisters, server
  <2>2. /\ phone' \in PhoneRecord /\ phone'.session = phone.session
        /\ phone'.leaving = phone.leaving /\ phone'.started = phone.started
        /\ phone'.starting = phone.starting - 1
        /\ phone'.token = phone.token /\ phone'.spent = phone.spent
        /\ phone.starting \in Nat /\ phone.token \in Token
        /\ phone.session \in User
    <3> DEFINE n == phone.starting - 1
    <3>1. /\ phone' = [phone EXCEPT !.starting = n, !.last = phone.token]
          /\ n \in Nat /\ phone.starting \in Nat
      BY <1>a, <2>1 DEF PhoneRecord
    <3>2. n = phone.starting - 1
      OBVIOUS
    <3> HIDE DEF n
    <3> QED  BY <1>a, <1>3, <3>1, <3>2 DEF PhoneRecord
  <2>3. SessionInv'
    BY <1>0, <2>1, <2>2 DEF PhoneInv, SessionInv, Ready
  <2>4. PhoneInv'
    <3>1. phone'.leaving = (IF "register" = "unregister" THEN made' ELSE phone.leaving)
      BY <2>2
    <3> QED  BY <1>0, <2>1, <2>2, <2>3, <3>1, SendKeeps
  <2>5. TidyInv'
    BY <1>0, <2>1, <2>2 DEF TidyInv, Sends
  <2> QED  BY <1>0, <2>1, <2>2, <2>4, <2>5, ServerUntouched DEF HolderInv
<1>4. CASE SignOut /\ phone.last = NoToken
  <2>1. /\ phone' = SignedOut(Stopped(phone))
        /\ UNCHANGED <<device, alive, reminded, day, tick, calls, made, signIns>>
        /\ tidy' = FALSE
    BY <1>4 DEF SignOut, server
  <2>2. /\ phone' \in PhoneRecord /\ phone'.session = Nobody /\ phone'.leaving = 0
        /\ ~phone'.started /\ phone'.starting = phone.starting
        /\ phone'.token = phone.token /\ phone'.spent = phone.spent
        /\ phone.starting \in Nat
    BY <1>0, <2>1 DEF PhoneRecord, Stopped, SignedOut
  <2>3. PhoneInv'
    <3>1. tidy' \in BOOLEAN
      BY <2>1, UntidyHolds, Zenon
    <3> QED  BY <1>0, <2>1, <2>2, <3>1, EndKeeps
  <2> QED  BY <1>0, <2>1, <2>2, <2>3, ServerUntouched, UntidyHolds DEF HolderInv
<1>5. CASE SignOut /\ phone.last # NoToken
  <2>1. /\ phone.session # Nobody /\ phone.leaving = 0
        /\ phone' = [Stopped(phone) EXCEPT !.leaving = made']
        /\ Sends("unregister", phone.session, phone.last, FALSE)
        /\ UNCHANGED <<device, alive, reminded, day, tick, signIns>>
        /\ tidy' = FALSE
    BY <1>5 DEF SignOut, server
  <2>2. made' \in Nat /\ made' # 0
    BY <1>0, <2>1 DEF Sends
  <2>3. /\ phone' \in PhoneRecord /\ phone'.session = phone.session
        /\ phone'.leaving = made' /\ ~phone'.started
        /\ phone'.starting = phone.starting
        /\ phone'.token = phone.token /\ phone'.spent = phone.spent
        /\ phone.starting \in Nat /\ phone.last \in Token
        /\ phone.session \in User
    BY <1>0, <1>5, <2>1, <2>2 DEF PhoneRecord, Stopped
  <2>4. SessionInv'
    BY <1>0, <2>1, <2>2, <2>3 DEF PhoneInv, SessionInv, Ready
  <2>5. PhoneInv'
    BY <1>0, <2>1, <2>3, <2>4, SendKeeps, UntidyHolds
  <2> QED  BY <1>0, <2>1, <2>3, <2>5, ServerUntouched, UntidyHolds DEF HolderInv
<1>6. CASE Unauthorized
  <2>1. /\ phone' = SignedOut(Stopped(phone))
        /\ UNCHANGED <<device, alive, reminded, day, tick, calls, made, signIns>>
        /\ tidy' = FALSE
    BY <1>6 DEF Unauthorized, server
  <2>2. /\ phone' \in PhoneRecord /\ phone'.session = Nobody /\ phone'.leaving = 0
        /\ ~phone'.started /\ phone'.starting = phone.starting
        /\ phone'.token = phone.token /\ phone'.spent = phone.spent
        /\ phone.starting \in Nat
    BY <1>0, <2>1 DEF PhoneRecord, Stopped, SignedOut
  <2>3. PhoneInv'
    <3>1. tidy' \in BOOLEAN
      BY <2>1, UntidyHolds, Zenon
    <3> QED  BY <1>0, <2>1, <2>2, <3>1, EndKeeps
  <2> QED  BY <1>0, <2>1, <2>2, <2>3, ServerUntouched, UntidyHolds DEF HolderInv
<1> QED  BY <1>1, <1>2, <1>3, <1>4, <1>5, <1>6

LEMMA RotateKeeps == ASSUME HolderInv, NEW k \in Token, Rotate(k) PROVE HolderInv'
<1>0. /\ PhoneInv /\ phone \in PhoneRecord /\ alive \subseteq User /\ phone.session # Nobody
  BY DEF HolderInv, PhoneInv, PhoneTypes, ServerTypes, Rotate
<1>a. phone \in PhoneRecord
  BY <1>0
<1>1. /\ k \notin phone.spent \cup {phone.token}
      /\ UNCHANGED <<device, alive, reminded, day, tick, signIns>>
      /\ tidy' = FALSE
  BY DEF Rotate, server
<1>2. /\ phone' \in PhoneRecord /\ phone'.session = phone.session
      /\ phone'.leaving = phone.leaving /\ phone'.started = phone.started
      /\ phone'.starting = phone.starting
      /\ phone'.token = k /\ phone'.spent = phone.spent \cup {phone.token}
      /\ phone.session \in User
  <2>1. \/ phone' = [phone EXCEPT !.token = k, !.last = k, !.spent = @ \cup {phone.token}]
        \/ phone' = [phone EXCEPT !.token = k, !.spent = @ \cup {phone.token}]
    BY DEF Rotate
  <2>2. phone.spent \cup {phone.token} \in SUBSET Token /\ phone.session \in User
    BY <1>0 DEF PhoneRecord
  <2>3. CASE phone' = [phone EXCEPT !.token = k, !.last = k, !.spent = @ \cup {phone.token}]
    BY <1>a, <2>2, <2>3 DEF PhoneRecord
  <2>4. CASE phone' = [phone EXCEPT !.token = k, !.spent = @ \cup {phone.token}]
    BY <1>a, <2>2, <2>4 DEF PhoneRecord
  <2> QED  BY <2>1, <2>3, <2>4
<1>3. SessionInv'
  BY <1>0, <1>1, <1>2 DEF PhoneInv, SessionInv, Ready
<1>4. tidy' \in BOOLEAN /\ TidyInv'
  BY <1>1, UntidyHolds, Zenon
<1>5. PhoneInv'
  <2>1. CASE phone.listening
    <3>1. Sends("register", phone.session, k, FALSE)
      BY <2>1 DEF Rotate
    <3>2. phone'.leaving = (IF "register" = "unregister" THEN made' ELSE phone.leaving)
      BY <1>2
    <3> QED  BY <1>0, <1>1, <1>2, <1>3, <1>4, <3>1, <3>2, SendKeeps
  <2>2. CASE ~phone.listening
    <3>1. UNCHANGED <<calls, made>>
      BY <2>2 DEF Rotate
    <3> QED  BY <1>0, <1>1, <1>2, <1>3, <1>4, <3>1
             DEF PhoneInv, PhoneTypes, CallsInv, OwnCalls
  <2> QED  BY <2>1, <2>2
<1> QED  BY <1>0, <1>1, <1>2, <1>4, <1>5, ServerUntouched DEF HolderInv

LEMMA SignInKeeps == ASSUME HolderInv, NEW u \in User, SignIn(u) PROVE HolderInv'
<1> USE DigestsAssumption
<1>1. /\ PhoneInv /\ phone \in PhoneRecord /\ alive \subseteq User
      /\ phone.session = Nobody /\ phone.leaving = 0 /\ ~phone.started
      /\ signIns' = signIns + 1 /\ signIns \in Nat /\ signIns' \in 0 .. MaxSignIns
      /\ phone' = [phone EXCEPT !.session = u]
      /\ alive' = alive \cup {u} /\ tidy' = FALSE
      /\ UNCHANGED <<device, reminded, day, tick, calls, made>>
  BY DEF HolderInv, PhoneInv, PhoneTypes, ServerTypes, SessionInv, SignIn
<1>2. /\ phone' \in PhoneRecord /\ phone'.session = u /\ phone'.leaving = phone.leaving
      /\ phone'.started = phone.started /\ phone'.starting = phone.starting
      /\ phone'.token = phone.token /\ phone'.spent = phone.spent /\ phone.starting \in Nat
  <2>1. phone \in PhoneRecord /\ phone' = [phone EXCEPT !.session = u]
    BY <1>1
  <2> QED  BY <2>1 DEF PhoneRecord
<1>3. tidy' \in BOOLEAN /\ TidyInv'
  BY <1>1, UntidyHolds, Zenon
<1>4. SessionInv'
  BY <1>1, <1>2 DEF PhoneInv, SessionInv, Ready
<1>5. \A c \in calls : c.session <= signIns /\ c.session \in Nat
  BY DEF HolderInv, PhoneInv, PhoneTypes, CallsInv, CallRecord
<1>6. CallsInv' /\ OwnCalls'
  BY <1>1, <1>2, <1>5 DEF PhoneInv, CallsInv, OwnCalls
<1>7. PhoneTypes'
  BY <1>1, <1>2, <1>3 DEF PhoneInv, PhoneTypes
<1> QED  BY <1>1, <1>2, <1>3, <1>4, <1>6, <1>7, ServerUntouched DEF HolderInv, PhoneInv

\* Calls that are lost or given up.
LEMMA CallsLost ==
  ASSUME HolderInv, NEW c \in calls, LoseCall(c) \/ GiveUp(c)
  PROVE  HolderInv'
<1>0. PhoneInv /\ alive \subseteq User /\ phone \in PhoneRecord /\ c \in CallRecord
  BY DEF HolderInv, PhoneInv, PhoneTypes, ServerTypes
<1>1. CASE LoseCall(c)
  <2>1. /\ Answered(c, FALSE) /\ tidy' = FALSE
        /\ UNCHANGED <<device, alive, reminded, day, tick, made, signIns>>
    BY <1>1 DEF LoseCall, server
  <2>2. tidy' \in BOOLEAN /\ TidyInv'
    BY <2>1, UntidyHolds, Zenon
  <2>3. PhoneInv' /\ AnswerEffect(c)
    BY <1>0, <2>1, <2>2, AnswerKeeps, AnswerChanges
  <2> QED  BY <1>0, <2>1, <2>2, <2>3, ServerUntouched DEF HolderInv, AnswerEffect
<1>2. CASE GiveUp(c)
  <2> DEFINE d == [c EXCEPT !.heard = FALSE]
  <2>1. /\ phone.leaving = c.id /\ phone' = SignedOut(phone)
        /\ calls' = (calls \ {c}) \cup {d}
        /\ UNCHANGED <<device, alive, reminded, day, tick, made, signIns, tidy>>
    BY <1>2 DEF GiveUp, server
  <2>2. /\ phone' \in PhoneRecord /\ phone'.session = Nobody /\ phone'.leaving = 0
        /\ phone'.started = phone.started /\ phone'.starting = phone.starting
        /\ phone'.token = phone.token /\ phone'.spent = phone.spent
        /\ phone.starting \in Nat
    <3>1. phone' = SignedOut(phone) /\ phone \in PhoneRecord
      BY <1>0, <2>1
    <3> QED  BY <3>1 DEF PhoneRecord, SignedOut
  <2>3. /\ c.id # 0 /\ d \in CallRecord /\ d.id = c.id /\ d.kind = c.kind
        /\ d.session = c.session /\ d.found = c.found
    BY <1>0 DEF CallRecord
  <2>4. ~phone.started /\ ~tidy
    BY <2>1, <2>3 DEF HolderInv, PhoneInv, SessionInv, TidyInv
  <2> HIDE DEF d
  <2>5. PhoneTypes' /\ SessionInv'
    <3>1. PhoneTypes'
      BY <1>0, <2>1, <2>2, <2>3 DEF PhoneInv, PhoneTypes
    <3>2. signIns \in Nat
      BY DigestsAssumption DEF HolderInv, PhoneInv, PhoneTypes
    <3>3. SessionInv'
      BY <1>0, <2>1, <2>2, <2>4, <3>2 DEF PhoneInv, SessionInv, Ready
    <3> QED  BY <3>1, <3>3
  <2>6. \A e \in calls' : e.id # 0 /\ (e = d \/ (e \in calls /\ e # c))
    BY <1>0, <2>1, <2>3 DEF PhoneInv, PhoneTypes, CallRecord
  <2>7. CallsInv'
    <3>1. \A e \in calls' : /\ e.id <= made' /\ e.session <= signIns'
                            /\ phone'.leaving = e.id => e.heard
      BY <1>0, <2>1, <2>2, <2>3, <2>6 DEF PhoneInv, CallsInv
    <3>2. \A e, g \in calls' : e.id = g.id => e = g
      BY <1>0, <2>3, <2>6 DEF PhoneInv, CallsInv
    <3> QED  BY <2>2, <3>1, <3>2 DEF CallsInv
  <2>8. OwnCalls' /\ TidyInv'
    BY <2>1, <2>2, <2>4 DEF OwnCalls, TidyInv
  <2> QED  BY <1>0, <2>1, <2>2, <2>5, <2>7, <2>8, ServerUntouched DEF HolderInv, PhoneInv
<1> QED  BY <1>1, <1>2

\* A commit of the session's registration gives the reader the row.
LEMMA RegisterKeeps == ASSUME HolderInv, RowInv, NEW c \in calls, Register(c) PROVE HolderInv'
<1> USE DigestsAssumption
<1>0. /\ PhoneInv /\ TidyInv /\ ServerTypes /\ PruneInv /\ c \in CallRecord
      /\ phone \in PhoneRecord /\ tidy \in BOOLEAN
  BY DEF HolderInv, PhoneInv, PhoneTypes
<1>1. /\ c.kind = "register" /\ c.found /\ ~Conflict(c) /\ Answered(c, FALSE)
      /\ UNCHANGED <<alive, reminded, day, tick, made, signIns>>
      /\ device' = [device EXCEPT ![c.token] = LastRegistrationWins(c)]
  BY DEF Register
<1>2. /\ tidy' \in BOOLEAN
      /\ tidy' => tidy \/ /\ c.clean /\ c.session = signIns /\ c.token = phone.token
                          /\ phone.session # Nobody /\ phone.leaving = 0
  <2>1. (tidy \/ /\ c.clean /\ c.session = signIns /\ c.token = phone.token
                  /\ phone.session # Nobody /\ phone.leaving = 0) \in BOOLEAN
    OBVIOUS
  <2> QED  BY <1>0, <2>1, Zenon DEF Register
<1>3. PhoneInv' /\ AnswerEffect(c) /\ calls' = calls \ {c}
      /\ (phone.leaving = 0 => phone'.session = phone.session)
  BY <1>0, <1>1, <1>2, AnswerKeeps, AnswerChanges DEF Answered
<1>4. /\ c.user \in User /\ c.token \in Token
      /\ c.row \in [user : User \cup {Nobody}, live : BOOLEAN]
  BY <1>0 DEF CallRecord
<1>5. ServerTypes'
  <2>1. /\ LastRegistrationWins(c) \in [user : User \cup {Nobody}, live : BOOLEAN]
        /\ LastRegistrationWins(c).live => LastRegistrationWins(c).user # Nobody
    BY <1>0, <1>1, <1>4 DEF ServerTypes, LastRegistrationWins, Conflict, RowInv
  <2> HIDE DEF LastRegistrationWins
  <2> QED  BY <1>0, <1>1, <1>4, <2>1 DEF ServerTypes
<1>6. PruneInv'
  BY <1>0, <1>1, <1>3 DEF PruneInv, AnswerEffect
<1>7. TidyInv'
  <2> SUFFICES ASSUME tidy'
               PROVE  /\ phone'.session \in alive' /\ phone'.leaving = 0
                      /\ \A d \in calls' : d.session = signIns' /\ d.kind = "register"
                      /\ device'[phone'.token] = [user |-> phone'.session, live |-> TRUE]
    BY DEF TidyInv
  <2>1. CASE tidy
    <3>1. /\ phone.session \in alive /\ phone.leaving = 0 /\ c.session = signIns
          /\ \A d \in calls : d.session = signIns /\ d.kind = "register"
          /\ device[phone.token] = [user |-> phone.session, live |-> TRUE]
          /\ phone.session # Nobody
      BY <1>0, <2>1 DEF TidyInv, ServerTypes
    <3>2. c.user = phone.session
      BY <1>0, <3>1 DEF PhoneInv, OwnCalls
    <3>3. phone'.session = phone.session /\ phone'.leaving = 0 /\ phone'.token = phone.token
      BY <1>3, <3>1 DEF AnswerEffect
    <3>4. CASE c.token = phone.token
      <4>1. LastRegistrationWins(c) = [user |-> phone.session, live |-> TRUE]
        <5>1. (device[c.token].live \/ ~c.row.live) = TRUE
          BY <3>1, <3>4
        <5>2. device[c.token].user = c.user
          BY <3>1, <3>2, <3>4
        <5> QED  BY <3>2, <5>1, <5>2, Zenon DEF LastRegistrationWins
      <4> QED  BY <1>0, <1>1, <1>3, <1>4, <3>1, <3>3, <3>4, <4>1 DEF ServerTypes
    <3>5. CASE c.token # phone.token
      BY <1>0, <1>1, <1>3, <1>4, <3>1, <3>3, <3>5 DEF ServerTypes, PhoneRecord
    <3> QED  BY <3>4, <3>5
  <2>2. CASE ~tidy
    <3>1. /\ c.clean /\ c.session = signIns /\ c.token = phone.token
          /\ phone.session # Nobody /\ phone.leaving = 0 /\ phone.token \notin phone.spent
      BY <1>0, <1>2, <2>2 DEF PhoneInv, SessionInv
    <3>2. Undisturbed(c)
      BY <1>1, <3>1 DEF RowInv, Fresh
    <3>3. \A d \in calls : d.session = signIns /\ d.kind = "register" /\ d.user = phone.session
      <4>1. \A d \in calls : d.id # 0 /\ d.kind \in {"register", "unregister"}
        BY <1>0 DEF PhoneInv, PhoneTypes, CallRecord
      <4> QED  BY <1>0, <3>1, <3>2, <4>1 DEF PhoneInv, OwnCalls, Undisturbed
    <3>4. phone'.session = phone.session /\ phone'.leaving = 0 /\ phone'.token = phone.token
      BY <1>3, <3>1 DEF AnswerEffect
    <3>5. LastRegistrationWins(c) = [user |-> phone.session, live |-> TRUE]
      BY <1>0, <1>1, <1>4, <3>2, <3>3
      DEF LastRegistrationWins, Undisturbed, Conflict, RowInv, ServerTypes
    <3> QED  BY <1>0, <1>1, <1>3, <1>4, <3>1, <3>2, <3>3, <3>4, <3>5
             DEF ServerTypes, Undisturbed
  <2> QED  BY <1>0, <2>1, <2>2
<1> QED  BY <1>3, <1>5, <1>6, <1>7 DEF HolderInv

\* Reading the row, or failing to insert one, changes nothing but the call.
LEMMA LookupKeeps ==
  ASSUME HolderInv, NEW c \in calls, FindDevice(c) \/ RegistrationConflicts(c)
  PROVE  HolderInv'
<1>0. /\ PhoneInv /\ TidyInv /\ ServerTypes /\ PruneInv /\ c \in CallRecord
      /\ tidy \in BOOLEAN /\ alive \subseteq User
  BY DEF HolderInv, PhoneInv, PhoneTypes, ServerTypes
<1>1. UNCHANGED <<device, alive, reminded, day, tick, made, signIns>>
  BY DEF FindDevice, RegistrationConflicts, server
<1>2. CASE FindDevice(c) /\ c.user \notin alive
  <2>1. Answered(c, TRUE)
    BY <1>2 DEF FindDevice
  <2>2. tidy' = FALSE
    BY <1>2, Zenon DEF FindDevice
  <2>3. tidy' \in BOOLEAN /\ TidyInv'
    BY <2>2, UntidyHolds, Zenon
  <2>4. PhoneInv' /\ AnswerEffect(c)
    BY <1>0, <1>1, <2>1, <2>3, AnswerKeeps, AnswerChanges
  <2> QED  BY <1>0, <1>1, <2>3, <2>4, ServerUntouched DEF HolderInv, AnswerEffect
<1>3. CASE FindDevice(c) /\ c.user \in alive
  <2> DEFINE b == \A e \in calls : e.session = signIns
             d == [c EXCEPT !.found = TRUE, !.row = device[c.token], !.clean = b]
  <2>1. calls' = (calls \ {c}) \cup {d} /\ UNCHANGED phone
    BY <1>3 DEF FindDevice
  <2>2. tidy' = tidy
    BY <1>0, <1>3, Zenon DEF FindDevice
  <2>3. /\ d \in CallRecord /\ d.id = c.id /\ d.kind = c.kind /\ d.user = c.user
        /\ d.session = c.session /\ d.heard = c.heard
    <3>1. b \in BOOLEAN /\ device[c.token] \in [user : User \cup {Nobody}, live : BOOLEAN]
      BY <1>0 DEF ServerTypes, CallRecord
    <3> HIDE DEF b
    <3> QED  BY <1>0, <3>1 DEF CallRecord
  <2>4. phone.leaving = c.id => d.heard
    BY <1>0, <2>3 DEF PhoneInv, CallsInv
  <2> HIDE DEF d
  <2>5. PhoneInv'
    BY <1>0, <1>1, <2>1, <2>2, <2>3, <2>4, MarkKeeps
  <2>6. TidyInv'
    BY <1>0, <1>1, <2>1, <2>2, <2>3 DEF TidyInv
  <2> QED  BY <1>0, <1>1, <2>1, <2>5, <2>6, ServerUntouched DEF HolderInv
<1>4. CASE RegistrationConflicts(c)
  <2>1. Answered(c, FALSE) /\ tidy' = tidy
    BY <1>4 DEF RegistrationConflicts
  <2>2. PhoneInv' /\ AnswerEffect(c) /\ calls' = calls \ {c}
        /\ (phone.leaving = 0 => phone'.session = phone.session)
    BY <1>0, <1>1, <2>1, AnswerKeeps, AnswerChanges DEF Answered
  <2>3. TidyInv'
    BY <1>0, <1>1, <2>1, <2>2 DEF TidyInv, AnswerEffect
  <2> QED  BY <1>0, <1>1, <2>2, <2>3, ServerUntouched DEF HolderInv, AnswerEffect
<1> QED  BY <1>2, <1>3, <1>4

LEMMA UnregisterKeeps ==
  ASSUME HolderInv, NEW c \in calls, FindRow(c) \/ Unregister(c)
  PROVE  HolderInv'
<1>0. /\ PhoneInv /\ TidyInv /\ ServerTypes /\ PruneInv /\ c \in CallRecord
      /\ tidy \in BOOLEAN /\ alive \subseteq User
  BY DEF HolderInv, PhoneInv, PhoneTypes, ServerTypes
<1>1. c.kind = "unregister" /\ ~tidy
  BY <1>0 DEF FindRow, Unregister, PhoneInv, CallsInv, TidyInv
<1>2. CASE FindRow(c)
  <2>1. UNCHANGED <<device, alive, reminded, day, tick, made, signIns>>
    BY <1>2 DEF FindRow, server
  <2>2. tidy' = FALSE
    BY <1>1, <1>2, Zenon DEF FindRow
  <2>3. tidy' \in BOOLEAN /\ TidyInv'
    BY <2>2, UntidyHolds, Zenon
  <2>4. CASE Answered(c, c.user \notin alive)
    <3>1. (c.user \notin alive) \in BOOLEAN
      OBVIOUS
    <3>2. PhoneInv' /\ AnswerEffect(c)
      BY <1>0, <2>1, <2>3, <2>4, <3>1, AnswerKeeps, AnswerChanges
    <3> QED  BY <1>0, <2>1, <2>3, <3>2, ServerUntouched DEF HolderInv, AnswerEffect
  <2>5. CASE UNCHANGED phone /\ calls' = (calls \ {c}) \cup {[c EXCEPT !.found = TRUE]}
    <3> DEFINE d == [c EXCEPT !.found = TRUE]
    <3>1. /\ d \in CallRecord /\ d.id = c.id /\ d.kind = c.kind /\ d.user = c.user
          /\ d.session = c.session /\ d.heard = c.heard
      BY <1>0 DEF CallRecord
    <3>2. phone.leaving = c.id => d.heard
      BY <1>0, <3>1 DEF PhoneInv, CallsInv
    <3>3. calls' = (calls \ {c}) \cup {d}
      BY <2>5
    <3> HIDE DEF d
    <3>4. PhoneInv'
      BY <1>0, <1>1, <2>1, <2>3, <2>5, <3>1, <3>2, <3>3, MarkKeeps
    <3> QED  BY <1>0, <2>1, <2>3, <2>5, <3>4, ServerUntouched DEF HolderInv
  <2> QED  BY <1>2, <2>4, <2>5 DEF FindRow
<1>3. CASE Unregister(c)
  <2>1. /\ Answered(c, FALSE)
        /\ device' = [device EXCEPT ![c.token].live = FALSE]
        /\ UNCHANGED <<alive, reminded, day, tick, made, signIns, tidy>>
    BY <1>3 DEF Unregister
  <2>2. PhoneInv' /\ AnswerEffect(c)
    BY <1>0, <2>1, AnswerKeeps, AnswerChanges
  <2>3. ServerTypes'
    <3>1. device' \in [Token -> [user : User \cup {Nobody}, live : BOOLEAN]]
          /\ \A k \in Token : device'[k].live => device[k].live /\ device'[k].user = device[k].user
      BY <1>0, <2>1 DEF ServerTypes, CallRecord
    <3> QED  BY <1>0, <2>1, <3>1 DEF ServerTypes
  <2>4. PruneInv' /\ TidyInv'
    BY <1>0, <1>1, <2>1, <2>2 DEF PruneInv, AnswerEffect, TidyInv
  <2> QED  BY <2>2, <2>3, <2>4 DEF HolderInv
<1> QED  BY <1>2, <1>3

\* Steps of the tick and of the accounts that leave the phone alone.
LEMMA PhoneUntouched ==
  ASSUME PhoneInv, UNCHANGED <<phone, calls, made, signIns>>, tidy' \in BOOLEAN
  PROVE  PhoneInv'
<1>1. PhoneTypes' /\ SessionInv'
  BY DEF PhoneInv, PhoneTypes, SessionInv, Ready
<1>2. CallsInv' /\ OwnCalls'
  BY DEF PhoneInv, CallsInv, OwnCalls
<1> QED  BY <1>1, <1>2 DEF PhoneInv

LEMMA DeletionKeeps == ASSUME HolderInv, NEW u \in User, DeleteAccount(u) PROVE HolderInv'
<1>0. /\ PhoneInv /\ TidyInv /\ ServerTypes /\ PruneInv /\ tidy \in BOOLEAN
      /\ phone.token \in Token
  BY DEF HolderInv, PhoneInv, PhoneTypes, PhoneRecord
<1>1. /\ alive' = alive \ {u}
      /\ device' = [k \in Token |-> IF device[k].user = u THEN [device[k] EXCEPT !.live = FALSE]
                                    ELSE device[k]]
      /\ UNCHANGED <<reminded, day, tick, phone, made, signIns>>
      /\ calls' = {[c EXCEPT !.clean = FALSE] : c \in calls}
  BY DEF DeleteAccount
<1>2. tidy' \in BOOLEAN /\ (tidy' => tidy /\ phone.session # u)
  <2>1. (tidy /\ phone.session # u) \in BOOLEAN
    OBVIOUS
  <2> QED  BY <2>1, Zenon DEF DeleteAccount
<1>5. /\ calls' \subseteq CallRecord
      /\ \A e \in calls' : \E c \in calls :
           /\ e = [c EXCEPT !.clean = FALSE]
           /\ e.id = c.id /\ e.kind = c.kind /\ e.user = c.user /\ e.session = c.session
           /\ e.heard = c.heard
      /\ \A c \in calls : \E e \in calls' : e.id = c.id
  <2>1. \A c \in calls :
          /\ [c EXCEPT !.clean = FALSE] \in CallRecord
          /\ [c EXCEPT !.clean = FALSE].id = c.id /\ [c EXCEPT !.clean = FALSE].kind = c.kind
          /\ [c EXCEPT !.clean = FALSE].user = c.user
          /\ [c EXCEPT !.clean = FALSE].session = c.session
          /\ [c EXCEPT !.clean = FALSE].heard = c.heard
    BY <1>0 DEF PhoneInv, PhoneTypes, CallRecord
  <2> DEFINE spoilt(c) == [c EXCEPT !.clean = FALSE]
  <2>2. /\ \A c \in calls : spoilt(c) \in calls'
        /\ \A e \in calls' : \E c \in calls : e = spoilt(c)
    BY <1>1
  <2>3. \A c \in calls : /\ spoilt(c) \in CallRecord
                         /\ spoilt(c).id = c.id /\ spoilt(c).kind = c.kind
                         /\ spoilt(c).user = c.user /\ spoilt(c).session = c.session
                         /\ spoilt(c).heard = c.heard
    BY <2>1
  <2>4. \A e \in calls' : \E c \in calls : e = spoilt(c)
    BY <2>2
  <2> HIDE DEF spoilt
  <2>5. calls' \subseteq CallRecord
    BY <2>3, <2>4
  <2>6. \A e \in calls' : \E c \in calls :
           /\ e = spoilt(c)
           /\ e.id = c.id /\ e.kind = c.kind /\ e.user = c.user /\ e.session = c.session
           /\ e.heard = c.heard
    BY <2>3, <2>4
  <2>7. \A c \in calls : \E e \in calls' : e.id = c.id
    BY <2>2, <2>3
  <2> QED  BY <2>5, <2>6, <2>7 DEF spoilt
<1>6. PhoneInv'
  <2>1. PhoneTypes' /\ SessionInv'
    BY <1>0, <1>1, <1>2, <1>5 DEF PhoneInv, PhoneTypes, SessionInv, Ready
  <2>2. CallsInv'
    <3>1. \A e \in calls' : /\ e.id <= made' /\ e.session <= signIns'
                            /\ phone'.leaving = e.id => e.heard
      BY <1>0, <1>1, <1>5 DEF PhoneInv, CallsInv
    <3>2. \A e, g \in calls' : e.id = g.id => e = g
      <4> SUFFICES ASSUME NEW e \in calls', NEW g \in calls', e.id = g.id PROVE e = g
        OBVIOUS
      <4>1. PICK c \in calls : e = [c EXCEPT !.clean = FALSE] /\ e.id = c.id
        BY <1>5
      <4>2. PICK d \in calls : g = [d EXCEPT !.clean = FALSE] /\ g.id = d.id
        BY <1>5
      <4>3. c = d
        BY <1>0, <4>1, <4>2 DEF PhoneInv, CallsInv
      <4> QED  BY <4>1, <4>2, <4>3
    <3>3. phone'.leaving \in {e.id : e \in calls'} \cup {0}
      <4>1. \A n \in {c.id : c \in calls} : n \in {e.id : e \in calls'}
        BY <1>5
      <4> QED  BY <1>0, <1>1, <4>1 DEF PhoneInv, CallsInv
    <3> QED  BY <3>1, <3>2, <3>3 DEF CallsInv
  <2>3. OwnCalls'
    <3> SUFFICES ASSUME NEW e \in calls', e.session = signIns, phone.session # Nobody
                 PROVE  /\ e.user = phone.session
                        /\ e.kind = "unregister" => phone.leaving = e.id
      BY <1>1 DEF OwnCalls
    <3>1. PICK c \in calls : /\ e.id = c.id /\ e.kind = c.kind /\ e.user = c.user
                             /\ e.session = c.session
      BY <1>5
    <3> QED  BY <1>0, <3>1 DEF PhoneInv, OwnCalls
  <2> QED  BY <2>1, <2>2, <2>3 DEF PhoneInv
<1>3. ServerTypes'
  <2>1. /\ device' \in [Token -> [user : User \cup {Nobody}, live : BOOLEAN]]
        /\ \A k \in Token : device'[k].live => device[k].live /\ device'[k].user = device[k].user
    BY <1>0, <1>1 DEF ServerTypes
  <2> QED  BY <1>0, <1>1, <2>1 DEF ServerTypes
<1>4. TidyInv'
  <2> SUFFICES ASSUME tidy'
               PROVE  /\ phone.session \in alive'
                      /\ device'[phone.token] = [user |-> phone.session, live |-> TRUE]
    BY <1>0, <1>1, <1>2, <1>5 DEF TidyInv
  <2>1. /\ tidy /\ phone.session # u /\ phone.session \in alive
        /\ device[phone.token] = [user |-> phone.session, live |-> TRUE]
    BY <1>0, <1>2 DEF TidyInv
  <2> QED  BY <1>0, <1>1, <2>1
<1> QED  BY <1>0, <1>1, <1>3, <1>4, <1>6 DEF HolderInv, PruneInv

\* The tick's steps, of which only the note writes what the phone depends on.
LEMMA TickKeeps ==
  ASSUME HolderInv, DigestInv,
         \/ \E d \in Days : TickStarts(d)
         \/ \E u \in User : TakeUser(u)
         \/ Send \/ Note \/ UserFails \/ TickEnds
  PROVE  HolderInv'
<1> USE DigestsAssumption
<1>0. /\ PhoneInv /\ TidyInv /\ ServerTypes /\ PruneInv /\ tidy \in BOOLEAN
      /\ phone.token \in Token /\ phone.spent \subseteq Token /\ phone.token \notin phone.spent
      /\ tick \in TickRecord /\ day \in Nat
  BY DEF HolderInv, PhoneInv, PhoneTypes, PhoneRecord, SessionInv, DigestInv, TickInv
<1>1. UNCHANGED <<alive, phone, calls, made, signIns, tidy>>
  BY DEF TickStarts, TakeUser, Send, Note, UserFails, TickEnds, server
<1>2. PhoneInv'
  BY <1>0, <1>1, PhoneUntouched
<1>3. CASE UNCHANGED <<device, reminded>> /\ day' \in {day, day + 1} /\ tick'.pc # "note"
  <2>1. ServerTypes'
    BY <1>0, <1>1, <1>3 DEF ServerTypes
  <2> QED  BY <1>0, <1>1, <1>2, <1>3, <2>1 DEF HolderInv, TidyInv, PruneInv
<1>4. CASE \E d \in Days : TickStarts(d)
  <2>1. tick'.pc = "next"
    BY <1>4 DEF TickStarts, Rest
  <2> QED  BY <1>3, <1>4, <2>1 DEF TickStarts, server
<1>5. CASE \E u \in User : TakeUser(u)
  <2>1. tick'.pc # "note"
    BY <1>0, <1>5 DEF TakeUser, TickRecord
  <2> QED  BY <1>3, <1>5, <2>1 DEF TakeUser, server
<1>6. CASE UserFails \/ TickEnds
  <2>1. tick'.pc # "note"
    BY <1>6, NextUserFacts, RestFacts DEF UserFails, AfterFailure, TickEnds, DigestInv
  <2> QED  BY <1>3, <1>6, <2>1 DEF UserFails, TickEnds, server
<1>7. CASE Send
  <2>1. UNCHANGED <<device, alive, reminded, day>> /\ tick'.tokens \subseteq phone.spent
    BY <1>0, <1>7 DEF Send, server, TickRecord
  <2>2. PruneInv'
    BY <1>1, <2>1 DEF PruneInv
  <2>3. ServerTypes' /\ TidyInv'
    BY <1>0, <1>1, <2>1 DEF ServerTypes, TidyInv
  <2> QED  BY <1>2, <2>2, <2>3 DEF HolderInv
<1>8. CASE Note
  <2>1. /\ device' = [k \in Token |-> IF k \in tick.tokens
                                      THEN [device[k] EXCEPT !.live = FALSE] ELSE device[k]]
        /\ reminded' = [reminded EXCEPT ![tick.user] = day] /\ UNCHANGED day
        /\ tick' = NextUser /\ tick.tokens \subseteq phone.spent
    BY <1>0, <1>8 DEF Note, Noted, PruneInv
  <2>2. ServerTypes'
    <3>1. /\ device' \in [Token -> [user : User \cup {Nobody}, live : BOOLEAN]]
          /\ \A k \in Token : device'[k].live => device[k].live /\ device'[k].user = device[k].user
      <4>1. device' = [k \in Token |-> IF k \in tick.tokens
                                        THEN [device[k] EXCEPT !.live = FALSE] ELSE device[k]]
        BY <2>1
      <4>2. device \in [Token -> [user : User \cup {Nobody}, live : BOOLEAN]]
        BY <1>0 DEF ServerTypes
      <4> QED  BY <4>1, <4>2
    <3>2. reminded' \in [User -> 0 .. day]
      <4>1. day \in 0 .. day /\ reminded \in [User -> 0 .. day]
        BY <1>0 DEF ServerTypes
      <4>2. reminded' = [reminded EXCEPT ![tick.user] = day]
        BY <2>1
      <4> QED  BY <4>1, <4>2
    <3> QED  BY <1>0, <1>1, <2>1, <3>1, <3>2 DEF ServerTypes
  <2>3. device'[phone.token] = device[phone.token]
    BY <1>0, <2>1
  <2>4. TidyInv' /\ PruneInv'
    <3>1. tick'.pc = "next"
      BY <2>1, NextUserFacts DEF DigestInv
    <3> QED  BY <1>0, <1>1, <2>3, <3>1 DEF TidyInv, PruneInv
  <2> QED  BY <1>2, <2>2, <2>4 DEF HolderInv
<1> QED  BY <1>4, <1>5, <1>6, <1>7, <1>8

LEMMA CrashKeeps == ASSUME HolderInv, Crash PROVE HolderInv'
<1> USE DigestsAssumption
<1>0. /\ PhoneInv /\ TidyInv /\ phone \in PhoneRecord /\ alive \subseteq User
      /\ tidy \in BOOLEAN /\ signIns \in Nat
  BY DEF HolderInv, PhoneInv, PhoneTypes, ServerTypes
<1>1. /\ calls' = {} /\ tick' = Rest
      /\ UNCHANGED <<device, alive, reminded, day, made, signIns, tidy>>
  BY DEF Crash, server
<1>2. /\ phone' \in PhoneRecord /\ phone'.leaving = 0
      /\ phone'.starting = phone.starting /\ phone'.started = phone.started
      /\ phone'.token = phone.token /\ phone'.spent = phone.spent
      /\ phone'.session = IF phone.leaving = 0 THEN phone.session ELSE Nobody
      /\ phone.starting \in Nat
  <2>1. PICK b \in BOOLEAN :
          phone' = [IF phone.leaving = 0 THEN phone ELSE SignedOut(phone) EXCEPT
                      !.listening = @ \/ b]
    <3>1. (\E c \in calls : c.start) \in BOOLEAN
      OBVIOUS
    <3> QED  BY <3>1 DEF Crash
  <2>2. phone \in PhoneRecord
    BY <1>0
  <2>3. CASE phone.leaving = 0
    BY <2>1, <2>2, <2>3 DEF PhoneRecord
  <2>4. CASE phone.leaving # 0
    BY <2>1, <2>2, <2>4 DEF PhoneRecord, SignedOut
  <2> QED  BY <2>3, <2>4
<1>3. SessionInv'
  BY <1>0, <1>1, <1>2 DEF PhoneInv, SessionInv, Ready
<1>4. PhoneInv'
  BY <1>0, <1>1, <1>2, <1>3 DEF PhoneInv, PhoneTypes, CallsInv, OwnCalls
<1>5. TidyInv'
  BY <1>0, <1>1, <1>2 DEF TidyInv
<1>6. ServerTypes' /\ PruneInv'
  BY <1>1, RestFacts DEF HolderInv, ServerTypes, PruneInv
<1> QED  BY <1>4, <1>5, <1>6 DEF HolderInv

LEMMA StepHolder == ASSUME HolderInv, RowInv, DigestInv, [Next]_vars PROVE HolderInv'
<1>1. ASSUME NEW u \in User, SignIn(u) PROVE HolderInv'
  BY <1>1, SignInKeeps
<1>2. ASSUME NEW u \in User, DeleteAccount(u) PROVE HolderInv'
  BY <1>2, DeletionKeeps
<1>3. ASSUME NEW u \in User, TakeUser(u) PROVE HolderInv'
  BY <1>3, TickKeeps
<1>4. CASE Start \/ StartRegisters \/ SignOut \/ Unauthorized
  BY <1>4, PhoneMoves
<1>5. ASSUME NEW k \in Token, Rotate(k) PROVE HolderInv'
  BY <1>5, RotateKeeps
<1>6. ASSUME NEW c \in calls, \/ LoseCall(c) \/ GiveUp(c) \/ FindDevice(c) \/ Register(c)
                               \/ RegistrationConflicts(c) \/ FindRow(c) \/ Unregister(c)
      PROVE  HolderInv'
  BY <1>6, CallsLost, LookupKeeps, RegisterKeeps, UnregisterKeeps
<1>7. ASSUME NEW d \in Days, TickStarts(d) PROVE HolderInv'
  BY <1>7, TickKeeps
<1>8. CASE Send \/ Note \/ UserFails \/ TickEnds
  BY <1>8, TickKeeps
<1>9. CASE Crash
  BY <1>9, CrashKeeps
<1>10. CASE UNCHANGED vars
  <2>1. PhoneInv' /\ TidyInv'
    BY <1>10, PhoneUntouched DEF HolderInv, PhoneInv, PhoneTypes, TidyInv, vars, server
  <2>2. ServerTypes' /\ PruneInv'
    BY <1>10 DEF HolderInv, ServerTypes, PruneInv, vars, server
  <2> QED  BY <2>1, <2>2 DEF HolderInv
<1> QED  BY <1>1, <1>2, <1>3, <1>4, <1>5, <1>6, <1>7, <1>8, <1>9, <1>10 DEF Next, Days

-----------------------------------------------------------------------------
\* The rows that registrations have read.

\* A call that goes on, marked or not.
Continues(c, b) ==
  /\ c.token = b.token /\ c.row = b.row /\ c.user = b.user /\ c.session = b.session
  /\ c.kind = b.kind /\ (c.clean => b.clean) /\ (c.found = b.found \/ c.kind = "unregister")

\* Steps that let no other account take a row.
LEMMA RowsKept ==
  ASSUME RowInv,
         \A k \in Token : device[k].user # Nobody => device'[k].user # Nobody,
         calls' \subseteq CallRecord,
         \A c \in calls' : \/ ~c.found /\ c.row = NoRow /\ c.session = signIns
                           \/ \E b \in calls : Continues(c, b),
         \A c \in calls' : Fresh(c)' =>
            /\ phone.session # Nobody /\ phone.leaving = 0 /\ UNCHANGED signIns
            /\ phone.spent \subseteq phone'.spent /\ alive \subseteq alive'
            /\ device'[c.token] = device[c.token]
  PROVE  RowInv'
<1>1. /\ \A c \in calls' : c.row.live => c.row.user # Nobody
      /\ \A c \in calls' : c.row.user # Nobody => device'[c.token].user # Nobody
  BY DEF RowInv, Continues, NoRow, CallRecord
<1>2. ASSUME NEW c \in calls', Fresh(c)' PROVE Undisturbed(c)'
  <2>1. /\ c.kind = "register" /\ c.found /\ c.clean /\ c.session = signIns'
        /\ c.token \notin phone'.spent
        /\ phone.session # Nobody /\ phone.leaving = 0 /\ signIns' = signIns
        /\ phone.spent \subseteq phone'.spent /\ alive \subseteq alive'
        /\ device'[c.token] = device[c.token]
    BY <1>2 DEF Fresh
  <2>2. PICK b \in calls : Continues(c, b)
    BY <2>1
  <2>3. b.found /\ b.kind = "register" /\ b.clean
    BY <2>1, <2>2 DEF Continues
  <2>4. Undisturbed(b)
    BY <2>1, <2>2, <2>3 DEF RowInv, Fresh, Continues
  <2>5. \A d \in calls' : d.session = signIns'
    BY <2>1, <2>4 DEF Undisturbed, Continues
  <2> QED  BY <2>1, <2>2, <2>4, <2>5 DEF Undisturbed, Continues
<1> QED  BY <1>1, <1>2 DEF RowInv

\* Steps that leave the devices and the accounts alone.
LEMMA RowsUntouched ==
  ASSUME HolderInv, RowInv, UNCHANGED <<device, alive, signIns>>, calls' \subseteq CallRecord,
         \A c \in calls' : \/ ~c.found /\ c.row = NoRow /\ c.session = signIns
                           \/ \E b \in calls : Continues(c, b),
         phone'.session # Nobody /\ phone'.leaving = 0
           => phone.session # Nobody /\ phone.leaving = 0,
         phone.spent \subseteq phone'.spent
  PROVE  RowInv'
  BY RowsKept DEF Fresh

LEMMA SameCalls == \A c \in calls : Continues(c, c)
  BY DEF Continues

LEMMA RowsOfCommit ==
  ASSUME HolderInv, RowInv, NEW c \in calls, Register(c)
  PROVE  RowInv'
<1> USE DigestsAssumption
<1>0. /\ PhoneInv /\ ServerTypes /\ c \in CallRecord /\ calls \subseteq CallRecord
  BY DEF HolderInv, PhoneInv, PhoneTypes
<1>1. /\ c.kind = "register" /\ c.found /\ ~Conflict(c) /\ Answered(c, FALSE)
      /\ UNCHANGED <<alive, signIns>> /\ calls' = calls \ {c}
      /\ device' = [device EXCEPT ![c.token] = LastRegistrationWins(c)]
  BY DEF Register, Answered
<1>2. AnswerEffect(c)
  BY <1>0, <1>1, AnswerChanges
<1>3. c.token \in Token /\ c.user \in User
      /\ device \in [Token -> [user : User \cup {Nobody}, live : BOOLEAN]]
  BY <1>0 DEF CallRecord, ServerTypes
<1>4. /\ \A k \in Token \ {c.token} : device'[k] = device[k]
      /\ device'[c.token] = LastRegistrationWins(c)
  BY <1>1, <1>3
<1>5. device[c.token].user # Nobody => LastRegistrationWins(c).user # Nobody
  BY <1>3 DEF LastRegistrationWins
<1>6. /\ \A d \in calls' : d.row.live => d.row.user # Nobody
      /\ \A d \in calls' : d.row.user # Nobody => device'[d.token].user # Nobody
  BY <1>0, <1>1, <1>4, <1>5 DEF RowInv, CallRecord
<1>7. ASSUME NEW d \in calls', Fresh(d)' PROVE Undisturbed(d)'
  <2>1. d \in calls /\ Fresh(d) /\ phone.session # Nobody /\ d.token \in Token
    BY <1>0, <1>1, <1>2, <1>7 DEF Fresh, AnswerEffect, CallRecord
  <2>2. Undisturbed(d)
    BY <2>1 DEF RowInv
  <2>3. c.user = d.user
    BY <1>0, <2>1, <2>2 DEF PhoneInv, OwnCalls, Undisturbed
  <2>4. CASE d.token # c.token
    BY <1>1, <1>4, <2>1, <2>2, <2>4 DEF Undisturbed
  <2>5. CASE d.token = c.token /\ d.row.user = Nobody
    <3>1. device[c.token].user = Nobody \/ device[c.token] = [user |-> c.user, live |-> TRUE]
      BY <2>2, <2>3, <2>5 DEF Undisturbed
    <3>2. LastRegistrationWins(c) = [user |-> c.user, live |-> TRUE]
      <4>1. /\ device[c.token].user = Nobody => c.row.user = Nobody /\ ~c.row.live
            /\ c.user # Nobody
        BY <1>3 DEF RowInv
      <4>2. (device[c.token].live \/ ~c.row.live) = TRUE
        BY <3>1, <4>1
      <4>3. (IF c.row.user # c.user THEN c.user ELSE device[c.token].user) = c.user
        BY <3>1, <4>1
      <4> QED  BY <4>2, <4>3, Zenon DEF LastRegistrationWins
    <3> QED  BY <1>1, <1>4, <2>2, <2>3, <2>5, <3>2 DEF Undisturbed
  <2>6. CASE d.token = c.token /\ d.row.user # Nobody
    <3>1. /\ d.row.user = d.user => device[c.token].user = c.user
          /\ d.row.live => device[c.token].live
      BY <2>2, <2>3, <2>6 DEF Undisturbed
    <3>2. /\ d.row.user = d.user => LastRegistrationWins(c).user = c.user
          /\ d.row.live => LastRegistrationWins(c).live
      BY <3>1 DEF LastRegistrationWins
    <3> QED  BY <1>1, <1>4, <2>2, <2>3, <2>6, <3>2 DEF Undisturbed
  <2> QED  BY <2>4, <2>5, <2>6
<1> QED  BY <1>6, <1>7 DEF RowInv

LEMMA RowsOfLookup ==
  ASSUME HolderInv, RowInv, NEW c \in calls, FindDevice(c)
  PROVE  RowInv'
<1>0. /\ PhoneInv /\ ServerTypes /\ c \in CallRecord /\ calls \subseteq CallRecord
  BY DEF HolderInv, PhoneInv, PhoneTypes
<1>1. c.kind = "register" /\ UNCHANGED <<device, alive, signIns>>
  BY DEF FindDevice, server
<1>2. CASE c.user \notin alive
  <2>1. Answered(c, TRUE) /\ calls' = calls \ {c}
    BY <1>2 DEF FindDevice, Answered
  <2>2. AnswerEffect(c)
    BY <1>0, <2>1, AnswerChanges
  <2> QED  BY <1>0, <1>1, <2>1, <2>2, RowsUntouched, SameCalls DEF AnswerEffect
<1>3. CASE c.user \in alive
  <2> DEFINE b == \A e \in calls : e.session = signIns
             d == [c EXCEPT !.found = TRUE, !.row = device[c.token], !.clean = b]
  <2>1. calls' = (calls \ {c}) \cup {d} /\ UNCHANGED phone
    BY <1>3 DEF FindDevice
  <2>2. /\ d.row = device[c.token] /\ d.clean = b /\ d.token = c.token /\ d.user = c.user
        /\ d.session = c.session
    <3> HIDE DEF b
    <3> QED  BY <1>0 DEF CallRecord
  <2> HIDE DEF d
  <2>3. \A e \in calls' : e = d \/ e \in calls
    BY <2>1
  <2>4. /\ \A e \in calls' : e.row.live => e.row.user # Nobody
        /\ \A e \in calls' : e.row.user # Nobody => device'[e.token].user # Nobody
    BY <1>0, <1>1, <2>2, <2>3 DEF RowInv, ServerTypes, CallRecord
  <2>5. ASSUME NEW e \in calls', Fresh(e)' PROVE Undisturbed(e)'
    <3>1. CASE e = d
      <4>1. \A g \in calls' : g.session = signIns'
        BY <1>1, <2>2, <2>3, <2>5, <3>1 DEF Fresh
      <4> QED  BY <1>1, <1>3, <2>2, <3>1, <4>1 DEF Undisturbed
    <3>2. CASE e \in calls
      <4>1. Undisturbed(e)
        BY <1>1, <2>1, <2>5, <3>2 DEF RowInv, Fresh
      <4> QED  BY <1>1, <2>2, <2>3, <4>1 DEF Undisturbed
    <3> QED  BY <2>3, <3>1, <3>2
  <2> QED  BY <2>4, <2>5 DEF RowInv
<1> QED  BY <1>2, <1>3

\* A new call has read nothing yet.
LEMMA RowsSent ==
  ASSUME HolderInv, NEW kind, NEW k, NEW start, Sends(kind, phone.session, k, start)
  PROVE  \A c \in calls' : \/ ~c.found /\ c.row = NoRow /\ c.session = signIns
                           \/ \E b \in calls : Continues(c, b)
<1> DEFINE d == [id |-> made', kind |-> kind, user |-> phone.session, token |-> k,
                 session |-> signIns, start |-> start, heard |-> TRUE, found |-> FALSE,
                 row |-> NoRow, clean |-> FALSE]
<1>1. calls' = calls \cup {d}
  BY DEF Sends
<1>2. ~d.found /\ d.row = NoRow /\ d.session = signIns
  OBVIOUS
<1> HIDE DEF d
<1> QED  BY <1>1, <1>2, SameCalls

LEMMA RowsOfPhone ==
  ASSUME HolderInv, RowInv, calls' \subseteq CallRecord,
         \/ Start \/ StartRegisters \/ SignOut \/ Unauthorized
         \/ \E k \in Token : Rotate(k)
  PROVE  RowInv'
<1>1. UNCHANGED <<device, alive, signIns>>
  BY DEF Start, StartRegisters, SignOut, Unauthorized, Rotate, server
<1>2. \A c \in calls' : \/ ~c.found /\ c.row = NoRow /\ c.session = signIns
                        \/ \E b \in calls : Continues(c, b)
  <2>1. \/ UNCHANGED calls
        \/ \E kind, k, start : Sends(kind, phone.session, k, start)
    BY DEF Start, StartRegisters, SignOut, Unauthorized, Rotate
  <2> QED  BY <2>1, SameCalls, RowsSent
<1>3. /\ phone'.session # Nobody /\ phone'.leaving = 0
           => phone.session # Nobody /\ phone.leaving = 0
      /\ phone.spent \subseteq phone'.spent
  <2>1. phone \in PhoneRecord
    BY DEF HolderInv, PhoneInv, PhoneTypes
  <2>2. CASE Start
    BY <2>1, <2>2 DEF Start, PhoneRecord
  <2>3. CASE StartRegisters
    BY <2>1, <2>3 DEF StartRegisters, PhoneRecord, Stopped
  <2>4. CASE SignOut
    BY <2>1, <2>4 DEF SignOut, PhoneRecord, Stopped, SignedOut
  <2>5. CASE Unauthorized
    BY <2>1, <2>5 DEF Unauthorized, PhoneRecord, Stopped, SignedOut
  <2>6. ASSUME NEW k \in Token, Rotate(k)
        PROVE  /\ phone'.session = phone.session /\ phone'.leaving = phone.leaving
               /\ phone.spent \subseteq phone'.spent
    <3>1. \/ phone' = [phone EXCEPT !.token = k, !.last = k, !.spent = @ \cup {phone.token}]
          \/ phone' = [phone EXCEPT !.token = k, !.spent = @ \cup {phone.token}]
      BY <2>6 DEF Rotate
    <3>2. CASE phone' = [phone EXCEPT !.token = k, !.last = k, !.spent = @ \cup {phone.token}]
      BY <2>1, <3>2 DEF PhoneRecord
    <3>3. CASE phone' = [phone EXCEPT !.token = k, !.spent = @ \cup {phone.token}]
      BY <2>1, <3>3 DEF PhoneRecord
    <3> QED  BY <3>1, <3>2, <3>3
  <2> QED  BY <2>2, <2>3, <2>4, <2>5, <2>6
<1> QED  BY <1>1, <1>2, <1>3, RowsUntouched

LEMMA RowsOfCalls ==
  ASSUME HolderInv, RowInv, calls' \subseteq CallRecord, NEW c \in calls,
         LoseCall(c) \/ GiveUp(c) \/ RegistrationConflicts(c) \/ FindRow(c)
  PROVE  RowInv'
<1>0. /\ PhoneInv /\ c \in CallRecord /\ phone \in PhoneRecord
  BY DEF HolderInv, PhoneInv, PhoneTypes
<1>1. UNCHANGED <<device, alive, signIns>>
  BY DEF LoseCall, GiveUp, RegistrationConflicts, FindRow, server
<1>2. ASSUME NEW refused \in BOOLEAN, Answered(c, refused) PROVE RowInv'
  <2>1. calls' = calls \ {c} /\ AnswerEffect(c)
    BY <1>0, <1>2, AnswerChanges DEF Answered
  <2> QED  BY <1>1, <2>1, RowsUntouched, SameCalls DEF AnswerEffect
<1>3. CASE GiveUp(c)
  <2> DEFINE d == [c EXCEPT !.heard = FALSE]
  <2>1. phone' = SignedOut(phone) /\ calls' = (calls \ {c}) \cup {d}
    BY <1>3 DEF GiveUp
  <2>2. Continues(d, c)
    BY <1>0 DEF CallRecord, Continues
  <2> HIDE DEF d
  <2>3. phone'.session = Nobody /\ phone'.spent = phone.spent
    BY <1>0, <2>1 DEF SignedOut, PhoneRecord
  <2> QED  BY <1>1, <2>1, <2>2, <2>3, RowsUntouched, SameCalls
<1>4. CASE c.kind = "unregister" /\ UNCHANGED phone
           /\ calls' = (calls \ {c}) \cup {[c EXCEPT !.found = TRUE]}
  <2> DEFINE d == [c EXCEPT !.found = TRUE]
  <2>1. Continues(d, c)
    BY <1>0, <1>4 DEF CallRecord, Continues
  <2> HIDE DEF d
  <2> QED  BY <1>1, <1>4, <2>1, RowsUntouched, SameCalls DEF d
<1>5. \/ GiveUp(c) \/ Answered(c, FALSE)
      \/ Answered(c, c.user \notin alive)
      \/ /\ c.kind = "unregister" /\ UNCHANGED phone
         /\ calls' = (calls \ {c}) \cup {[c EXCEPT !.found = TRUE]}
  BY DEF LoseCall, RegistrationConflicts, FindRow
<1>6. (c.user \notin alive) \in BOOLEAN /\ FALSE \in BOOLEAN
  OBVIOUS
<1> QED  BY <1>2, <1>3, <1>4, <1>5, <1>6

\* An unregistration is never under way with a registration that is still fresh,
\* a deletion spoils what was read, and only spent tokens are pruned.
LEMMA RowsOfServer ==
  ASSUME HolderInv, RowInv, TickInv, calls' \subseteq CallRecord,
         \/ \E u \in User : DeleteAccount(u)
         \/ \E c \in calls : Unregister(c)
         \/ Note
  PROVE  RowInv'
<1>0. /\ PhoneInv /\ ServerTypes /\ PruneInv /\ calls \subseteq CallRecord
  BY DEF HolderInv, PhoneInv, PhoneTypes
<1>1. CASE \E u \in User : DeleteAccount(u)
  <2>1. /\ calls' = {[c EXCEPT !.clean = FALSE] : c \in calls}
        /\ \A k \in Token : device'[k].user = device[k].user
    BY <1>0, <1>1 DEF DeleteAccount, ServerTypes
  <2>2. \A e \in calls' : ~e.clean /\ \E b \in calls : Continues(e, b)
    BY <1>0, <2>1 DEF CallRecord, Continues
  <2> QED  BY <2>1, <2>2, RowsKept DEF Fresh
<1>2. ASSUME NEW c \in calls, Unregister(c) PROVE RowInv'
  <2>1. /\ c.kind = "unregister" /\ c \in CallRecord /\ calls' = calls \ {c}
        /\ Answered(c, FALSE) /\ UNCHANGED <<alive, signIns>>
        /\ device' = [device EXCEPT ![c.token].live = FALSE]
    BY <1>0, <1>2 DEF Unregister, Answered
  <2>2. AnswerEffect(c)
    BY <1>0, <2>1, AnswerChanges
  <2>3. \A k \in Token : device'[k].user = device[k].user
    BY <1>0, <2>1 DEF ServerTypes, CallRecord
  <2>4. ASSUME NEW d \in calls', Fresh(d)' PROVE FALSE
    <3>1. d \in calls /\ Fresh(d)
      BY <2>1, <2>2, <2>4 DEF Fresh, AnswerEffect
    <3>2. c.session = signIns /\ phone.session # Nobody /\ phone.leaving = 0 /\ c.id # 0
      BY <2>1, <3>1 DEF RowInv, Undisturbed, Fresh, CallRecord
    <3> QED  BY <1>0, <2>1, <3>2 DEF PhoneInv, OwnCalls
  <2> QED  BY <2>1, <2>3, <2>4, RowsKept, SameCalls
<1>3. CASE Note
  <2>1. /\ UNCHANGED <<alive, phone, calls, signIns>> /\ tick.tokens \subseteq phone.spent
        /\ device' = [k \in Token |-> IF k \in tick.tokens
                                      THEN [device[k] EXCEPT !.live = FALSE] ELSE device[k]]
    BY <1>0, <1>3 DEF Note, PruneInv
  <2>2. /\ \A k \in Token : device'[k].user = device[k].user
        /\ \A k \in Token \ phone.spent : device'[k] = device[k]
    BY <1>0, <2>1 DEF ServerTypes
  <2>3. \A c \in calls' : Fresh(c)' => Fresh(c) /\ c.token \in Token \ phone.spent
    BY <1>0, <2>1 DEF Fresh, CallRecord
  <2>4. \A c \in calls' : Fresh(c)' =>
            /\ phone.session # Nobody /\ phone.leaving = 0 /\ UNCHANGED signIns
            /\ phone.spent \subseteq phone'.spent /\ alive \subseteq alive'
            /\ device'[c.token] = device[c.token]
    BY <2>1, <2>2, <2>3 DEF Fresh
  <2> QED  BY <2>1, <2>2, <2>4, RowsKept, SameCalls
<1> QED  BY <1>1, <1>2, <1>3

LEMMA StepRows == ASSUME HolderInv, RowInv, DigestInv, [Next]_vars PROVE RowInv'
<1>0. calls' \subseteq CallRecord /\ PhoneInv /\ phone \in PhoneRecord
      /\ TickInv /\ \A c \in calls : c.session <= signIns /\ c.session \in Nat
  BY StepHolder DEF HolderInv, PhoneInv, PhoneTypes, CallsInv, CallRecord, DigestInv
<1>1. ASSUME NEW u \in User, SignIn(u) PROVE RowInv'
  <2>1. UNCHANGED <<device, calls>> /\ signIns' = signIns + 1 /\ signIns \in Nat
    BY <1>0, <1>1, DigestsAssumption DEF SignIn, PhoneInv, PhoneTypes
  <2>2. \A c \in calls' : ~Fresh(c)'
    BY <1>0, <2>1 DEF Fresh
  <2> QED  BY <1>0, <2>1, <2>2, RowsKept, SameCalls
<1>2. ASSUME NEW c \in calls, LoseCall(c) \/ GiveUp(c) \/ RegistrationConflicts(c) \/ FindRow(c)
      PROVE  RowInv'
  BY <1>0, <1>2, RowsOfCalls
<1>3. ASSUME NEW c \in calls, Register(c) \/ FindDevice(c) PROVE RowInv'
  BY <1>3, RowsOfCommit, RowsOfLookup
<1>4. CASE \/ \E u \in User : DeleteAccount(u)
           \/ \E c \in calls : Unregister(c)
           \/ Note
  BY <1>0, <1>4, RowsOfServer
<1>5. CASE Start \/ StartRegisters \/ SignOut \/ Unauthorized \/ \E k \in Token : Rotate(k)
  BY <1>0, <1>5, RowsOfPhone
<1>6. CASE UNCHANGED <<device, alive, signIns, calls, phone>>
  BY <1>0, <1>6, RowsUntouched, SameCalls
<1>7. CASE Crash
  <2>1. /\ calls' = {} /\ UNCHANGED <<device, alive, signIns>>
    BY <1>7 DEF Crash, server
  <2> QED  BY <2>1 DEF RowInv
<1>8. (\/ \E u \in User : TakeUser(u)
       \/ \E d \in Days : TickStarts(d)
       \/ Send \/ UserFails \/ TickEnds \/ UNCHANGED vars)
        => UNCHANGED <<device, alive, signIns, calls, phone>>
  BY DEF TakeUser, TickStarts, Send, UserFails, TickEnds, vars, server
<1> QED  BY <1>1, <1>2, <1>3, <1>4, <1>5, <1>6, <1>7, <1>8 DEF Next, Days

LEMMA HolderHolds == Spec => []HolderInv
<1>1. (HolderInv /\ RowInv) /\ DigestInv /\ [Next]_vars => (HolderInv /\ RowInv)'
  BY StepHolder, StepRows
<1>2. Init => HolderInv /\ RowInv
  BY InitHolder DEF Init, RowInv
<1> QED  BY DigestHolds, <1>1, <1>2, PTL DEF Spec

\* The phone is registered for whoever is signed in on it, for any accounts,
\* tokens and calls under way, once a registration of the session has been
\* stored, unless a call of an earlier session was under way when it read its
\* row or an account was deleted before it wrote it (ReaderHoldsPhone).
THEOREM PhoneIsReaders == Spec => []ReaderHoldsPhone
<1>1. HolderInv => ReaderHoldsPhone
  BY DEF HolderInv, TidyInv, ReaderHoldsPhone
<1> QED  BY HolderHolds, <1>1, PTL

\* Digests is type correct: in particular a session starts its push service
\* once, and a sign-out waits for a call that is still under way (TypeOK).
THEOREM TypeCorrect == Spec => []TypeOK
<1>1. HolderInv => TypeOK
  <2> SUFFICES ASSUME HolderInv PROVE TypeOK
    OBVIOUS
  <2>1. /\ phone.last \in Token \cup {NoToken} /\ phone.session \in User \cup {Nobody}
        /\ phone.starting \in Nat
    BY DEF HolderInv, PhoneInv, PhoneTypes, PhoneRecord
  <2>2. phone.starting \in 0 .. MaxSignIns
    <3>1. signIns \in Nat /\ signIns <= MaxSignIns /\ MaxSignIns \in Nat
      BY DigestsAssumption DEF HolderInv, PhoneInv, PhoneTypes
    <3>2. phone.starting + (IF Ready(phone) THEN 1 ELSE 0) <= signIns
      BY DEF HolderInv, PhoneInv, SessionInv
    <3> QED  BY <2>1, <3>1, <3>2
  <2>3. phone.leaving \in {c.id : c \in calls} \cup {0}
    BY DEF HolderInv, PhoneInv, CallsInv
  <2> QED  BY <2>1, <2>2, <2>3 DEF HolderInv, ServerTypes, TypeOK
<1> QED  BY HolderHolds, <1>1, PTL
=============================================================================
