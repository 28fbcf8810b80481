------------------------------ MODULE Households ------------------------------
(***************************************************************************)
(* Households (services/households.py) behind their endpoints              *)
(* (routers/account.py): two people who share a plan and a calendar.  A    *)
(* request reads its user when it starts and then takes the steps between  *)
(* its awaits; row locks are held from the step that takes them to the end *)
(* of the transaction.  A join code is redeemed behind the throttle of     *)
(* AuthThrottle, which app-password logins share.                          *)
(***************************************************************************)
EXTENDS AuthThrottle, FiniteSets

CONSTANTS
  User, Ip,
  Tier,        \* the users' plans
  Founders,    \* users who own a household with an open code at the start
  Task,        \* requests that may be in flight together
  MaxRequests  \* bound

ASSUME HouseholdsAssumption ==
  /\ IsFiniteSet(User) /\ IsFiniteSet(Task) /\ MaxRequests \in Nat
  /\ Tier \in [User -> STRING]
  /\ Founders \in Seq(User)
  /\ \A h, g \in DOMAIN Founders : Founders[h] = Founders[g] => h = g

VARIABLES
  alive,    \* users whose row is not deleted
  home,     \* users.household_id
  houses,   \* households: [owner, live]
  codes,    \* invitations: [hh, taken, revoked, expired]
  task, asked,
  consent,  \* history: the household a user founded or joined with a code
  redeemed  \* history: how often a code admitted someone

tables == <<alive, home, houses, codes>>
vars == <<tables, task, asked, consent, redeemed, throttle>>

Ids == Nat \ {0}
None == 0
NoCode == 0
Idle == [pc |-> "idle", user |-> "nobody", was |-> None, code |-> NoCode,
         hh |-> None, whom |-> {}, open |-> {}]

\* entitlements.py: an unknown tier is the free one.
MemberLimit(tier) == IF tier = "family" THEN 2 ELSE 1

Members(h) == {u \in User : alive[u] /\ home[u] = h}
Open(c) == ~codes[c].taken /\ ~codes[c].revoked
OpenCodes(h) == {c \in DOMAIN codes : codes[c].hh = h /\ Open(c) /\ ~codes[c].expired}
Owns(u, h) == h # None /\ houses[h].owner = u

\* visible_user_ids
Visible(u) == IF home[u] = None THEN {u} ELSE Members(home[u])

Init ==
  /\ alive = [u \in User |-> TRUE]
  /\ home = [u \in User |-> IF \E h \in DOMAIN Founders : Founders[h] = u
                            THEN CHOOSE h \in DOMAIN Founders : Founders[h] = u
                            ELSE None]
  /\ houses = [h \in DOMAIN Founders |-> [owner |-> Founders[h], live |-> TRUE]]
  /\ codes = [h \in DOMAIN Founders |->
                [hh |-> h, taken |-> FALSE, revoked |-> FALSE, expired |-> FALSE]]
  /\ task = [t \in Task |-> Idle] /\ asked = 0
  /\ consent = home
  /\ redeemed = [c \in DOMAIN Founders |-> 0]
  /\ ThrottleInit

-----------------------------------------------------------------------------
\* Requests.

Goes(t, r) == task' = [task EXCEPT ![t] = r]
To(t, pc) == task' = [task EXCEPT ![t].pc = pc]
End(t) == task' = [task EXCEPT ![t] = Idle]
At(t, pc) == task[t].pc = pc

\* A request is authenticated: its user's row is read.
Begin(t, u, pc, c, whom) ==
  /\ At(t, "idle")
  /\ asked < MaxRequests /\ asked' = asked + 1
  /\ Goes(t, [pc |-> pc, user |-> u, was |-> home[u], code |-> c,
              hh |-> None, whom |-> whom, open |-> {}])
  /\ UNCHANGED <<tables, consent, redeemed>>

CreateInvite(t, u) ==
  /\ alive[u]
  /\ Begin(t, u, "ensure", NoCode, {})
  /\ UNCHANGED throttle

\* A code, right or wrong, is tried once the throttle lets it through.
AcceptInvite(t, u, ip, c) ==
  /\ alive[u] /\ home[u] = None
  /\ Check(ip, u)
  /\ Begin(t, u, "redeem", c, {})
  /\ UNCHANGED emailFailures

\* The attempt of someone who already shares a calendar only counts.
AcceptAgain(u, ip) ==
  /\ alive[u] /\ home[u] # None
  /\ asked < MaxRequests /\ asked' = asked + 1
  /\ Check(ip, u)
  /\ UNCHANGED <<tables, task, consent, redeemed, emailFailures>>

\* The owner's household and the code are read and found open.
RevokeInvite(t, u, c) ==
  /\ alive[u] /\ Owns(u, home[u])
  /\ codes[c].hh = home[u] /\ Open(c)
  /\ Begin(t, u, "revoke", c, {})
  /\ UNCHANGED throttle

Leave(t, u) ==
  /\ alive[u] /\ home[u] # None /\ ~Owns(u, home[u])
  /\ Begin(t, u, "release", NoCode, {u})
  /\ UNCHANGED throttle

RemoveMember(t, u, m) ==
  /\ alive[u] /\ Owns(u, home[u])
  /\ m # u /\ home[m] = home[u]
  /\ Begin(t, u, "release", NoCode, {m})
  /\ UNCHANGED throttle

DeleteAccount(t, u) ==
  /\ alive[u]
  /\ Begin(t, u, "gather", NoCode, {})
  /\ UNCHANGED throttle

\* An app-password login for a mailbox, from anyone.
ImapLogin(t, u, ip) ==
  /\ Check(ip, u)
  /\ Begin(t, u, "verify", NoCode, {})
  /\ UNCHANGED emailFailures

-----------------------------------------------------------------------------
\* Row locks.

CodeLocked(c) == \E t \in Task : task[t].code = c /\ task[t].pc \in {"house", "admit", "join"}

\* Bug: the members are counted without a lock on the household.
HouseNeverLocked(h) == FALSE

HouseLocked(h) == \E t \in Task : task[t].hh = h /\ At(t, "join")

\* Bug: a redeemed code is still good for the request that waited for it.
GoodWhenAsked(c) == c # NoCode /\ ~codes[c].revoked /\ ~codes[c].expired

\* Bug: a revoked code is still good.
RedeemableRevoked(c) == c # NoCode /\ ~codes[c].taken /\ ~codes[c].expired

\* The invitation's row, read again once its lock is free.
Redeemable(c) == c # NoCode /\ Open(c) /\ ~codes[c].expired

\* InviteInvalid is the one answer that counts as a failure.
Miss(t) == End(t) /\ RecordFailure(task[t].user) /\ UNCHANGED ipAttempts

\* ensure_household: on first use a household of one's own, committed at once.
Ensure(t) ==
  /\ At(t, "ensure")
  /\ LET u == task[t].user
         h == task[t].was
     IN
       \/ /\ h # None /\ Owns(u, h)
          /\ Goes(t, [task[t] EXCEPT !.pc = "collect", !.hh = h])
          /\ UNCHANGED <<houses, home, consent>>
       \/ /\ h # None /\ ~Owns(u, h)
          /\ End(t)                                     \* NotHouseholdOwner
          /\ UNCHANGED <<houses, home, consent>>
       \/ /\ h = None
          /\ houses' = Append(houses, [owner |-> u, live |-> TRUE])
          /\ home' = [home EXCEPT ![u] = Len(houses')]
          /\ consent' = [consent EXCEPT ![u] = Len(houses')]
          /\ Goes(t, [task[t] EXCEPT !.pc = "collect", !.hh = Len(houses')])
  /\ UNCHANGED <<alive, codes, asked, redeemed, throttle>>

\* create_invite reads the codes it is going to replace.
Collect(t) ==
  /\ At(t, "collect")
  /\ Goes(t, [task[t] EXCEPT !.pc = "mint", !.open = OpenCodes(task[t].hh)])
  /\ UNCHANGED <<tables, asked, consent, redeemed, throttle>>

\* Bug: the code is stored under the household the user had at first.
HouseAsked(t) == task[t].was

HouseEnsured(t) == task[t].hh

\* They are revoked, the members counted and a new code stored, or nothing.
Mint(t) ==
  /\ At(t, "mint")
  /\ \A c \in task[t].open : ~CodeLocked(c)
  /\ End(t)
  /\ LET h == task[t].hh
         revoked == [c \in DOMAIN codes |->
                       IF c \in task[t].open THEN [codes[c] EXCEPT !.revoked = TRUE]
                       ELSE codes[c]]
     IN
       \/ /\ Cardinality(Members(h)) + 1 <= MemberLimit(Tier[task[t].user])
          /\ codes' = Append(revoked, [hh |-> HouseEnsured(t), taken |-> FALSE, revoked |-> FALSE,
                                       expired |-> FALSE])
          /\ redeemed' = Append(redeemed, 0)
       \/ /\ Cardinality(Members(h)) + 1 > MemberLimit(Tier[task[t].user])
          /\ UNCHANGED <<codes, redeemed>>              \* MemberLimitReached
  /\ UNCHANGED <<alive, home, houses, asked, consent, throttle>>

\* accept_invite locks the code's row and looks at it again.
Redeem(t) ==
  /\ At(t, "redeem")
  /\ ~CodeLocked(task[t].code)
  /\ \/ /\ Redeemable(task[t].code)
        /\ Goes(t, [task[t] EXCEPT !.pc = "house", !.hh = codes[task[t].code].hh])
        /\ UNCHANGED throttle
     \/ ~Redeemable(task[t].code) /\ Miss(t)
  /\ UNCHANGED <<tables, asked, consent, redeemed>>

\* The household is read before it is locked.
FindHouse(t) ==
  /\ At(t, "house")
  /\ \/ houses[task[t].hh].live /\ To(t, "admit") /\ UNCHANGED throttle
     \/ ~houses[task[t].hh].live /\ Miss(t)
  /\ UNCHANGED <<tables, asked, consent, redeemed>>

\* The household's row is locked and its members counted; a deleted owner
\* leaves the free plan's allowance.
Admit(t) ==
  /\ At(t, "admit")
  /\ ~HouseLocked(task[t].hh)
  /\ LET h == task[t].hh
         owner == houses[h].owner
         limit == MemberLimit(IF alive[owner] THEN Tier[owner] ELSE "free")
     IN  IF Cardinality(Members(h)) >= limit THEN End(t) ELSE To(t, "join")
  /\ UNCHANGED <<tables, asked, consent, redeemed, throttle>>

Join(t) ==
  /\ At(t, "join")
  /\ LET u == task[t].user
         c == task[t].code
     IN
       /\ home' = [home EXCEPT ![u] = task[t].hh]
       /\ codes' = [codes EXCEPT ![c].taken = TRUE]
       /\ consent' = [consent EXCEPT ![u] = IF alive[u] THEN task[t].hh ELSE None]
       /\ redeemed' = [redeemed EXCEPT ![c] = @ + 1]
       /\ RecordSuccess(u)
  /\ End(t)
  /\ UNCHANGED <<alive, houses, asked, ipAttempts>>

Revoke(t) ==
  /\ At(t, "revoke")
  /\ ~CodeLocked(task[t].code)
  /\ codes' = [codes EXCEPT ![task[t].code].revoked = TRUE]
  /\ End(t)
  /\ UNCHANGED <<alive, home, houses, asked, consent, redeemed, throttle>>

\* leave_household and remove_member clear the row, whatever it now holds.
ReleaseMember(t) ==
  /\ At(t, "release")
  /\ home' = [u \in User |-> IF u \in task[t].whom THEN None ELSE home[u]]
  /\ consent' = [u \in User |-> IF u \in task[t].whom THEN None ELSE consent[u]]
  /\ End(t)
  /\ UNCHANGED <<alive, houses, codes, asked, redeemed, throttle>>

\* dissolve_or_leave reads everyone the owner's deletion releases.
Gather(t) ==
  /\ At(t, "gather")
  /\ LET u == task[t].user
         h == task[t].was
         mine == Owns(u, h)
     IN  Goes(t, [task[t] EXCEPT
                    !.pc = "dissolve",
                    !.hh = IF mine THEN h ELSE None,
                    !.whom = (IF h = None THEN {} ELSE {u})
                               \cup (IF mine THEN Members(h) ELSE {}),
                    !.open = IF mine THEN OpenCodes(h) ELSE {}])
  /\ UNCHANGED <<tables, asked, consent, redeemed, throttle>>

\* The commit of delete_account's transaction.
Dissolve(t) ==
  /\ At(t, "dissolve")
  /\ \A c \in task[t].open : ~CodeLocked(c)
  /\ ~HouseLocked(task[t].hh)
  /\ LET u == task[t].user IN
       /\ alive' = [alive EXCEPT ![u] = FALSE]
       /\ home' = [v \in User |-> IF v \in task[t].whom THEN None ELSE home[v]]
       /\ consent' = [v \in User |-> IF v \in task[t].whom \cup {u} THEN None ELSE consent[v]]
       /\ houses' = [h \in DOMAIN houses |->
                       IF h = task[t].hh THEN [houses[h] EXCEPT !.live = FALSE] ELSE houses[h]]
       /\ codes' = [c \in DOMAIN codes |->
                      IF c \in task[t].open THEN [codes[c] EXCEPT !.revoked = TRUE] ELSE codes[c]]
  /\ End(t)
  /\ UNCHANGED <<asked, redeemed, throttle>>

\* The mail server accepts, refuses or is out of reach.
Verify(t) ==
  /\ At(t, "verify")
  /\ End(t)
  /\ \/ RecordSuccess(task[t].user)
     \/ RecordFailure(task[t].user)
     \/ UNCHANGED emailFailures
  /\ UNCHANGED <<tables, asked, consent, redeemed, ipAttempts>>

-----------------------------------------------------------------------------
\* Bug: a reactivated user keeps the household the row still names.
HomeKept(u) == home

\* get_or_create_user: a reactivated account starts alone.
HomeCleared(u) == [home EXCEPT ![u] = None]

SignInAgain(u) ==
  /\ ~alive[u]
  /\ asked < MaxRequests /\ asked' = asked + 1
  /\ alive' = [alive EXCEPT ![u] = TRUE]
  /\ home' = HomeCleared(u)
  /\ UNCHANGED <<houses, codes, task, consent, redeemed, throttle>>

\* An open code passes its term (that of a used one no longer matters).
ExpireCode(c) ==
  /\ Open(c) /\ ~codes[c].expired
  /\ codes' = [codes EXCEPT ![c].expired = TRUE]
  /\ UNCHANGED <<alive, home, houses, task, asked, consent, redeemed, throttle>>

\* The oldest stamp of a client or of a mailbox leaves the window.
AgeAttempt(ip) ==
  /\ Stamps(ipAttempts, ip) > 0
  /\ ipAttempts' = Age(ipAttempts, ip)
  /\ UNCHANGED <<tables, task, asked, consent, redeemed, emailFailures>>

AgeFailure(u) ==
  /\ Stamps(emailFailures, u) > 0
  /\ emailFailures' = Age(emailFailures, u)
  /\ UNCHANGED <<tables, task, asked, consent, redeemed, ipAttempts>>

Step(t) ==
  \/ Ensure(t) \/ Collect(t) \/ Mint(t) \/ Redeem(t) \/ FindHouse(t) \/ Admit(t)
  \/ Join(t) \/ Revoke(t) \/ ReleaseMember(t) \/ Gather(t) \/ Dissolve(t) \/ Verify(t)

Next ==
  \/ \E t \in Task :
       \/ Step(t)
       \/ \E u \in User :
            \/ CreateInvite(t, u) \/ Leave(t, u) \/ DeleteAccount(t, u)
            \/ \E ip \in Ip :
                 \/ ImapLogin(t, u, ip)
                 \/ \E c \in DOMAIN codes \cup {NoCode} : AcceptInvite(t, u, ip, c)
            \/ \E c \in DOMAIN codes : RevokeInvite(t, u, c)
            \/ \E m \in User : RemoveMember(t, u, m)
  \/ \E u \in User : SignInAgain(u) \/ AgeFailure(u) \/ \E ip \in Ip : AcceptAgain(u, ip)
  \/ \E c \in DOMAIN codes : ExpireCode(c)
  \/ \E ip \in Ip : AgeAttempt(ip)

Spec == Init /\ [][Next]_vars

-----------------------------------------------------------------------------
\* Properties.

\* Types of the state.
TypeOK ==
  /\ alive \in [User -> BOOLEAN]
  /\ home \in [User -> Ids \cup {None}] /\ consent \in [User -> Ids \cup {None}]
  /\ houses \in Seq([owner : User, live : BOOLEAN])
  /\ codes \in Seq([hh : Ids, taken : BOOLEAN, revoked : BOOLEAN, expired : BOOLEAN])
  /\ redeemed \in Seq(Nat) /\ Len(redeemed) = Len(codes)

\* However many codes are redeemed at once, a household never holds more
\* people than its owner's plan pays for (accept_invite's two locks).
MembersCapped == \A h \in DOMAIN houses :
  houses[h].live => Cardinality(Members(h)) <= MemberLimit(Tier[houses[h].owner])

\* A code admits one person, also when two redeem it together.
CodeAdmitsOne == \A c \in DOMAIN codes : redeemed[c] <= 1

\* Nobody sees another person's calendar but by founding the household or
\* redeeming one of its codes since the account was last deleted or released:
\* deletion and reactivation restore no sharing (users.py:47-55).
SharingIsConsented == \A u \in User : \A v \in Visible(u) \ {u} :
  alive[u] => consent[u] = home[u] /\ consent[v] = home[u]

\* A code that has been revoked before it was used admits nobody any more.
RevokedIsDead ==
  [][\A c \in DOMAIN codes :
       codes[c].revoked /\ ~codes[c].taken => ~codes'[c].taken]_vars

\* The attempts of a client and the failures on a mailbox stay within their
\* limits, but for the requests that were let through together.
AttemptsBounded ==
  /\ \A ip \in Ip : Stamps(ipAttempts, ip) <= MaxAttempts
  /\ \A u \in User :
       Stamps(emailFailures, u)
         + Cardinality({t \in Task : task[t].user = u
                          /\ task[t].pc \in {"redeem", "house", "verify"}})
       <= MaxFailures - 1 + Cardinality(Task)
  /\ Len(ipAttempts) <= MaxEntries /\ Len(emailFailures) <= MaxEntries
=============================================================================
