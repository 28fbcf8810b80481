--------------------------- MODULE HouseholdsProofs ---------------------------
(***************************************************************************)
(* Proofs about Households, for any users, plans, bounds and number of     *)
(* requests in flight.  The households never need the throttle, which only *)
(* restricts when a request may start; its own bounds come last.           *)
(***************************************************************************)
EXTENDS Households, FiniteSetTheorems, SequenceTheorems, TLAPS

Redeeming == {"house", "admit", "join"}

Stage == {"idle", "ensure", "collect", "mint", "redeem", "house", "admit", "join",
          "revoke", "release", "gather", "dissolve", "verify"}

Request ==
  [pc : Stage, user : User \cup {"nobody"}, was : Nat, code : Nat, hh : Nat,
   whom : SUBSET User, open : SUBSET Nat]

House == [owner : User, live : BOOLEAN]

Code == [hh : Ids, taken : BOOLEAN, revoked : BOOLEAN, expired : BOOLEAN]

\* What a request refers to exists, among nc codes and nh households.
Fits(r, nc, nh) ==
  /\ r \in Request
  /\ r.was <= nh /\ r.hh <= nh
  /\ r.pc # "idle" => r.user \in User
  /\ r.pc \in {"redeem", "revoke"} \cup Redeeming => r.code <= nc
  /\ r.pc \in {"revoke"} \cup Redeeming => r.code > 0
  /\ r.pc \in {"collect", "mint"} \cup Redeeming => r.hh > 0

TasksFit ==
  /\ task \in [Task -> Request]
  /\ \A t \in Task : Fits(task[t], Len(codes), Len(houses))

\* Types, with the references between tables.
TypeInv ==
  /\ TypeOK
  /\ \A u \in User : home[u] <= Len(houses)
  /\ \A c \in 1 .. Len(codes) : codes[c].hh <= Len(houses)
  /\ TasksFit

\* The row locks: a request that redeems a code holds it, still open, alone,
\* and alone the household it is about to join.
LockInv ==
  /\ \A t \in Task : task[t].pc \in Redeeming => Open(task[t].code)
  /\ \A t, s \in Task :
       /\ task[t].pc \in Redeeming /\ task[s].pc \in Redeeming
       /\ task[t].code = task[s].code
       => t = s
  /\ \A t, s \in Task :
       /\ task[t].pc = "join" /\ task[s].pc = "join"
       /\ task[t].hh = task[s].hh
       => t = s

\* A code that is not taken has admitted nobody.
CodeInv ==
  \A c \in 1 .. Len(codes) :
    redeemed[c] <= 1 /\ (~codes[c].taken => redeemed[c] = 0)

\* The cap, and the room a request has found and still holds the lock on.
RoomInv ==
  /\ \A h \in 1 .. Len(houses) :
       Cardinality(Members(h)) <= MemberLimit(Tier[houses[h].owner])
  /\ \A t \in Task : task[t].pc = "join" =>
       Cardinality(Members(task[t].hh)) < MemberLimit(Tier[houses[task[t].hh].owner])

\* Whoever is in a household founded it or joined it with a code.
ConsentInv == \A u \in User : alive[u] /\ home[u] # None => consent[u] = home[u]

-----------------------------------------------------------------------------
\* Lemmas about sequences and requests.

\* A function on the indices of a sequence, with values of the right kind, is
\* a sequence of the same length.
LEMMA SameLength ==
  ASSUME NEW S, NEW T, NEW s \in Seq(S), NEW f, f \in [DOMAIN s -> T]
  PROVE  f \in Seq(T) /\ Len(f) = Len(s) /\ DOMAIN f = DOMAIN s
  OBVIOUS

\* A request that changes to r leaves the others as they are.
LEMMA OneRequest ==
  ASSUME TasksFit, NEW t \in Task, NEW r, Goes(t, r)
  PROVE  /\ r \in Request => task' \in [Task -> Request]
         /\ task'[t] = r
         /\ \A s \in Task \ {t} : task'[s] = task[s]
  BY DEF TasksFit, Goes

\* The requests fit when the one that moves does and nothing disappears.
LEMMA Refit ==
  ASSUME TypeInv, NEW t \in Task, NEW r, Goes(t, r),
         Len(codes') \in Nat, Len(codes') >= Len(codes),
         Len(houses') \in Nat, Len(houses') >= Len(houses),
         Fits(r, Len(codes'), Len(houses'))
  PROVE  TasksFit'
<1>1. Len(codes) \in Nat /\ Len(houses) \in Nat
  BY DEF TypeInv, TypeOK
<1>2. task' \in [Task -> Request] /\ task'[t] = r /\ \A s \in Task \ {t} : task'[s] = task[s]
  BY OneRequest DEF TypeInv, Fits
<1>3. ASSUME NEW s \in Task PROVE Fits(task'[s], Len(codes'), Len(houses'))
  <2>1. CASE s = t
    BY <2>1, <1>2
  <2>2. CASE s # t
    <3>1. task'[s] = task[s] /\ Fits(task[s], Len(codes), Len(houses))
      BY <1>2, <2>2 DEF TypeInv, TasksFit
    <3> QED  BY <3>1, <1>1 DEF Fits, Request
  <2> QED  BY <2>1, <2>2
<1> QED  BY <1>2, <1>3 DEF TasksFit

\* A request that begins fits when what it is about does.
LEMMA BeginFits ==
  ASSUME TypeInv, NEW t \in Task, NEW u \in User,
         NEW pc \in {"ensure", "redeem", "revoke", "release", "gather", "verify"},
         NEW c \in 0 .. Len(codes), NEW w \in SUBSET User, Begin(t, u, pc, c, w),
         pc = "revoke" => c > 0
  PROVE  /\ TypeInv' /\ task'[t].pc \notin Redeeming
         /\ \A s \in Task \ {t} : task'[s] = task[s]
         /\ UNCHANGED <<tables, consent, redeemed>>
<1> DEFINE q == [pc |-> pc, user |-> u, was |-> home[u], code |-> c,
                 hh |-> None, whom |-> w, open |-> {}]
<1>1. Goes(t, q) /\ UNCHANGED <<alive, home, houses, codes, consent, redeemed>>
  BY DEF Begin, tables
<1>2. /\ home[u] \in Nat /\ home[u] <= Len(houses)
      /\ Len(houses) \in Nat /\ Len(codes) \in Nat
  BY DEF TypeInv, TypeOK, None, Ids
<1>3. Fits(q, Len(codes'), Len(houses'))
  BY <1>1, <1>2 DEF Fits, Redeeming, Request, Stage, None
<1>4. q.pc \notin Redeeming
  BY DEF Redeeming
<1> HIDE DEF q
<1>5. TasksFit'
  BY <1>1, <1>2, <1>3, Refit
<1>6. task'[t] = q /\ \A s \in Task \ {t} : task'[s] = task[s]
  BY <1>1, OneRequest DEF TypeInv
<1> QED  BY <1>1, <1>4, <1>5, <1>6 DEF TypeInv, TypeOK, tables

LEMMA IdleRequest == Idle \in Request
  BY DEF Idle, Request, Stage, None, NoCode

\* Every request begins outside the locks, with the types kept.
LEMMA Beginnings ==
  ASSUME TypeInv, NEW t \in Task, NEW u \in User,
         \/ CreateInvite(t, u) \/ Leave(t, u) \/ DeleteAccount(t, u)
         \/ \E ip \in Ip : \/ ImapLogin(t, u, ip)
                           \/ \E c \in DOMAIN codes \cup {NoCode} : AcceptInvite(t, u, ip, c)
         \/ \E c \in DOMAIN codes : RevokeInvite(t, u, c)
         \/ \E m \in User : RemoveMember(t, u, m)
  PROVE  /\ TypeInv' /\ task'[t].pc \notin Redeeming
         /\ \A s \in Task \ {t} : task'[s] = task[s]
         /\ UNCHANGED <<tables, consent, redeemed>>
<1>1. NoCode \in 0 .. Len(codes) /\ \A c \in DOMAIN codes : c \in 0 .. Len(codes) /\ c > 0
  BY DEF TypeInv, TypeOK, NoCode
<1>2. \/ Begin(t, u, "ensure", NoCode, {}) \/ Begin(t, u, "gather", NoCode, {})
      \/ Begin(t, u, "verify", NoCode, {})
      \/ \E m \in User : Begin(t, u, "release", NoCode, {m})
      \/ \E c \in DOMAIN codes \cup {NoCode} : Begin(t, u, "redeem", c, {})
      \/ \E c \in DOMAIN codes : Begin(t, u, "revoke", c, {})
  BY DEF CreateInvite, Leave, DeleteAccount, ImapLogin, AcceptInvite, RevokeInvite, RemoveMember
<1>3. \E pc \in {"ensure", "redeem", "revoke", "release", "gather", "verify"},
         c \in 0 .. Len(codes), w \in SUBSET User :
         Begin(t, u, pc, c, w) /\ (pc = "revoke" => c > 0)
  <2>1. CASE \E m \in User : Begin(t, u, "release", NoCode, {m})
    BY <1>1, <2>1
  <2>2. CASE \E c \in DOMAIN codes \cup {NoCode} : Begin(t, u, "redeem", c, {})
    BY <1>1, <2>2
  <2>3. CASE \E c \in DOMAIN codes : Begin(t, u, "revoke", c, {})
    BY <1>1, <2>3
  <2>4. ASSUME NEW pc \in {"ensure", "gather", "verify"}, Begin(t, u, pc, NoCode, {})
        PROVE  \E q \in {"ensure", "redeem", "revoke", "release", "gather", "verify"},
                  c \in 0 .. Len(codes), w \in SUBSET User :
                  Begin(t, u, q, c, w) /\ (q = "revoke" => c > 0)
    BY <1>1, <2>4
  <2> QED  BY <1>2, <2>1, <2>2, <2>3, <2>4
<1> QED  BY <1>3, BeginFits

-----------------------------------------------------------------------------
\* Types.

\* What one request refers to, read off TypeInv.
LEMMA RequestFacts ==
  ASSUME TypeInv, NEW t \in Task
  PROVE  /\ task[t] \in Request /\ Fits(task[t], Len(codes), Len(houses))
         /\ Len(codes) \in Nat /\ Len(houses) \in Nat
         /\ DOMAIN codes = 1 .. Len(codes) /\ DOMAIN houses = 1 .. Len(houses)
  BY DEF TypeInv, TypeOK, TasksFit, Fits

LEMMA IdleFits ==
  ASSUME NEW nc \in Nat, NEW nh \in Nat
  PROVE  Fits(Idle, nc, nh)
  BY IdleRequest DEF Fits, Idle, Redeeming, None, NoCode

LEMMA CodeFacts ==
  ASSUME TypeInv
  PROVE  /\ codes \in Seq(Code) /\ redeemed \in Seq(Nat) /\ Len(redeemed) = Len(codes)
         /\ Len(codes) \in Nat /\ Len(houses) \in Nat
         /\ DOMAIN codes = 1 .. Len(codes) /\ DOMAIN houses = 1 .. Len(houses)
         /\ \A c \in 1 .. Len(codes) :
              codes[c] \in Code /\ codes[c].hh \in Ids /\ codes[c].hh <= Len(houses)
<1>1. codes \in Seq(Code) /\ redeemed \in Seq(Nat) /\ Len(redeemed) = Len(codes)
  BY DEF TypeInv, TypeOK, Code
<1>2. Len(houses) \in Nat /\ DOMAIN houses = 1 .. Len(houses)
  BY DEF TypeInv, TypeOK
<1>3. \A c \in 1 .. Len(codes) : codes[c] \in Code
  BY <1>1
<1>4. \A c \in 1 .. Len(codes) : codes[c].hh \in Ids
  BY <1>3 DEF Code
<1> QED  BY <1>1, <1>2, <1>3, <1>4 DEF TypeInv

\* Codes whose flags change are still codes of the same households.
LEMMA CodesUpdated ==
  ASSUME TypeInv, NEW f, f \in [DOMAIN codes -> Code],
         \A c \in DOMAIN codes : f[c].hh = codes[c].hh
  PROVE  /\ f \in Seq(Code) /\ Len(f) = Len(codes)
         /\ \A c \in 1 .. Len(codes) : f[c].hh <= Len(houses)
<1>1. f \in Seq(Code) /\ Len(f) = Len(codes)
  BY CodeFacts, SameLength
<1> QED  BY <1>1, CodeFacts

\* So are those that create_invite and a deletion revoke.
LEMMA CodesRevoked ==
  ASSUME TypeInv, NEW W
  PROVE  LET f == [c \in DOMAIN codes |->
                     IF c \in W THEN [codes[c] EXCEPT !.revoked = TRUE] ELSE codes[c]]
         IN  /\ f \in [DOMAIN codes -> Code]
             /\ \A c \in DOMAIN codes : f[c].hh = codes[c].hh /\ f[c].taken = codes[c].taken
<1>1. ASSUME NEW c \in DOMAIN codes
      PROVE  /\ [codes[c] EXCEPT !.revoked = TRUE] \in Code
             /\ [codes[c] EXCEPT !.revoked = TRUE].hh = codes[c].hh
             /\ [codes[c] EXCEPT !.revoked = TRUE].taken = codes[c].taken
             /\ codes[c] \in Code
  <2>1. codes[c] \in Code
    BY CodeFacts
  <2> QED  BY <2>1 DEF Code
<1> QED  BY <1>1

LEMMA EnsureTypes == ASSUME TypeInv, NEW t \in Task, Ensure(t) PROVE TypeInv'
<1> DEFINE u == task[t].user
           h == task[t].was
           q(n) == [task[t] EXCEPT !.pc = "collect", !.hh = n]
<1>1. u \in User /\ h \in Nat /\ h <= Len(houses) /\ Len(houses) \in Nat /\ Len(codes) \in Nat
  BY RequestFacts DEF Ensure, At, Fits, Request
<1>2. ASSUME NEW n \in Nat \ {0}, NEW nh \in Nat, n <= nh, Len(houses) <= nh
      PROVE  Fits(q(n), Len(codes), nh)
  <2>1. q(n) \in Request /\ q(n).pc = "collect" /\ q(n).hh = n /\ q(n).user = u /\ q(n).was = h
    <3>1. task[t] \in Request /\ n \in Nat /\ "collect" \in Stage
      BY <1>2, RequestFacts DEF Stage
    <3> QED  BY <3>1 DEF Request
  <2> HIDE DEF q
  <2> QED  BY <1>1, <1>2, <2>1 DEF Fits, Redeeming
<1>3. CASE h # None /\ Owns(u, h)
  <2>1. Goes(t, q(h)) /\ UNCHANGED <<alive, home, houses, codes, consent, redeemed>>
    BY <1>3 DEF Ensure, None
  <2> HIDE DEF q
  <2>2. Fits(q(h), Len(codes), Len(houses))
    BY <1>1, <1>2, <1>3 DEF None
  <2>3. TasksFit'
    BY <1>1, <2>1, <2>2, Refit
  <2> QED  BY <2>1, <2>3 DEF TypeInv, TypeOK
<1>4. CASE h # None /\ ~Owns(u, h)
  <2>1. Goes(t, Idle) /\ UNCHANGED <<alive, home, houses, codes, consent, redeemed>>
    BY <1>4 DEF Ensure, None, End, Goes
  <2>2. TasksFit'
    BY <1>1, <2>1, IdleFits, Refit
  <2> QED  BY <2>1, <2>2 DEF TypeInv, TypeOK
<1>5. CASE h = None
  <2>1. /\ houses' = Append(houses, [owner |-> u, live |-> TRUE])
        /\ home' = [home EXCEPT ![u] = Len(houses')]
        /\ consent' = [consent EXCEPT ![u] = Len(houses')]
        /\ Goes(t, q(Len(houses')))
        /\ UNCHANGED <<alive, codes, redeemed>>
    BY <1>5 DEF Ensure
  <2>2. houses' \in Seq([owner : User, live : BOOLEAN]) /\ Len(houses') = Len(houses) + 1
    BY <1>1, <2>1 DEF TypeInv, TypeOK
  <2> HIDE DEF q
  <2>3. Fits(q(Len(houses')), Len(codes), Len(houses'))
    BY <1>1, <1>2, <2>2
  <2>4. TasksFit'
    BY <1>1, <2>1, <2>2, <2>3, Refit
  <2>5. TypeOK'
    BY <1>1, <2>1, <2>2 DEF TypeInv, TypeOK, Ids
  <2>6. \A v \in User : home'[v] <= Len(houses')
    BY <1>1, <2>1, <2>2 DEF TypeInv, TypeOK, Ids, None
  <2>7. \A c \in 1 .. Len(codes') : codes'[c].hh <= Len(houses')
    <3>1. \A c \in 1 .. Len(codes) : codes[c].hh \in Nat /\ codes[c].hh <= Len(houses)
      BY CodeFacts DEF Ids
    <3> QED  BY <1>1, <2>1, <2>2, <3>1
  <2> QED  BY <2>4, <2>5, <2>6, <2>7 DEF TypeInv
<1> QED  BY <1>3, <1>4, <1>5

LEMMA MintTypes == ASSUME TypeInv, NEW t \in Task, Mint(t) PROVE TypeInv'
<1> DEFINE h == task[t].hh
           revoked == [c \in DOMAIN codes |->
                         IF c \in task[t].open THEN [codes[c] EXCEPT !.revoked = TRUE]
                         ELSE codes[c]]
           new == [hh |-> HouseEnsured(t), taken |-> FALSE, revoked |-> FALSE, expired |-> FALSE]
<1>1. h \in Ids /\ h <= Len(houses) /\ Len(houses) \in Nat /\ Len(codes) \in Nat
  BY RequestFacts DEF Mint, At, Fits, Request, Ids
<1>2. /\ revoked \in Seq(Code) /\ Len(revoked) = Len(codes)
      /\ \A c \in 1 .. Len(codes) : revoked[c].hh <= Len(houses)
  <2>1. revoked \in [DOMAIN codes -> Code] /\ \A c \in DOMAIN codes : revoked[c].hh = codes[c].hh
    BY CodesRevoked
  <2> HIDE DEF revoked
  <2> QED  BY <2>1, CodesUpdated
<1>3. Goes(t, Idle) /\ UNCHANGED <<alive, home, houses, consent>>
  BY DEF Mint, End, Goes
<1>4. new \in Code /\ new.hh = h
  BY <1>1 DEF HouseEnsured, Code
<1>5. \/ UNCHANGED <<codes, redeemed>>
      \/ codes' = Append(revoked, new) /\ redeemed' = Append(redeemed, 0)
  BY DEF Mint
<1>6. CASE UNCHANGED <<codes, redeemed>>
  <2>1. TasksFit'
    BY <1>1, <1>3, <1>6, IdleFits, Refit
  <2> QED  BY <1>3, <1>6, <2>1 DEF TypeInv, TypeOK
<1>7. CASE codes' = Append(revoked, new) /\ redeemed' = Append(redeemed, 0)
  <2> HIDE DEF revoked, new
  <2>1. codes' \in Seq(Code) /\ Len(codes') = Len(codes) + 1
    BY <1>2, <1>4, <1>7
  <2>2. redeemed' \in Seq(Nat) /\ Len(redeemed') = Len(codes')
    BY <1>7, <2>1, CodeFacts
  <2>3. \A c \in 1 .. Len(codes') : codes'[c].hh <= Len(houses)
    BY <1>1, <1>2, <1>4, <1>7, <2>1
  <2>4. TasksFit'
    BY <1>1, <1>3, <2>1, IdleFits, Refit
  <2> QED  BY <1>3, <2>1, <2>2, <2>3, <2>4 DEF TypeInv, TypeOK, Code
<1> QED  BY <1>5, <1>6, <1>7

\* Steps that change no table.
LEMMA QuietTypes ==
  ASSUME TypeInv, NEW t \in Task, NEW r, Goes(t, r), UNCHANGED <<tables, consent, redeemed>>,
         Fits(r, Len(codes), Len(houses))
  PROVE  TypeInv'
<1>1. TasksFit'
  BY CodeFacts, Refit DEF tables
<1> QED  BY <1>1 DEF TypeInv, TypeOK, tables

\* A request that goes on to another stage.
LEMMA ToTypes ==
  ASSUME TypeInv, NEW t \in Task, NEW p \in Stage, To(t, p), UNCHANGED <<tables, consent, redeemed>>,
         Fits([task[t] EXCEPT !.pc = p], Len(codes), Len(houses))
  PROVE  TypeInv'
<1>1. Goes(t, [task[t] EXCEPT !.pc = p])
  BY DEF To, Goes, TypeInv, TasksFit
<1> DEFINE q == [task[t] EXCEPT !.pc = p]
<1> HIDE DEF q
<1> QED  BY <1>1, QuietTypes DEF q

LEMMA EndTypes ==
  ASSUME TypeInv, NEW t \in Task, End(t), UNCHANGED <<tables, consent, redeemed>>
  PROVE  TypeInv'
  BY CodeFacts, IdleFits, QuietTypes DEF End, Goes

LEMMA RedeemingTypes ==
  ASSUME TypeInv, NEW t \in Task, Redeem(t) \/ FindHouse(t) \/ Admit(t)
  PROVE  TypeInv'
<1>0. UNCHANGED <<tables, consent, redeemed>>
  BY DEF Redeem, FindHouse, Admit
<1>1. CASE End(t)
  BY <1>0, <1>1, EndTypes
<1>2. CASE \E p \in {"admit", "join"} : To(t, p) /\ task[t].pc \in {"house", "admit"}
  <2>1. PICK p \in {"admit", "join"} : To(t, p)
    BY <1>2
  <2>2. task[t] \in Request /\ p \in Stage /\ Fits(task[t], Len(codes), Len(houses))
    BY <2>1, RequestFacts DEF Stage
  <2>3. Fits([task[t] EXCEPT !.pc = p], Len(codes), Len(houses))
    BY <1>2, <2>2 DEF Fits, Request, Redeeming
  <2> QED  BY <1>0, <2>1, <2>2, <2>3, ToTypes
<1>3. CASE /\ At(t, "redeem") /\ Redeemable(task[t].code)
           /\ Goes(t, [task[t] EXCEPT !.pc = "house", !.hh = codes[task[t].code].hh])
  <2> DEFINE c == task[t].code
             q == [task[t] EXCEPT !.pc = "house", !.hh = codes[c].hh]
  <2>1. /\ task[t] \in Request /\ c \in 1 .. Len(codes)
        /\ Fits(task[t], Len(codes), Len(houses)) /\ "house" \in Stage
    BY <1>3, RequestFacts, CodeFacts DEF At, Redeemable, NoCode, Fits, Request, Stage
  <2>2. codes[c].hh \in Ids /\ codes[c].hh <= Len(houses)
    BY <2>1, CodeFacts
  <2>3. q \in Request /\ q.pc = "house" /\ q.hh = codes[c].hh /\ q.code = c /\ q.user = task[t].user
          /\ q.was = task[t].was
    BY <2>1, <2>2 DEF Request, Ids
  <2>4. task[t].user \in User /\ task[t].was <= Len(houses)
    BY <1>3, <2>1 DEF Fits, At
  <2> HIDE DEF q
  <2>5. Fits(q, Len(codes), Len(houses))
    BY <2>1, <2>2, <2>3, <2>4, CodeFacts DEF Fits, Redeeming, Ids
  <2> QED  BY <1>0, <1>3, <2>5, QuietTypes DEF q
<1> QED  BY <1>1, <1>2, <1>3 DEF Redeem, FindHouse, Admit, Miss, At

LEMMA CollectTypes == ASSUME TypeInv, NEW t \in Task, Collect(t) PROVE TypeInv'
<1> DEFINE q == [task[t] EXCEPT !.pc = "mint", !.open = OpenCodes(task[t].hh)]
<1>1. Goes(t, q) /\ UNCHANGED <<tables, consent, redeemed>> /\ task[t].pc = "collect"
  BY DEF Collect, At
<1>2. /\ task[t] \in Request /\ Fits(task[t], Len(codes), Len(houses))
      /\ OpenCodes(task[t].hh) \in SUBSET Nat /\ "mint" \in Stage
  BY RequestFacts DEF OpenCodes, Stage
<1>3. q \in Request /\ q.pc = "mint" /\ q.hh = task[t].hh /\ q.user = task[t].user /\ q.was = task[t].was
  BY <1>2 DEF Request
<1> HIDE DEF q
<1>4. Fits(q, Len(codes), Len(houses))
  BY <1>1, <1>2, <1>3 DEF Fits, Redeeming
<1> QED  BY <1>1, <1>4, QuietTypes

LEMMA GatherTypes == ASSUME TypeInv, NEW t \in Task, Gather(t) PROVE TypeInv'
<1>1. PICK n \in {task[t].was, None}, w \in SUBSET User, o \in SUBSET Nat :
        Goes(t, [task[t] EXCEPT !.pc = "dissolve", !.hh = n, !.whom = w, !.open = o])
  <2> DEFINE u == task[t].user
             h == task[t].was
  <2>1. (IF h = None THEN {} ELSE {u}) \cup (IF Owns(u, h) THEN Members(h) ELSE {}) \in SUBSET User
    BY RequestFacts DEF Gather, At, Fits, Members
  <2>2. (IF Owns(u, h) THEN OpenCodes(h) ELSE {}) \in SUBSET Nat
    BY RequestFacts DEF OpenCodes
  <2>3. (IF Owns(u, h) THEN h ELSE None) \in {h, None}
    OBVIOUS
  <2> QED  BY <2>1, <2>2, <2>3 DEF Gather
<1> DEFINE q == [task[t] EXCEPT !.pc = "dissolve", !.hh = n, !.whom = w, !.open = o]
<1>2. UNCHANGED <<tables, consent, redeemed>> /\ task[t].pc = "gather"
  BY DEF Gather, At
<1>3. /\ task[t] \in Request /\ Fits(task[t], Len(codes), Len(houses)) /\ "dissolve" \in Stage
      /\ n \in Nat /\ n <= Len(houses)
  BY RequestFacts DEF Stage, None, Fits, Request
<1>4. q \in Request /\ q.pc = "dissolve" /\ q.hh = n /\ q.user = task[t].user /\ q.was = task[t].was
  BY <1>3 DEF Request
<1>5. Goes(t, q)
  BY <1>1
<1> HIDE DEF q
<1>6. Fits(q, Len(codes), Len(houses))
  BY <1>2, <1>3, <1>4 DEF Fits, Redeeming
<1> QED  BY <1>2, <1>5, <1>6, QuietTypes

\* Steps that end a request and change flags, or who is where.
LEMMA FlagTypes ==
  ASSUME TypeInv, NEW t \in Task, End(t),
         UNCHANGED houses \/ houses' \in [DOMAIN houses -> House],
         codes' \in [DOMAIN codes -> Code], \A c \in DOMAIN codes : codes'[c].hh = codes[c].hh,
         redeemed' \in [DOMAIN redeemed -> Nat],
         alive' \in [User -> BOOLEAN],
         home' \in [User -> Ids \cup {None}], \A u \in User : home'[u] <= Len(houses),
         consent' \in [User -> Ids \cup {None}]
  PROVE  TypeInv'
<1>1. /\ codes' \in Seq(Code) /\ Len(codes') = Len(codes)
      /\ \A c \in 1 .. Len(codes) : codes'[c].hh <= Len(houses)
  BY CodesUpdated
<1>2. redeemed' \in Seq(Nat) /\ Len(redeemed') = Len(redeemed)
  BY CodeFacts, SameLength
<1>3. houses' \in Seq(House) /\ Len(houses') = Len(houses)
  <2>1. houses \in Seq(House)
    BY DEF TypeInv, TypeOK, House
  <2> QED  BY <2>1, SameLength
<1>4. TasksFit'
  <2>1. Goes(t, Idle) /\ Fits(Idle, Len(codes'), Len(houses'))
    BY <1>1, <1>3, CodeFacts, IdleFits DEF End, Goes
  <2> QED  BY <1>1, <1>3, <2>1, CodeFacts, Refit
<1> QED  BY <1>1, <1>2, <1>3, <1>4, CodeFacts DEF TypeInv, TypeOK, Code, House

LEMMA JoinTypes == ASSUME TypeInv, NEW t \in Task, Join(t) PROVE TypeInv'
<1> DEFINE c == task[t].code
           u == task[t].user
           h == task[t].hh
<1>1. c \in DOMAIN codes /\ u \in User /\ h \in Ids /\ h <= Len(houses)
  BY RequestFacts DEF Join, At, Fits, Redeeming, Request, Ids
<1>2. /\ End(t) /\ UNCHANGED <<alive, houses>>
      /\ home' = [home EXCEPT ![u] = h]
      /\ codes' = [codes EXCEPT ![c].taken = TRUE]
      /\ consent' = [consent EXCEPT ![u] = IF alive[u] THEN h ELSE None]
      /\ redeemed' = [redeemed EXCEPT ![c] = @ + 1]
  BY DEF Join
<1>3. codes' \in [DOMAIN codes -> Code] /\ \A d \in DOMAIN codes : codes'[d].hh = codes[d].hh
  BY <1>1, <1>2, CodeFacts DEF Code
<1>4. redeemed' \in [DOMAIN redeemed -> Nat]
  BY <1>1, <1>2, CodeFacts
<1>5. home' \in [User -> Ids \cup {None}] /\ consent' \in [User -> Ids \cup {None}]
  BY <1>1, <1>2 DEF TypeInv, TypeOK
<1>6. \A v \in User : home'[v] <= Len(houses)
  BY <1>1, <1>2 DEF TypeInv, TypeOK
<1>7. alive' \in [User -> BOOLEAN]
  BY <1>2 DEF TypeInv, TypeOK
<1> QED  BY <1>2, <1>3, <1>4, <1>5, <1>6, <1>7, FlagTypes

LEMMA RevokeTypes == ASSUME TypeInv, NEW t \in Task, Revoke(t) PROVE TypeInv'
<1>1. /\ End(t) /\ UNCHANGED <<alive, home, houses, consent, redeemed>>
      /\ codes' = [codes EXCEPT ![task[t].code].revoked = TRUE]
  BY DEF Revoke
<1>2. codes' \in [DOMAIN codes -> Code] /\ \A d \in DOMAIN codes : codes'[d].hh = codes[d].hh
  BY <1>1, CodeFacts DEF Code
<1>3. redeemed \in [DOMAIN redeemed -> Nat]
  BY CodeFacts
<1> QED  BY <1>1, <1>2, <1>3, FlagTypes DEF TypeInv, TypeOK

LEMMA ReleaseTypes == ASSUME TypeInv, NEW t \in Task, ReleaseMember(t) PROVE TypeInv'
<1>1. /\ End(t) /\ UNCHANGED <<alive, houses, codes, redeemed>>
      /\ home' = [u \in User |-> IF u \in task[t].whom THEN None ELSE home[u]]
      /\ consent' = [u \in User |-> IF u \in task[t].whom THEN None ELSE consent[u]]
  BY DEF ReleaseMember
<1>2. codes' \in [DOMAIN codes -> Code] /\ redeemed' \in [DOMAIN redeemed -> Nat]
  BY <1>1, CodeFacts
<1>3. /\ home' \in [User -> Ids \cup {None}] /\ consent' \in [User -> Ids \cup {None}]
      /\ \A u \in User : home'[u] <= Len(houses)
  BY <1>1, CodeFacts DEF TypeInv, TypeOK, None
<1> QED  BY <1>1, <1>2, <1>3, FlagTypes DEF TypeInv, TypeOK

LEMMA DissolveTypes == ASSUME TypeInv, NEW t \in Task, Dissolve(t) PROVE TypeInv'
<1> DEFINE u == task[t].user
<1>1. /\ End(t) /\ UNCHANGED redeemed
      /\ alive' = [alive EXCEPT ![u] = FALSE]
      /\ home' = [v \in User |-> IF v \in task[t].whom THEN None ELSE home[v]]
      /\ consent' = [v \in User |-> IF v \in task[t].whom \cup {u} THEN None ELSE consent[v]]
      /\ houses' = [h \in DOMAIN houses |->
                      IF h = task[t].hh THEN [houses[h] EXCEPT !.live = FALSE] ELSE houses[h]]
      /\ codes' = [c \in DOMAIN codes |->
                     IF c \in task[t].open THEN [codes[c] EXCEPT !.revoked = TRUE] ELSE codes[c]]
  BY DEF Dissolve
<1>2. codes' \in [DOMAIN codes -> Code] /\ \A c \in DOMAIN codes : codes'[c].hh = codes[c].hh
  BY <1>1, CodesRevoked
<1>3. houses' \in [DOMAIN houses -> House]
  <2>0. houses \in Seq(House)
    BY DEF TypeInv, TypeOK, House
  <2>1. \A h \in DOMAIN houses : houses[h] \in House
    BY <2>0
  <2>2. \A h \in DOMAIN houses : [houses[h] EXCEPT !.live = FALSE] \in House
    BY <2>1 DEF House
  <2> QED  BY <1>1, <2>1, <2>2
<1>4. redeemed' \in [DOMAIN redeemed -> Nat]
  BY <1>1, CodeFacts
<1>5. /\ home' \in [User -> Ids \cup {None}] /\ consent' \in [User -> Ids \cup {None}]
      /\ \A v \in User : home'[v] <= Len(houses)
      /\ alive' \in [User -> BOOLEAN]
  <2>1. /\ home \in [User -> Ids \cup {None}] /\ consent \in [User -> Ids \cup {None}]
        /\ \A v \in User : home[v] <= Len(houses)
        /\ alive \in [User -> BOOLEAN] /\ None <= Len(houses)
    BY CodeFacts DEF TypeInv, TypeOK, None
  <2> QED  BY <1>1, <2>1
<1> QED  BY <1>1, <1>2, <1>3, <1>4, <1>5, FlagTypes

\* Steps of no request.
LEMMA OtherTypes ==
  ASSUME TypeInv, UNCHANGED <<houses, task, consent, redeemed>>,
         \/ UNCHANGED <<alive, home, codes>>
         \/ \E u \in User : SignInAgain(u)
         \/ \E c \in DOMAIN codes : ExpireCode(c)
  PROVE  TypeInv'
<1>1. CASE UNCHANGED <<alive, home, codes>>
  BY <1>1 DEF TypeInv, TypeOK, TasksFit
<1>2. ASSUME NEW u \in User, SignInAgain(u) PROVE TypeInv'
  BY <1>2, CodeFacts DEF SignInAgain, HomeCleared, None, TypeInv, TypeOK, TasksFit
<1>3. ASSUME NEW c \in DOMAIN codes, ExpireCode(c) PROVE TypeInv'
  <2>1. UNCHANGED <<alive, home>> /\ codes' = [codes EXCEPT ![c].expired = TRUE]
    BY <1>3 DEF ExpireCode
  <2>2. codes' \in [DOMAIN codes -> Code] /\ \A d \in DOMAIN codes : codes'[d].hh = codes[d].hh
    BY <2>1, CodeFacts DEF Code
  <2>3. /\ codes' \in Seq(Code) /\ Len(codes') = Len(codes)
        /\ \A d \in 1 .. Len(codes) : codes'[d].hh <= Len(houses)
    BY <2>2, CodesUpdated
  <2> QED  BY <2>1, <2>3 DEF TypeInv, TypeOK, TasksFit, Code
<1> QED  BY <1>1, <1>2, <1>3

LEMMA VerifyTypes == ASSUME TypeInv, NEW t \in Task, Verify(t) PROVE TypeInv'
  BY EndTypes DEF Verify, tables

LEMMA InitTypes == Init => TypeInv
<1> SUFFICES ASSUME Init PROVE TypeInv
  OBVIOUS
<1> USE HouseholdsAssumption
<1>1. Founders \in Seq(User) /\ Len(Founders) \in Nat /\ DOMAIN Founders = 1 .. Len(Founders)
  OBVIOUS
<1>2. houses \in Seq(House) /\ Len(houses) = Len(Founders)
  <2>1. houses \in [DOMAIN Founders -> House]
    BY <1>1 DEF Init, House
  <2> QED  BY <1>1, <2>1, SameLength
<1>3. /\ codes \in Seq(Code)
      /\ Len(codes) = Len(Founders)
      /\ \A c \in 1 .. Len(codes) : codes[c].hh = c
  <2>1. codes \in [DOMAIN Founders -> Code]
    BY <1>1 DEF Init, Code, Ids
  <2>2. \A c \in DOMAIN Founders : codes[c].hh = c
    BY DEF Init
  <2> QED  BY <1>1, <2>1, <2>2, SameLength
<1>4. redeemed \in Seq(Nat) /\ Len(redeemed) = Len(Founders)
  <2>1. redeemed \in [DOMAIN Founders -> Nat]
    BY <1>1 DEF Init
  <2> QED  BY <1>1, <2>1, SameLength
<1>5. alive \in [User -> BOOLEAN]
  BY DEF Init
<1>6. home \in [User -> Ids \cup {None}] /\ \A u \in User : home[u] <= Len(Founders)
  <2>1. ASSUME NEW u \in User
        PROVE  home[u] \in Ids \cup {None} /\ home[u] <= Len(Founders)
    BY <1>1 DEF Init, Ids, None
  <2>2. home = [u \in User |-> home[u]]
    BY DEF Init
  <2> QED  BY <2>1, <2>2
<1>7. TasksFit
  BY <1>2, <1>3, <1>1, IdleRequest, IdleFits DEF Init, TasksFit
<1>8. TypeOK
  <2>1. consent = home
    BY DEF Init
  <2> QED  BY <1>2, <1>3, <1>4, <1>5, <1>6, <2>1 DEF TypeOK, House, Code
<1>9. \A c \in 1 .. Len(codes) : codes[c].hh <= Len(houses)
  BY <1>1, <1>2, <1>3
<1> QED  BY <1>2, <1>6, <1>7, <1>8, <1>9 DEF TypeInv

LEMMA NextTypes == ASSUME TypeInv, [Next]_vars PROVE TypeInv'
<1>1. ASSUME NEW t \in Task, Step(t) PROVE TypeInv'
  BY <1>1, EnsureTypes, CollectTypes, MintTypes, RedeemingTypes, JoinTypes, RevokeTypes,
     ReleaseTypes, GatherTypes, DissolveTypes, VerifyTypes DEF Step
<1>2. ASSUME NEW t \in Task, NEW u \in User,
         \/ CreateInvite(t, u) \/ Leave(t, u) \/ DeleteAccount(t, u)
         \/ \E ip \in Ip : \/ ImapLogin(t, u, ip)
                           \/ \E c \in DOMAIN codes \cup {NoCode} : AcceptInvite(t, u, ip, c)
         \/ \E c \in DOMAIN codes : RevokeInvite(t, u, c)
         \/ \E m \in User : RemoveMember(t, u, m)
      PROVE  TypeInv'
  BY <1>2, Beginnings
<1>3. ASSUME NEW u \in User, SignInAgain(u) \/ AgeFailure(u) \/ \E ip \in Ip : AcceptAgain(u, ip)
      PROVE  TypeInv'
  BY <1>3, OtherTypes DEF SignInAgain, AgeFailure, AcceptAgain, tables
<1>4. ASSUME NEW c \in DOMAIN codes, ExpireCode(c) PROVE TypeInv'
  BY <1>4, OtherTypes DEF ExpireCode
<1>5. ASSUME NEW ip \in Ip, AgeAttempt(ip) PROVE TypeInv'
  BY <1>5, OtherTypes DEF AgeAttempt, tables
<1>6. CASE UNCHANGED vars
  BY <1>6, OtherTypes DEF vars, tables
<1> QED  BY <1>1, <1>2, <1>3, <1>4, <1>5, <1>6 DEF Next

LEMMA TypesHold == Spec => []TypeInv
<1>1. TypeInv /\ [Next]_vars => TypeInv'
  BY NextTypes
<1> QED  BY InitTypes, <1>1, PTL DEF Spec

\* The tables keep their shape: the ids they refer to exist, and a code has
\* one count of redemptions.
THEOREM TypeCorrect == Spec => []TypeOK
<1>1. TypeInv => TypeOK
  BY DEF TypeInv
<1> QED  BY TypesHold, <1>1, PTL

-----------------------------------------------------------------------------
\* Sharing.

\* The steps that change a table; every other one leaves them all alone.
LEMMA TableSteps ==
  ASSUME TypeInv, [Next]_vars
  PROVE  \/ UNCHANGED <<tables, consent, redeemed>>
         \/ \E t \in Task : \/ Ensure(t) \/ Mint(t) \/ Join(t) \/ Revoke(t)
                            \/ ReleaseMember(t) \/ Dissolve(t)
         \/ \E u \in User : SignInAgain(u)
         \/ \E c \in DOMAIN codes : ExpireCode(c)
<1>1. ASSUME NEW t \in Task, Step(t) PROVE
         \/ UNCHANGED <<tables, consent, redeemed>>
         \/ Ensure(t) \/ Mint(t) \/ Join(t) \/ Revoke(t) \/ ReleaseMember(t) \/ Dissolve(t)
  BY <1>1 DEF Step, Collect, Redeem, FindHouse, Admit, Gather, Verify
<1>2. ASSUME NEW t \in Task, NEW u \in User,
         \/ CreateInvite(t, u) \/ Leave(t, u) \/ DeleteAccount(t, u)
         \/ \E ip \in Ip : \/ ImapLogin(t, u, ip)
                           \/ \E c \in DOMAIN codes \cup {NoCode} : AcceptInvite(t, u, ip, c)
         \/ \E c \in DOMAIN codes : RevokeInvite(t, u, c)
         \/ \E m \in User : RemoveMember(t, u, m)
      PROVE  UNCHANGED <<tables, consent, redeemed>>
  BY <1>2, Beginnings
<1>3. ASSUME NEW u \in User, AgeFailure(u) \/ \E ip \in Ip : AcceptAgain(u, ip)
      PROVE  UNCHANGED <<tables, consent, redeemed>>
  BY <1>3 DEF AgeFailure, AcceptAgain
<1>4. ASSUME NEW ip \in Ip, AgeAttempt(ip) PROVE UNCHANGED <<tables, consent, redeemed>>
  BY <1>4 DEF AgeAttempt
<1>5. CASE UNCHANGED vars
  BY <1>5 DEF vars
<1> QED  BY <1>1, <1>2, <1>3, <1>4, <1>5 DEF Next

LEMMA ConsentStep == ASSUME TypeInv, ConsentInv, [Next]_vars PROVE ConsentInv'
<1> USE DEF ConsentInv
<1>0. /\ alive \in [User -> BOOLEAN] /\ home \in [User -> Ids \cup {None}]
      /\ consent \in [User -> Ids \cup {None}]
  BY DEF TypeInv, TypeOK
<1>1. CASE UNCHANGED <<tables, consent, redeemed>>
  BY <1>1 DEF tables
<1>2. ASSUME NEW t \in Task, Ensure(t) PROVE ConsentInv'
  BY <1>0, <1>2 DEF Ensure
<1>3. ASSUME NEW t \in Task, Mint(t) \/ Revoke(t) PROVE ConsentInv'
  BY <1>3 DEF Mint, Revoke
<1>4. ASSUME NEW t \in Task, Join(t) PROVE ConsentInv'
  BY <1>0, <1>4 DEF Join
<1>5. ASSUME NEW t \in Task, ReleaseMember(t) PROVE ConsentInv'
  BY <1>0, <1>5 DEF ReleaseMember
<1>6. ASSUME NEW t \in Task, Dissolve(t) PROVE ConsentInv'
  BY <1>0, <1>6 DEF Dissolve
<1>7. ASSUME NEW u \in User, SignInAgain(u) PROVE ConsentInv'
  BY <1>0, <1>7 DEF SignInAgain, HomeCleared
<1>8. ASSUME NEW c \in DOMAIN codes, ExpireCode(c) PROVE ConsentInv'
  BY <1>8 DEF ExpireCode
<1> QED  BY <1>1, <1>2, <1>3, <1>4, <1>5, <1>6, <1>7, <1>8, TableSteps

\* Nobody sees another person's calendar but by founding the household or
\* redeeming one of its codes, for any users and any number of requests.
THEOREM ConsentedSharing == Spec => []SharingIsConsented
<1>1. Init => ConsentInv
  BY DEF Init, ConsentInv
<1>2. TypeInv /\ ConsentInv /\ [Next]_vars => ConsentInv'
  BY ConsentStep
<1>3. ConsentInv => SharingIsConsented
  BY DEF ConsentInv, SharingIsConsented, Visible, Members
<1> QED  BY <1>1, <1>2, <1>3, TypesHold, PTL DEF Spec

-----------------------------------------------------------------------------
\* The row locks.

\* A step of a request that holds no lock afterwards, and that revokes or
\* takes no code another request has locked.
LEMMA LocksKept ==
  ASSUME TypeInv, LockInv, NEW t \in Task,
         task'[t].pc \notin Redeeming, \A s \in Task \ {t} : task'[s] = task[s],
         \A s \in Task \ {t} : task[s].pc \in Redeeming => Open(task[s].code)'
  PROVE  LockInv'
<1> USE DEF Redeeming
<1>1. \A s \in Task : task'[s].pc \in Redeeming => s # t /\ task'[s] = task[s]
  OBVIOUS
<1>2. \A s \in Task : task'[s].pc \in Redeeming => Open(task[s].code)'
  BY <1>1 DEF Open
<1> QED  BY <1>1, <1>2 DEF LockInv, Open

\* The same when no code changes.
LEMMA LocksKeptQuietly ==
  ASSUME TypeInv, LockInv, NEW t \in Task,
         task'[t].pc \notin Redeeming, \A s \in Task \ {t} : task'[s] = task[s],
         UNCHANGED codes
  PROVE  LockInv'
<1>1. \A s \in Task \ {t} : task[s].pc \in Redeeming => Open(task[s].code)'
  BY DEF LockInv, Open
<1> QED  BY <1>1, LocksKept

LEMMA Ended ==
  ASSUME TypeInv, NEW t \in Task, End(t)
  PROVE  task'[t].pc \notin Redeeming /\ \A s \in Task \ {t} : task'[s] = task[s]
<1>1. Goes(t, Idle)
  BY DEF End, Goes
<1>2. Idle.pc \notin Redeeming
  BY DEF Idle, Redeeming
<1> QED  BY <1>1, <1>2, OneRequest DEF TypeInv

\* Other requests stay outside the locks.
LEMMA OutsideLocks ==
  ASSUME TypeInv, NEW t \in Task, Ensure(t) \/ Collect(t) \/ Gather(t)
  PROVE  task'[t].pc \notin Redeeming /\ \A s \in Task \ {t} : task'[s] = task[s]
<1>1. task[t] \in Request /\ {"collect", "mint", "dissolve"} \subseteq Stage \ Redeeming
  BY RequestFacts DEF Stage, Redeeming
<1>2. task \in [Task -> Request]
  BY DEF TypeInv, TasksFit
<1>3. CASE End(t)
  BY <1>3, Ended
<1>4. CASE ~End(t)
  <2>1. CASE Ensure(t)
    <3>1. PICK h : Goes(t, [task[t] EXCEPT !.pc = "collect", !.hh = h])
      BY <1>4, <2>1 DEF Ensure
    <3> QED  BY <1>1, <1>2, <3>1 DEF Goes, Request
  <2>2. CASE Collect(t)
    BY <1>1, <1>2, <1>4, <2>2 DEF Collect, Goes, Request
  <2>3. CASE Gather(t)
    BY <1>1, <1>2, <1>4, <2>3 DEF Gather, Goes, Request
  <2> QED  BY <2>1, <2>2, <2>3
<1> QED  BY <1>3, <1>4

\* A request whose code nobody has locked takes the lock.
LEMMA LockTaken == ASSUME TypeInv, LockInv, NEW t \in Task, Redeem(t) PROVE LockInv'
<1>0. UNCHANGED codes
  BY DEF Redeem, tables
<1>1. CASE End(t)
  BY <1>0, <1>1, Ended, LocksKeptQuietly
<1>2. CASE /\ Redeemable(task[t].code)
           /\ Goes(t, [task[t] EXCEPT !.pc = "house", !.hh = codes[task[t].code].hh])
  <2> DEFINE q == [task[t] EXCEPT !.pc = "house", !.hh = codes[task[t].code].hh]
  <2>1. task[t] \in Request /\ "house" \in Stage
    BY RequestFacts DEF Stage
  <2>2. q.pc = "house" /\ q.code = task[t].code
    BY <2>1 DEF Request
  <2>3. task'[t] = q /\ \A s \in Task \ {t} : task'[s] = task[s]
    BY <1>2, OneRequest DEF TypeInv
  <2> HIDE DEF q
  <2>4. \A s \in Task : task[s].pc \in Redeeming => task[s].code # task[t].code
    BY DEF Redeem, CodeLocked, Redeeming
  <2>5. Open(task[t].code)
    BY <1>2 DEF Redeemable
  <2> QED  BY <1>0, <2>2, <2>3, <2>4, <2>5 DEF LockInv, Open, Redeeming
<1> QED  BY <1>1, <1>2 DEF Redeem, Miss

\* The request that holds a code goes on; into the household it joins, alone.
LEMMA LockHeld ==
  ASSUME TypeInv, LockInv, NEW t \in Task, FindHouse(t) \/ Admit(t)
  PROVE  LockInv'
<1>0. UNCHANGED codes /\ task[t].pc \in Redeeming
  BY DEF FindHouse, Admit, At, tables, Redeeming
<1>1. CASE End(t)
  BY <1>0, <1>1, Ended, LocksKeptQuietly
<1>2. ASSUME NEW p \in {"admit", "join"}, To(t, p),
             p = "join" => ~HouseLocked(task[t].hh)
      PROVE  LockInv'
  <2>1. /\ task[t] \in Request /\ task \in [Task -> Request]
    BY RequestFacts DEF TypeInv, TasksFit
  <2>2. /\ task'[t].pc = p /\ task'[t].code = task[t].code /\ task'[t].hh = task[t].hh
        /\ \A s \in Task \ {t} : task'[s] = task[s]
    BY <1>2, <2>1 DEF To, Request
  <2>3. p = "join" => \A s \in Task : task[s].pc = "join" => task[s].hh # task[t].hh
    BY <1>2 DEF HouseLocked, At
  <2> QED  BY <1>0, <2>2, <2>3 DEF LockInv, Open, Redeeming
<1> QED  BY <1>1, <1>2 DEF FindHouse, Admit, Miss

\* create_invite keeps the flags of the codes it has not read, and adds one.
LEMMA MintKeeps ==
  ASSUME TypeInv, NEW t \in Task, Mint(t)
  PROVE  /\ Len(codes') \in Nat /\ Len(codes') >= Len(codes)
         /\ \A c \in DOMAIN codes :
              /\ c \notin task[t].open => codes'[c] = codes[c]
              /\ codes'[c].taken = codes[c].taken /\ redeemed'[c] = redeemed[c]
         /\ \A c \in 1 .. Len(codes') : c \notin DOMAIN codes => redeemed'[c] = 0
<1> DEFINE revoked == [c \in DOMAIN codes |->
                         IF c \in task[t].open THEN [codes[c] EXCEPT !.revoked = TRUE]
                         ELSE codes[c]]
           new == [hh |-> HouseEnsured(t), taken |-> FALSE, revoked |-> FALSE, expired |-> FALSE]
<1>1. \/ UNCHANGED <<codes, redeemed>>
      \/ codes' = Append(revoked, new) /\ redeemed' = Append(redeemed, 0)
  BY DEF Mint
<1>2. /\ revoked \in [DOMAIN codes -> Code]
      /\ \A c \in DOMAIN codes : revoked[c].hh = codes[c].hh /\ revoked[c].taken = codes[c].taken
  BY CodesRevoked
<1>3. \A c \in DOMAIN codes : c \notin task[t].open => revoked[c] = codes[c]
  OBVIOUS
<1> HIDE DEF revoked, new
<1>4. revoked \in Seq(Code) /\ Len(revoked) = Len(codes)
  BY <1>2, CodesUpdated
<1>5. CASE UNCHANGED <<codes, redeemed>>
  BY <1>5, CodeFacts
<1>6. CASE codes' = Append(revoked, new) /\ redeemed' = Append(redeemed, 0)
  <2>1. Len(codes') = Len(codes) + 1 /\ \A c \in 1 .. Len(codes) : codes'[c] = revoked[c]
    <3>1. \A S, f, x : f \in Seq(S) =>
            /\ Len(Append(f, x)) = Len(f) + 1
            /\ \A i \in 1 .. Len(f) : Append(f, x)[i] = f[i]
      OBVIOUS
    <3> QED  BY <1>4, <1>6, <3>1
  <2>2. /\ \A c \in 1 .. Len(codes) : redeemed'[c] = redeemed[c]
        /\ redeemed'[Len(codes) + 1] = 0
    BY <1>6, CodeFacts
  <2> QED  BY <1>2, <1>3, <2>1, <2>2, CodeFacts
<1> QED  BY <1>1, <1>5, <1>6

LEMMA LockStep == ASSUME TypeInv, LockInv, [Next]_vars PROVE LockInv'
<1>1. ASSUME NEW t \in Task, Ensure(t) \/ Collect(t) \/ Gather(t) PROVE LockInv'
  <2>1. UNCHANGED codes
    BY <1>1 DEF Ensure, Collect, Gather, tables
  <2> QED  BY <1>1, <2>1, OutsideLocks, LocksKeptQuietly
<1>2. ASSUME NEW t \in Task, Mint(t) \/ Dissolve(t) PROVE LockInv'
  <2>1. End(t) /\ \A c \in task[t].open : ~CodeLocked(c)
    BY <1>2 DEF Mint, Dissolve
  <2>2. \A c \in DOMAIN codes \ task[t].open : Open(c) => Open(c)'
    <3>1. CASE Dissolve(t)
      BY <3>1 DEF Dissolve, Open
    <3>2. CASE Mint(t)
      BY <3>2, MintKeeps DEF Open
    <3> QED  BY <1>2, <3>1, <3>2
  <2>3. ASSUME NEW s \in Task \ {t}, task[s].pc \in Redeeming PROVE Open(task[s].code)'
    <3>1. task[s].code \in DOMAIN codes
      BY <2>3, RequestFacts DEF Fits, Request
    <3>2. task[s].code \notin task[t].open
      BY <2>1, <2>3 DEF CodeLocked, Redeeming
    <3>3. task'[s] = task[s]
      BY <2>1, Ended
    <3> QED  BY <2>2, <2>3, <3>1, <3>2, <3>3 DEF LockInv, Open
  <2> QED  BY <2>1, <2>3, Ended, LocksKept
<1>3. ASSUME NEW t \in Task, Join(t) \/ Revoke(t) PROVE LockInv'
  <2>1. End(t) /\ \A s \in Task \ {t} : task[s].pc \in Redeeming => task[s].code # task[t].code
    BY <1>3 DEF Join, Revoke, CodeLocked, LockInv, At, Redeeming
  <2>2. \A c \in DOMAIN codes \ {task[t].code} : codes'[c] = codes[c]
    BY <1>3, CodeFacts DEF Join, Revoke
  <2>3. ASSUME NEW s \in Task \ {t}, task[s].pc \in Redeeming PROVE Open(task[s].code)'
    <3>1. task[s].code \in DOMAIN codes
      BY <2>3, RequestFacts DEF Fits, Request
    <3>2. task'[s] = task[s]
      BY <2>1, Ended
    <3> QED  BY <2>1, <2>2, <2>3, <3>1, <3>2 DEF LockInv, Open
  <2> QED  BY <2>1, <2>3, Ended, LocksKept
<1>4. ASSUME NEW t \in Task, ReleaseMember(t) \/ Verify(t) PROVE LockInv'
  BY <1>4, Ended, LocksKeptQuietly DEF ReleaseMember, Verify, tables
<1>5. ASSUME NEW t \in Task, Step(t) PROVE LockInv'
  BY <1>1, <1>2, <1>3, <1>4, <1>5, LockTaken, LockHeld DEF Step
<1>6. ASSUME NEW t \in Task, NEW u \in User,
         \/ CreateInvite(t, u) \/ Leave(t, u) \/ DeleteAccount(t, u)
         \/ \E ip \in Ip : \/ ImapLogin(t, u, ip)
                           \/ \E c \in DOMAIN codes \cup {NoCode} : AcceptInvite(t, u, ip, c)
         \/ \E c \in DOMAIN codes : RevokeInvite(t, u, c)
         \/ \E m \in User : RemoveMember(t, u, m)
      PROVE  LockInv'
  <2>1. UNCHANGED codes /\ task'[t].pc \notin Redeeming /\ \A s \in Task \ {t} : task'[s] = task[s]
    BY <1>6, Beginnings DEF tables
  <2> QED  BY <2>1, LocksKeptQuietly
<1>7. ASSUME UNCHANGED task, \A c \in DOMAIN codes : Open(c) => Open(c)' PROVE LockInv'
  <2>1. \A t \in Task : task[t].pc \in Redeeming => task[t].code \in DOMAIN codes
    BY RequestFacts DEF Fits, Request
  <2> QED  BY <1>7, <2>1 DEF LockInv
<1>8. ASSUME NEW u \in User, SignInAgain(u) \/ AgeFailure(u) \/ \E ip \in Ip : AcceptAgain(u, ip)
      PROVE  LockInv'
  BY <1>7, <1>8 DEF SignInAgain, AgeFailure, AcceptAgain, tables, Open
<1>9. ASSUME NEW c \in DOMAIN codes, ExpireCode(c) PROVE LockInv'
  <2>1. \A d \in DOMAIN codes : Open(d) => Open(d)'
    BY <1>9, CodeFacts DEF ExpireCode, Open, Code
  <2> QED  BY <1>7, <1>9, <2>1 DEF ExpireCode
<1>10. ASSUME NEW ip \in Ip, AgeAttempt(ip) PROVE LockInv'
  BY <1>7, <1>10 DEF AgeAttempt, tables, Open
<1>11. CASE UNCHANGED vars
  BY <1>7, <1>11 DEF vars, tables, Open
<1> QED  BY <1>5, <1>6, <1>8, <1>9, <1>10, <1>11 DEF Next

LEMMA LocksHold == Spec => []LockInv
<1>1. Init => LockInv
  BY DEF Init, LockInv, Idle, Redeeming
<1>2. TypeInv /\ LockInv /\ [Next]_vars => LockInv'
  BY LockStep
<1> QED  BY <1>1, <1>2, TypesHold, PTL DEF Spec

-----------------------------------------------------------------------------
\* Codes.

\* Nothing but a redemption takes a code, or counts one.
LEMMA TakenByJoin ==
  ASSUME TypeInv, [Next]_vars, ~ \E t \in Task : Join(t)
  PROVE  /\ Len(codes') \in Nat /\ Len(codes') >= Len(codes)
         /\ \A c \in DOMAIN codes : codes'[c].taken = codes[c].taken /\ redeemed'[c] = redeemed[c]
         /\ \A c \in 1 .. Len(codes') : c \notin DOMAIN codes => redeemed'[c] = 0
<1> DEFINE Kept ==
         /\ Len(codes') \in Nat /\ Len(codes') >= Len(codes)
         /\ \A c \in DOMAIN codes : codes'[c].taken = codes[c].taken /\ redeemed'[c] = redeemed[c]
         /\ \A c \in 1 .. Len(codes') : c \notin DOMAIN codes => redeemed'[c] = 0
<1>1. ASSUME codes' \in [DOMAIN codes -> Code], UNCHANGED redeemed,
             \A c \in DOMAIN codes : codes'[c].hh = codes[c].hh /\ codes'[c].taken = codes[c].taken
      PROVE  Kept
  BY <1>1, CodesUpdated, CodeFacts
<1>2. ASSUME UNCHANGED codes /\ UNCHANGED redeemed PROVE Kept
  BY <1>2, CodeFacts
<1>3. ASSUME NEW t \in Task, Mint(t) PROVE Kept
  BY <1>3, MintKeeps
<1>4. ASSUME NEW t \in Task, Ensure(t) \/ ReleaseMember(t) PROVE UNCHANGED codes /\ UNCHANGED redeemed
  BY <1>4 DEF Ensure, ReleaseMember
<1>5. ASSUME NEW t \in Task, Revoke(t) PROVE Kept
  BY <1>1, <1>5, CodeFacts DEF Revoke, Code
<1>6. ASSUME NEW t \in Task, Dissolve(t) PROVE Kept
  BY <1>1, <1>6, CodesRevoked DEF Dissolve
<1>7. ASSUME NEW u \in User, SignInAgain(u) PROVE UNCHANGED codes /\ UNCHANGED redeemed
  BY <1>7 DEF SignInAgain
<1>8. ASSUME NEW c \in DOMAIN codes, ExpireCode(c) PROVE Kept
  BY <1>1, <1>8, CodeFacts DEF ExpireCode, Code
<1>9. ASSUME UNCHANGED <<tables, consent, redeemed>> PROVE Kept
  BY <1>2, <1>9 DEF tables
<1> HIDE DEF Kept
<1>10. Kept
  BY <1>2, <1>3, <1>4, <1>5, <1>6, <1>7, <1>8, <1>9, TableSteps
<1> QED  BY <1>10 DEF Kept

\* A request redeems a code that is open, and once.
LEMMA JoinTakes ==
  ASSUME TypeInv, LockInv, NEW t \in Task, Join(t)
  PROVE  /\ task[t].code \in DOMAIN codes /\ Open(task[t].code)
         /\ codes' = [codes EXCEPT ![task[t].code].taken = TRUE]
         /\ redeemed' = [redeemed EXCEPT ![task[t].code] = @ + 1]
<1>1. task[t].pc = "join"
  BY DEF Join, At
<1>2. task[t].code \in DOMAIN codes /\ Open(task[t].code)
  BY <1>1, RequestFacts DEF Fits, Request, LockInv, Redeeming
<1> QED  BY <1>2 DEF Join

LEMMA CodeStep == ASSUME TypeInv, LockInv, CodeInv, [Next]_vars PROVE CodeInv'
<1> USE DEF CodeInv
<1>1. CASE ~ \E t \in Task : Join(t)
  <2>1. /\ Len(codes') \in Nat
        /\ \A c \in DOMAIN codes : codes'[c].taken = codes[c].taken /\ redeemed'[c] = redeemed[c]
        /\ \A c \in 1 .. Len(codes') : c \notin DOMAIN codes => redeemed'[c] = 0
    BY <1>1, TakenByJoin
  <2>2. DOMAIN codes = 1 .. Len(codes)  BY CodeFacts
  <2>3. \A c \in 1 .. Len(codes') : redeemed'[c] <= 1 /\ (~codes'[c].taken => redeemed'[c] = 0)
    BY <2>1, <2>2
  <2> QED  BY <2>3
<1>2. ASSUME NEW t \in Task, Join(t) PROVE CodeInv'
  <2> DEFINE c == task[t].code
  <2>1. c \in 1 .. Len(codes) /\ redeemed[c] = 0
    BY <1>2, JoinTakes, CodeFacts DEF Open
  <2>2. codes' = [codes EXCEPT ![c].taken = TRUE] /\ redeemed' = [redeemed EXCEPT ![c] = @ + 1]
    BY <1>2, JoinTakes
  <2>3. Len(codes') = Len(codes) /\ codes'[c].taken /\ redeemed'[c] = 1
    BY <2>1, <2>2, CodeFacts DEF Code
  <2>4. \A d \in 1 .. Len(codes) \ {c} : codes'[d] = codes[d] /\ redeemed'[d] = redeemed[d]
    BY <2>2, CodeFacts
  <2> HIDE DEF c
  <2> QED  BY <2>3, <2>4
<1> QED  BY <1>1, <1>2

\* A code admits one person, whoever redeems it together.
THEOREM OneRedemption == Spec => []CodeAdmitsOne
<1>1. Init => CodeInv
  <2>1. Init => TypeInv
    BY InitTypes
  <2> QED  BY <2>1, CodeFacts DEF Init, CodeInv
<1>2. TypeInv /\ LockInv /\ CodeInv /\ [Next]_vars => CodeInv'
  BY CodeStep
<1>3. TypeInv /\ CodeInv => CodeAdmitsOne
  BY CodeFacts DEF CodeInv, CodeAdmitsOne
<1> QED  BY <1>1, <1>2, <1>3, TypesHold, LocksHold, PTL DEF Spec

\* A code that was revoked unused is never taken afterwards: the request that
\* takes one holds its row from the step that found it open.
THEOREM RevokedStaysDead == Spec => RevokedIsDead
<1>1. TypeInv /\ LockInv /\ [Next]_vars =>
        [\A c \in DOMAIN codes : codes[c].revoked /\ ~codes[c].taken => ~codes'[c].taken]_vars
  <2> SUFFICES ASSUME TypeInv, LockInv, [Next]_vars, NEW c \in DOMAIN codes,
                      codes[c].revoked, ~codes[c].taken
               PROVE  ~codes'[c].taken
    OBVIOUS
  <2>1. CASE ~ \E t \in Task : Join(t)
    BY <2>1, TakenByJoin
  <2>2. ASSUME NEW t \in Task, Join(t) PROVE ~codes'[c].taken
    BY <2>2, JoinTakes, CodeFacts DEF Open
  <2> QED  BY <2>1, <2>2
<1> QED  BY <1>1, TypesHold, LocksHold, PTL DEF Spec, RevokedIsDead

-----------------------------------------------------------------------------
\* The cap on members.

LEMMA MembersFinite ==
  ASSUME NEW h
  PROVE  IsFiniteSet(Members(h)) /\ Cardinality(Members(h)) \in Nat
<1>1. Members(h) \subseteq User
  BY DEF Members
<1> QED  BY <1>1, HouseholdsAssumption, FS_Subset, FS_CardinalityType

LEMMA LimitType == \A tier : MemberLimit(tier) \in Nat /\ MemberLimit(tier) >= 1
  BY DEF MemberLimit

\* Nobody enters a household, and no request newly finds room in one.
LEMMA RoomKept ==
  ASSUME TypeInv, RoomInv, Len(houses') = Len(houses),
         \A h \in 1 .. Len(houses) : houses'[h].owner = houses[h].owner,
         \A h \in Ids : Members(h)' \subseteq Members(h),
         \A t \in Task : task'[t].pc = "join" => task[t].pc = "join" /\ task'[t].hh = task[t].hh
  PROVE  RoomInv'
<1>1. ASSUME NEW h \in Ids
      PROVE  /\ Cardinality(Members(h)') <= Cardinality(Members(h))
             /\ Cardinality(Members(h)') \in Nat /\ Cardinality(Members(h)) \in Nat
  <2>1. Members(h)' \subseteq Members(h) /\ IsFiniteSet(Members(h))
    BY <1>1, MembersFinite
  <2> QED  BY <2>1, FS_Subset, FS_CardinalityType
<1>2. ASSUME NEW h \in 1 .. Len(houses')
      PROVE  Cardinality(Members(h)') <= MemberLimit(Tier[houses'[h].owner])
  <2>1. h \in Ids /\ h \in 1 .. Len(houses)
    BY <1>2, CodeFacts DEF Ids
  <2> QED  BY <1>1, <2>1, LimitType DEF RoomInv
<1>3. ASSUME NEW t \in Task, task'[t].pc = "join"
      PROVE  Cardinality(Members(task[t].hh)') < MemberLimit(Tier[houses'[task'[t].hh].owner])
  <2>1. PICK h \in Ids : h = task[t].hh /\ h \in 1 .. Len(houses) /\ task[t].pc = "join"
    BY <1>3, RequestFacts DEF Fits, Request, Redeeming, Ids
  <2>2. Cardinality(Members(h)) < MemberLimit(Tier[houses[h].owner])
    BY <2>1 DEF RoomInv
  <2>3. houses'[h].owner = houses[h].owner /\ task'[t].hh = h
    BY <1>3, <2>1
  <2>4. Cardinality(Members(h)') < MemberLimit(Tier[houses'[h].owner])
    BY <1>1, <2>2, <2>3, LimitType
  <2> QED  BY <2>3, <2>4 DEF Members
<1> QED  BY <1>2, <1>3 DEF RoomInv


LEMMA NotJoining ==
  ASSUME TypeInv, NEW t \in Task, Step(t), ~Admit(t)
  PROVE  task'[t].pc # "join" /\ \A s \in Task \ {t} : task'[s] = task[s]
<1>1. CASE End(t)
  BY <1>1, Ended DEF Redeeming
<1>2. CASE Ensure(t) \/ Collect(t) \/ Gather(t)
  BY <1>2, OutsideLocks DEF Redeeming
<1>3. CASE Redeem(t) \/ FindHouse(t)
  <2>1. task[t] \in Request /\ task \in [Task -> Request]
    BY RequestFacts DEF TypeInv, TasksFit
  <2>2. CASE Redeem(t) /\ ~End(t)
    BY <2>1, <2>2 DEF Redeem, Miss, Goes, Request
  <2>3. CASE FindHouse(t) /\ ~End(t)
    BY <2>1, <2>3 DEF FindHouse, Miss, To, Request
  <2> QED  BY <1>1, <1>3, <2>2, <2>3
<1>4. CASE Mint(t) \/ Join(t) \/ Revoke(t) \/ ReleaseMember(t) \/ Dissolve(t) \/ Verify(t)
  BY <1>1, <1>4 DEF Mint, Join, Revoke, ReleaseMember, Dissolve, Verify
<1> QED  BY <1>2, <1>3, <1>4 DEF Step

\* The room is counted when the household is locked.
LEMMA RoomFound == ASSUME TypeInv, RoomInv, NEW t \in Task, Admit(t) PROVE RoomInv'
<1>1. UNCHANGED <<alive, home, houses>> /\ Len(houses) \in Nat
  BY CodeFacts DEF Admit, tables
<1>2. /\ task[t] \in Request /\ task \in [Task -> Request]
      /\ task[t].hh \in Ids /\ task[t].hh \in 1 .. Len(houses)
  BY RequestFacts DEF TypeInv, TasksFit, Admit, At, Fits, Request, Redeeming, Ids
<1>3. CASE End(t)
  <2>1. task'[t].pc # "join" /\ \A s \in Task \ {t} : task'[s] = task[s]
    BY <1>3, Ended DEF Redeeming
  <2> QED  BY <1>1, <2>1 DEF RoomInv, Members
<1>4. CASE /\ To(t, "join")
           /\ ~ Cardinality(Members(task[t].hh)) >=
                   MemberLimit(IF alive[houses[task[t].hh].owner]
                               THEN Tier[houses[task[t].hh].owner] ELSE "free")
  <2>1. /\ task'[t].hh = task[t].hh
        /\ \A s \in Task \ {t} : task'[s] = task[s]
    BY <1>2, <1>4 DEF To, Request
  <2>2. Cardinality(Members(task[t].hh)) < MemberLimit(Tier[houses[task[t].hh].owner])
    <3>1. Cardinality(Members(task[t].hh)) \in Nat
      BY MembersFinite
    <3>2. MemberLimit("free") <= MemberLimit(Tier[houses[task[t].hh].owner])
      BY DEF MemberLimit
    <3> QED  BY <1>4, <3>1, <3>2, LimitType
  <2>3. \A h \in Ids : Members(h)' = Members(h)
    BY <1>1 DEF Members
  <2>4. ASSUME NEW s \in Task, task'[s].pc = "join"
        PROVE  Cardinality(Members(task[s].hh)') < MemberLimit(Tier[houses'[task'[s].hh].owner])
    <3>1. task'[s].hh = task[s].hh
      BY <2>1
    <3>2. Cardinality(Members(task[s].hh)) < MemberLimit(Tier[houses[task[s].hh].owner])
      BY <2>1, <2>2, <2>4 DEF RoomInv
    <3>3. Members(task[s].hh)' = Members(task[s].hh)
      BY <1>1, <3>1 DEF Members
    <3> QED  BY <1>1, <3>1, <3>2, <3>3
  <2>5. ASSUME NEW h \in 1 .. Len(houses')
        PROVE  Cardinality(Members(h)') <= MemberLimit(Tier[houses'[h].owner])
    BY <1>1, <2>3, <2>5 DEF RoomInv, Ids
  <2> QED  BY <2>4, <2>5 DEF RoomInv
<1> QED  BY <1>3, <1>4 DEF Admit

\* A new household has at most its founder.
LEMMA RoomFounded ==
  ASSUME TypeInv, RoomInv, NEW t \in Task, Ensure(t), task[t].was = None
  PROVE  RoomInv'
<1> DEFINE u == task[t].user
<1>0. PICK new \in Ids : new = Len(houses) + 1
  BY CodeFacts DEF Ids
<1>1. u \in User /\ Len(houses) \in Nat /\ houses \in Seq(House)
  BY RequestFacts DEF Ensure, At, Fits, TypeInv, TypeOK, House
<1>2. /\ houses' = Append(houses, [owner |-> u, live |-> TRUE])
      /\ home' = [home EXCEPT ![u] = Len(houses')]
      /\ UNCHANGED alive
  BY DEF Ensure
<1>3. /\ Len(houses') = new
      /\ \A h \in 1 .. Len(houses) : houses'[h] = houses[h]
  BY <1>0, <1>1, <1>2 DEF House
<1>4. \A s \in Task : task'[s].pc = "join" => s # t /\ task'[s] = task[s]
  BY OutsideLocks DEF Redeeming
<1>5. ASSUME NEW h \in 1 .. Len(houses)
      PROVE  /\ Cardinality(Members(h)') <= Cardinality(Members(h))
             /\ Cardinality(Members(h)') \in Nat /\ Cardinality(Members(h)) \in Nat
  <2>1. Members(h)' \subseteq Members(h)
    BY <1>0, <1>1, <1>2, <1>3 DEF Members, TypeInv, TypeOK
  <2> QED  BY <2>1, MembersFinite, FS_Subset, FS_CardinalityType
<1>6. Cardinality(Members(new)') <= 1 /\ Cardinality(Members(new)') \in Nat
  <2>1. \A v \in User : home[v] # new
    BY <1>0, <1>1 DEF TypeInv, TypeOK, Ids, None
  <2>2. Members(new)' \subseteq {u}
    BY <1>2, <1>3, <2>1 DEF Members, TypeInv, TypeOK
  <2>3. IsFiniteSet({u}) /\ Cardinality({u}) = 1
    BY FS_Singleton
  <2> QED  BY <2>2, <2>3, FS_Subset, FS_CardinalityType
<1>7. ASSUME NEW h \in 1 .. Len(houses')
      PROVE  Cardinality(Members(h)') <= MemberLimit(Tier[houses'[h].owner])
  <2>1. CASE h = new
    BY <1>6, <2>1, LimitType
  <2>2. CASE h \in 1 .. Len(houses)
    <3>1. Cardinality(Members(h)) <= MemberLimit(Tier[houses[h].owner])
      BY <2>2 DEF RoomInv
    <3>2. houses'[h] = houses[h]
      BY <1>3, <2>2
    <3> QED  BY <1>5, <2>2, <3>1, <3>2, LimitType
  <2> QED  BY <1>0, <1>1, <1>3, <1>7, <2>1, <2>2
<1>8. ASSUME NEW s \in Task, task'[s].pc = "join"
      PROVE  Cardinality(Members(task[s].hh)') < MemberLimit(Tier[houses'[task'[s].hh].owner])
  <2>1. PICK h \in 1 .. Len(houses) : h = task[s].hh /\ task'[s].hh = h /\ task[s].pc = "join"
    BY <1>4, <1>8, RequestFacts DEF Fits, Request, Redeeming
  <2>2. Cardinality(Members(h)) < MemberLimit(Tier[houses[h].owner])
    BY <2>1 DEF RoomInv
  <2>3. Cardinality(Members(h)') < MemberLimit(Tier[houses'[h].owner])
    BY <1>3, <1>5, <2>2, LimitType
  <2> QED  BY <2>1, <2>3 DEF Members
<1> QED  BY <1>7, <1>8 DEF RoomInv

\* Only the request that found room enters, and it gives its room up.
LEMMA RoomUsed == ASSUME TypeInv, LockInv, RoomInv, NEW t \in Task, Join(t) PROVE RoomInv'
<1> DEFINE u == task[t].user
<1>1. PICK h \in 1 .. Len(houses) : h = task[t].hh /\ task[t].pc = "join"
  BY RequestFacts DEF Join, At, Fits, Request, Redeeming
<1>2. UNCHANGED <<alive, houses>> /\ home' = [home EXCEPT ![u] = h] /\ End(t) /\ Len(houses) \in Nat
  BY <1>1, CodeFacts DEF Join
<1>3. \A s \in Task : task'[s].pc = "join" => s # t /\ task'[s] = task[s]
  BY <1>2, Ended DEF Redeeming
<1>4. Cardinality(Members(h)') <= MemberLimit(Tier[houses[h].owner])
  <2>1. Members(h)' \subseteq Members(h) \cup {u}
    BY <1>2 DEF Members, TypeInv, TypeOK
  <2>2. IsFiniteSet(Members(h)) /\ Cardinality(Members(h)) \in Nat
    BY MembersFinite
  <2>3. /\ IsFiniteSet(Members(h) \cup {u})
        /\ Cardinality(Members(h) \cup {u}) <= Cardinality(Members(h)) + 1
    <3>1. Cardinality(Members(h) \cup {u}) =
            IF u \in Members(h) THEN Cardinality(Members(h)) ELSE Cardinality(Members(h)) + 1
      BY <2>2, FS_AddElement
    <3>2. IsFiniteSet(Members(h) \cup {u})
      BY <2>2, FS_AddElement
    <3> QED  BY <2>2, <3>1, <3>2
  <2>4. /\ Cardinality(Members(h)') <= Cardinality(Members(h) \cup {u})
        /\ Cardinality(Members(h)') \in Nat /\ Cardinality(Members(h) \cup {u}) \in Nat
    BY <2>1, <2>3, FS_Subset, FS_CardinalityType
  <2>5. Cardinality(Members(h)) < MemberLimit(Tier[houses[h].owner])
    BY <1>1 DEF RoomInv
  <2> QED  BY <2>2, <2>3, <2>4, <2>5, LimitType
<1>5. ASSUME NEW g \in 1 .. Len(houses), g # h
      PROVE  /\ Cardinality(Members(g)') <= Cardinality(Members(g))
             /\ Cardinality(Members(g)') \in Nat /\ Cardinality(Members(g)) \in Nat
  <2>1. Members(g)' \subseteq Members(g)
    BY <1>2, <1>5 DEF Members, TypeInv, TypeOK
  <2> QED  BY <2>1, MembersFinite, FS_Subset, FS_CardinalityType
<1>6. ASSUME NEW g \in 1 .. Len(houses')
      PROVE  Cardinality(Members(g)') <= MemberLimit(Tier[houses'[g].owner])
  BY <1>2, <1>4, <1>5, LimitType DEF RoomInv
<1>7. ASSUME NEW s \in Task, task'[s].pc = "join"
      PROVE  Cardinality(Members(task[s].hh)') < MemberLimit(Tier[houses'[task'[s].hh].owner])
  <2>1. PICK g \in 1 .. Len(houses) : g = task[s].hh /\ task'[s].hh = g /\ task[s].pc = "join"
    BY <1>3, <1>7, RequestFacts DEF Fits, Request, Redeeming
  <2>2. g # h
    BY <1>1, <1>3, <1>7, <2>1 DEF LockInv
  <2>3. Cardinality(Members(g)) < MemberLimit(Tier[houses[g].owner])
    BY <2>1 DEF RoomInv
  <2>4. Cardinality(Members(g)') < MemberLimit(Tier[houses'[g].owner])
    BY <1>2, <1>5, <2>2, <2>3, LimitType
  <2> QED  BY <2>1, <2>4 DEF Members
<1> QED  BY <1>6, <1>7 DEF RoomInv

LEMMA RoomStep == ASSUME TypeInv, LockInv, RoomInv, [Next]_vars PROVE RoomInv'
<1> DEFINE NoneJoins == \A t \in Task :
             task'[t].pc = "join" => task[t].pc = "join" /\ task'[t].hh = task[t].hh
<1>1. ASSUME UNCHANGED <<alive, home, houses>>, NoneJoins PROVE RoomInv'
  BY <1>1, RoomKept DEF Members
<1>2. ASSUME NEW t \in Task, task'[t].pc # "join", \A s \in Task \ {t} : task'[s] = task[s]
      PROVE  NoneJoins
  BY <1>2
<1>3. ASSUME UNCHANGED task PROVE NoneJoins
  BY <1>3
<1> HIDE DEF NoneJoins
<1>4. ASSUME NEW t \in Task, Collect(t) \/ Mint(t) \/ Redeem(t) \/ FindHouse(t) \/ Revoke(t)
                              \/ Gather(t) \/ Verify(t)
      PROVE  RoomInv'
  <2>1. UNCHANGED <<alive, home, houses>>
    BY <1>4 DEF Collect, Mint, Redeem, FindHouse, Revoke, Gather, Verify, tables
  <2>2. Step(t) /\ ~Admit(t)
    BY <1>4 DEF Step, Admit, Collect, Mint, Redeem, FindHouse, Revoke, Gather, Verify, At
  <2> QED  BY <1>1, <1>2, <2>1, <2>2, NotJoining
<1>5. ASSUME NEW t \in Task, ReleaseMember(t) \/ Dissolve(t) PROVE RoomInv'
  <2>1. Step(t) /\ ~Admit(t)
    BY <1>5 DEF Step, Admit, ReleaseMember, Dissolve, At
  <2>2. NoneJoins
    BY <1>2, <2>1, NotJoining
  <2>3. \A h \in Ids : Members(h)' \subseteq Members(h)
    BY <1>5 DEF ReleaseMember, Dissolve, Members, Ids, None, TypeInv, TypeOK
  <2>4. Len(houses') = Len(houses) /\ \A h \in 1 .. Len(houses) : houses'[h].owner = houses[h].owner
    <3>1. CASE ReleaseMember(t)
      BY <3>1 DEF ReleaseMember
    <3>2. CASE Dissolve(t)
      <4>1. houses \in Seq(House)
        BY DEF TypeInv, TypeOK, House
      <4>2. houses' = [h \in DOMAIN houses |->
                         IF h = task[t].hh THEN [houses[h] EXCEPT !.live = FALSE] ELSE houses[h]]
        BY <3>2 DEF Dissolve
      <4>3. \A h \in DOMAIN houses : houses'[h] \in House /\ houses'[h].owner = houses[h].owner
        <5>1. \A h \in DOMAIN houses : houses[h] \in House
          BY <4>1
        <5> QED  BY <4>2, <5>1 DEF House
      <4>4. houses' \in [DOMAIN houses -> House]
        BY <4>2, <4>3
      <4>5. Len(houses') = Len(houses)
        BY <4>1, <4>4, SameLength
      <4> QED  BY <4>3, <4>5, CodeFacts
    <3> QED  BY <1>5, <3>1, <3>2
  <2> QED  BY <2>2, <2>3, <2>4, RoomKept DEF NoneJoins
<1>6. ASSUME NEW t \in Task, Ensure(t) PROVE RoomInv'
  <2>1. CASE task[t].was = None
    BY <1>6, <2>1, RoomFounded
  <2>2. CASE task[t].was # None
    <3>1. UNCHANGED <<alive, home, houses>>
      BY <1>6, <2>2 DEF Ensure
    <3>2. NoneJoins
      BY <1>2, <1>6, OutsideLocks DEF Redeeming
    <3> QED  BY <1>1, <3>1, <3>2
  <2> QED  BY <2>1, <2>2
<1>7. ASSUME NEW t \in Task, Step(t) PROVE RoomInv'
  BY <1>4, <1>5, <1>6, <1>7, RoomFound, RoomUsed DEF Step
<1>8. ASSUME NEW t \in Task, NEW u \in User,
         \/ CreateInvite(t, u) \/ Leave(t, u) \/ DeleteAccount(t, u)
         \/ \E ip \in Ip : \/ ImapLogin(t, u, ip)
                           \/ \E c \in DOMAIN codes \cup {NoCode} : AcceptInvite(t, u, ip, c)
         \/ \E c \in DOMAIN codes : RevokeInvite(t, u, c)
         \/ \E m \in User : RemoveMember(t, u, m)
      PROVE  RoomInv'
  <2>1. /\ UNCHANGED tables /\ task'[t].pc # "join"
        /\ \A s \in Task \ {t} : task'[s] = task[s]
    BY <1>8, Beginnings DEF Redeeming
  <2> QED  BY <1>1, <1>2, <2>1 DEF tables
<1>9. ASSUME NEW u \in User, SignInAgain(u) PROVE RoomInv'
  <2>1. UNCHANGED <<houses, task>> /\ \A h \in Ids : Members(h)' \subseteq Members(h)
    BY <1>9 DEF SignInAgain, HomeCleared, Members, Ids, None, TypeInv, TypeOK
  <2> QED  BY <1>3, <2>1, RoomKept DEF NoneJoins
<1>10. ASSUME NEW u \in User, AgeFailure(u) \/ \E ip \in Ip : AcceptAgain(u, ip) PROVE RoomInv'
  BY <1>1, <1>3, <1>10 DEF AgeFailure, AcceptAgain, tables
<1>11. ASSUME NEW c \in DOMAIN codes, ExpireCode(c) PROVE RoomInv'
  BY <1>1, <1>3, <1>11 DEF ExpireCode
<1>12. ASSUME NEW ip \in Ip, AgeAttempt(ip) PROVE RoomInv'
  BY <1>1, <1>3, <1>12 DEF AgeAttempt, tables
<1>13. CASE UNCHANGED vars
  BY <1>1, <1>3, <1>13 DEF vars, tables
<1> QED  BY <1>7, <1>8, <1>9, <1>10, <1>11, <1>12, <1>13 DEF Next

\* However many codes are redeemed at once, a household never outgrows its
\* owner's plan.
THEOREM CapHolds == Spec => []MembersCapped
<1>1. Init => RoomInv
  <2> SUFFICES ASSUME Init PROVE RoomInv
    OBVIOUS
  <2>1. \A t \in Task : task[t].pc # "join"
    BY DEF Init, Idle
  <2>2. /\ DOMAIN houses = DOMAIN Founders /\ \A h \in DOMAIN Founders : houses[h].owner = Founders[h]
        /\ Founders \in Seq(User) /\ DOMAIN Founders = 1 .. Len(Founders)
    BY HouseholdsAssumption DEF Init
  <2>3. Len(houses) = Len(Founders)
    BY <2>2, InitTypes, CodeFacts
  <2>4. ASSUME NEW h \in DOMAIN Founders PROVE Cardinality(Members(h)) <= 1
    <3>1. Members(h) \subseteq {Founders[h]}
      BY <2>2 DEF Init, Members, None
    <3>2. IsFiniteSet({Founders[h]}) /\ Cardinality({Founders[h]}) = 1
      BY FS_Singleton
    <3> QED  BY <3>1, <3>2, FS_Subset, FS_CardinalityType
  <2>5. ASSUME NEW h \in 1 .. Len(houses)
        PROVE  Cardinality(Members(h)) <= MemberLimit(Tier[houses[h].owner])
    BY <2>2, <2>3, <2>4, MembersFinite, LimitType
  <2> QED  BY <2>1, <2>5 DEF RoomInv
<1>2. TypeInv /\ LockInv /\ RoomInv /\ [Next]_vars => RoomInv'
  BY RoomStep
<1>3. TypeInv /\ RoomInv => MembersCapped
  BY CodeFacts DEF RoomInv, MembersCapped
<1> QED  BY <1>1, <1>2, <1>3, TypesHold, LocksHold, PTL DEF Spec

-----------------------------------------------------------------------------
\* The throttle.

\* A map of the throttle: its keys in order of insertion, each once.
Entry(K) == [key : K, n : Nat]

MapOf(b, K) ==
  /\ b \in Seq(Entry(K)) /\ Len(b) <= MaxEntries
  /\ \A i, j \in DOMAIN b : b[i].key = b[j].key => i = j

\* Every entry of b is one of a.
Part(b, a) == \A i \in DOMAIN b : \E j \in DOMAIN a : b[i] = a[j]

\* Requests on u's behalf that may still end in a failure.
Trying(u) == {t \in Task : task[t].user = u /\ task[t].pc \in {"redeem", "house", "verify"}}

Limit == MaxFailures - 1 + Cardinality(Task)

AttemptsInv ==
  /\ MapOf(ipAttempts, Ip)
  /\ \A i \in DOMAIN ipAttempts : ipAttempts[i].n <= MaxAttempts

\* The failures of a mailbox leave room for those still on their way.
FailuresInv ==
  /\ MapOf(emailFailures, User)
  /\ \A i \in DOMAIN emailFailures :
       emailFailures[i].n + Cardinality(Trying(emailFailures[i].key)) <= Limit

\* The entries of a map.
LEMMA MapFacts ==
  ASSUME NEW K, NEW b, MapOf(b, K)
  PROVE  /\ Len(b) \in Nat /\ DOMAIN b = 1 .. Len(b)
         /\ \A i \in 1 .. Len(b) : b[i] \in Entry(K) /\ b[i].key \in K /\ b[i].n \in Nat
<1>1. b \in Seq(Entry(K))
  BY DEF MapOf
<1>2. Len(b) \in Nat /\ DOMAIN b = 1 .. Len(b) /\ \A i \in 1 .. Len(b) : b[i] \in Entry(K)
  BY <1>1
<1> QED  BY <1>2 DEF Entry

\* The stamps of a key are those of its entry.
LEMMA StampsOfEntry ==
  ASSUME NEW K, NEW b, MapOf(b, K), NEW k
  PROVE  /\ Stamps(b, k) \in Nat
         /\ \A i \in DOMAIN b : b[i].key = k => Stamps(b, k) = b[i].n
         /\ (\A i \in DOMAIN b : b[i].key # k) => Stamps(b, k) = 0
<1> DEFINE at == {i \in DOMAIN b : b[i].key = k}
<1>1. CASE at = {}
  <2>1. Stamps(b, k) = 0
    BY <1>1 DEF Stamps
  <2> QED  BY <1>1, <2>1
<1>2. CASE at # {}
  <2>1. PICK i \in at : i = CHOOSE j \in at : TRUE
    BY <1>2
  <2>2. Stamps(b, k) = b[i].n
    BY <1>2, <2>1 DEF Stamps
  <2>3. \A j \in DOMAIN b : b[j].key = k => j = i
    BY <2>1 DEF MapOf
  <2>4. Stamps(b, k) \in Nat
    BY <2>1, <2>2, MapFacts
  <2>5. \A j \in DOMAIN b : b[j].key = k => Stamps(b, k) = b[j].n
    BY <2>2, <2>3
  <2> QED  BY <2>1, <2>4, <2>5
<1> QED  BY <1>1, <1>2

\* The map without its oldest entry.
LEMMA TailOfMap ==
  ASSUME NEW K, NEW b, MapOf(b, K), b # <<>>
  PROVE  MapOf(Tail(b), K) /\ Part(Tail(b), b) /\ Len(Tail(b)) = Len(b) - 1
<1>1. b \in Seq(Entry(K)) /\ Len(b) \in Nat /\ DOMAIN b = 1 .. Len(b) /\ Len(b) <= MaxEntries
  BY MapFacts DEF MapOf
<1>2. /\ Tail(b) \in Seq(Entry(K)) /\ Len(Tail(b)) = Len(b) - 1
      /\ \A i \in 1 .. Len(Tail(b)) : Tail(b)[i] = b[i + 1]
  BY <1>1, HeadTailProperties
<1>3. DOMAIN Tail(b) = 1 .. Len(b) - 1
  BY <1>2
<1>4. \A i \in DOMAIN Tail(b) : i + 1 \in DOMAIN b /\ Tail(b)[i] = b[i + 1]
  BY <1>1, <1>2, <1>3
<1>5. \A i, j \in DOMAIN Tail(b) : Tail(b)[i].key = Tail(b)[j].key => i = j
  <2> SUFFICES ASSUME NEW i \in DOMAIN Tail(b), NEW j \in DOMAIN Tail(b),
                      Tail(b)[i].key = Tail(b)[j].key
               PROVE  i = j
    OBVIOUS
  <2>1. i + 1 = j + 1
    BY <1>4 DEF MapOf
  <2> QED  BY <1>3, <2>1
<1> QED  BY <1>1, <1>2, <1>4, <1>5, ThrottleAssumption DEF MapOf, Part

\* The map without one of its entries.
LEMMA RemovedFromMap ==
  ASSUME NEW K, NEW b, MapOf(b, K), NEW e \in DOMAIN b
  PROVE  MapOf(RemoveAt(b, e), K) /\ Part(RemoveAt(b, e), b)
<1> DEFINE before == SubSeq(b, 1, e - 1)
           after == SubSeq(b, e + 1, Len(b))
           r == RemoveAt(b, e)
           from(i) == IF i < e THEN i ELSE i + 1
<1>1. /\ b \in Seq(Entry(K)) /\ Len(b) \in Nat /\ DOMAIN b = 1 .. Len(b)
      /\ Len(b) <= MaxEntries /\ e \in 1 .. Len(b)
  BY MapFacts DEF MapOf
<1>2. /\ before \in Seq(Entry(K)) /\ Len(before) = e - 1
      /\ \A i \in 1 .. e - 1 : before[i] = b[i]
  <2>1. /\ before \in Seq(Entry(K))
        /\ Len(before) = IF 1 <= e - 1 THEN e - 1 - 1 + 1 ELSE 0
        /\ \A i \in 1 .. e - 1 - 1 + 1 : before[i] = b[1 + i - 1]
    BY <1>1, SubSeqProperties
  <2> QED  BY <1>1, <2>1
<1>3. /\ after \in Seq(Entry(K)) /\ Len(after) = Len(b) - e
      /\ \A i \in 1 .. Len(b) - e : after[i] = b[e + i]
  <2>1. /\ after \in Seq(Entry(K))
        /\ Len(after) = IF e + 1 <= Len(b) THEN Len(b) - (e + 1) + 1 ELSE 0
        /\ \A i \in 1 .. Len(b) - (e + 1) + 1 : after[i] = b[e + 1 + i - 1]
    BY <1>1, SubSeqProperties
  <2> QED  BY <1>1, <2>1
<1>4. /\ r \in Seq(Entry(K)) /\ Len(r) = Len(b) - 1
      /\ \A i \in 1 .. Len(b) - 1 : r[i] = IF i <= e - 1 THEN before[i] ELSE after[i - (e - 1)]
  <2>1. r = before \o after
    BY DEF RemoveAt
  <2> HIDE DEF before, after, r
  <2>2. /\ r \in Seq(Entry(K)) /\ Len(r) = Len(before) + Len(after)
        /\ \A i \in 1 .. Len(before) + Len(after) :
             r[i] = IF i <= Len(before) THEN before[i] ELSE after[i - Len(before)]
    BY <1>2, <1>3, <2>1, ConcatProperties
  <2>3. Len(before) + Len(after) = Len(b) - 1
    BY <1>1, <1>2, <1>3
  <2> QED  BY <1>2, <2>2, <2>3
<1>5. DOMAIN r = 1 .. Len(b) - 1
  BY <1>4
<1>6. \A i \in DOMAIN r : from(i) \in DOMAIN b /\ r[i] = b[from(i)]
  <2> HIDE DEF before, after, r
  <2> SUFFICES ASSUME NEW i \in DOMAIN r PROVE from(i) \in DOMAIN b /\ r[i] = b[from(i)]
    OBVIOUS
  <2>1. i \in 1 .. Len(b) - 1 /\ i \in Int
    BY <1>5
  <2>2. CASE i < e
    <3>1. i \in 1 .. e - 1 /\ from(i) = i /\ i \in DOMAIN b
      BY <1>1, <2>1, <2>2
    <3> QED  BY <1>1, <1>2, <1>4, <2>1, <3>1
  <2>3. CASE ~ (i < e)
    <3>1. /\ i - (e - 1) \in 1 .. Len(b) - e /\ from(i) = i + 1 /\ i + 1 \in DOMAIN b
          /\ e + (i - (e - 1)) = i + 1 /\ ~ (i <= e - 1)
      BY <1>1, <2>1, <2>3
    <3>2. r[i] = after[i - (e - 1)]
      BY <1>4, <2>1, <3>1
    <3> QED  BY <1>3, <3>1, <3>2
  <2> QED  BY <2>2, <2>3
<1>7. \A i, j \in DOMAIN r : r[i].key = r[j].key => i = j
  <2> SUFFICES ASSUME NEW i \in DOMAIN r, NEW j \in DOMAIN r, r[i].key = r[j].key
               PROVE  i = j
    OBVIOUS
  <2>1. from(i) = from(j)
    BY <1>6 DEF MapOf
  <2> QED  BY <1>1, <1>5, <2>1
<1>8. Len(r) <= MaxEntries
  BY <1>1, <1>4, ThrottleAssumption
<1> HIDE DEF r, from
<1>9. Part(r, b)
  BY <1>6 DEF Part
<1> QED  BY <1>4, <1>7, <1>8, <1>9 DEF MapOf, r

\* Room for one more key.
LEMMA EvictedMap ==
  ASSUME NEW K, NEW b, MapOf(b, K)
  PROVE  /\ MapOf(EvictIfFull(b), K) /\ Part(EvictIfFull(b), b)
         /\ Len(EvictIfFull(b)) < MaxEntries
<1>1. Len(b) \in Nat /\ MaxEntries \in Nat \ {0} /\ Len(b) <= MaxEntries
  BY MapFacts, ThrottleAssumption DEF MapOf
<1>2. CASE Len(b) >= MaxEntries
  <2>1. b # <<>>
    BY <1>1, <1>2
  <2>2. EvictIfFull(b) = Tail(b)
    BY <1>2 DEF EvictIfFull
  <2> QED  BY <1>1, <2>1, <2>2, TailOfMap
<1>3. CASE ~ (Len(b) >= MaxEntries)
  <2>1. EvictIfFull(b) = b
    BY <1>3 DEF EvictIfFull
  <2> QED  BY <1>1, <1>3, <2>1 DEF Part
<1> QED  BY <1>2, <1>3

\* A key that gets new stamps; the other entries stay.
LEMMA AssignedMap ==
  ASSUME NEW K, NEW b, MapOf(b, K), NEW k \in K, NEW n \in Nat,
         Len(b) < MaxEntries \/ \E i \in DOMAIN b : b[i].key = k
  PROVE  /\ MapOf(Assign(b, k, n), K)
         /\ \A i \in DOMAIN Assign(b, k, n) :
              \/ Assign(b, k, n)[i] = [key |-> k, n |-> n]
              \/ \E j \in DOMAIN b : b[j].key # k /\ Assign(b, k, n)[i] = b[j]
<1> DEFINE e == [key |-> k, n |-> n]
<1>1. /\ b \in Seq(Entry(K)) /\ Len(b) \in Nat /\ DOMAIN b = 1 .. Len(b)
      /\ Len(b) <= MaxEntries /\ MaxEntries \in Nat
      /\ \A i \in 1 .. Len(b) : b[i] \in Entry(K)
  BY MapFacts, ThrottleAssumption DEF MapOf
<1>2. e \in Entry(K) /\ e.key = k
  BY DEF Entry
<1> HIDE DEF e
<1>3. CASE \E i \in DOMAIN b : b[i].key = k
  <2> DEFINE f == [i \in DOMAIN b |-> IF b[i].key = k THEN e ELSE b[i]]
  <2>1. Assign(b, k, n) = f
    BY <1>3 DEF Assign, e
  <2>2. f \in [DOMAIN b -> Entry(K)]
    BY <1>1, <1>2
  <2>3. f \in Seq(Entry(K)) /\ Len(f) = Len(b) /\ DOMAIN f = DOMAIN b
    BY <1>1, <2>2, SameLength
  <2>4. \A i \in DOMAIN b : f[i].key = b[i].key
    BY <1>2
  <2>5. \A i \in DOMAIN f : f[i] = e \/ \E j \in DOMAIN b : b[j].key # k /\ f[i] = b[j]
    BY <2>3
  <2> HIDE DEF f
  <2>6. MapOf(f, K)
    BY <1>1, <2>3, <2>4 DEF MapOf
  <2> QED  BY <2>1, <2>3, <2>5, <2>6 DEF e
<1>4. CASE ~ \E i \in DOMAIN b : b[i].key = k
  <2> DEFINE f == Append(b, e)
  <2>1. Assign(b, k, n) = f /\ Len(b) < MaxEntries
    BY <1>4 DEF Assign, e
  <2>2. /\ f \in Seq(Entry(K)) /\ Len(f) = Len(b) + 1 /\ f[Len(b) + 1] = e
        /\ \A i \in 1 .. Len(b) : f[i] = b[i]
    BY <1>1, <1>2, AppendProperties
  <2> HIDE DEF f
  <2>3. DOMAIN f = 1 .. Len(b) + 1
    BY <1>1, <2>2
  <2>4. \A i \in DOMAIN f : \/ i = Len(b) + 1 /\ f[i] = e
                            \/ i \in DOMAIN b /\ f[i] = b[i] /\ b[i].key # k
    <3> SUFFICES ASSUME NEW i \in DOMAIN f
                 PROVE  \/ i = Len(b) + 1 /\ f[i] = e
                        \/ i \in DOMAIN b /\ f[i] = b[i] /\ b[i].key # k
      OBVIOUS
    <3>1. i = Len(b) + 1 \/ i \in 1 .. Len(b)
      BY <1>1, <2>3
    <3> QED  BY <1>1, <1>4, <2>2, <3>1
  <2>5. \A i, j \in DOMAIN f : f[i].key = f[j].key => i = j
    BY <1>2, <2>4 DEF MapOf
  <2>6. MapOf(f, K)
    BY <1>1, <2>1, <2>2, <2>5 DEF MapOf
  <2> QED  BY <2>1, <2>4, <2>6 DEF e
<1> QED  BY <1>3, <1>4

\* The requests on a mailbox are among all requests.
LEMMA TryingFinite ==
  ASSUME NEW u
  PROVE  /\ IsFiniteSet(Trying(u)) /\ Cardinality(Trying(u)) \in Nat
         /\ Cardinality(Task) \in Nat /\ Cardinality(Trying(u)) <= Cardinality(Task)
<1>1. Trying(u) \in SUBSET Task
  BY DEF Trying
<1> QED  BY <1>1, HouseholdsAssumption, FS_Subset, FS_CardinalityType

\* One fewer when a request leaves.
LEMMA TryingLess ==
  ASSUME NEW u, NEW t \in Trying(u), Trying(u)' \subseteq Trying(u) \ {t}
  PROVE  Cardinality(Trying(u)') <= Cardinality(Trying(u)) - 1 /\ Cardinality(Trying(u)') \in Nat
<1>1. /\ IsFiniteSet(Trying(u) \ {t})
      /\ Cardinality(Trying(u) \ {t}) = Cardinality(Trying(u)) - 1
  BY TryingFinite, FS_RemoveElement
<1> QED  BY <1>1, FS_Subset, FS_CardinalityType

\* No more when none begins.
LEMMA TryingKept ==
  ASSUME NEW u, Trying(u)' \subseteq Trying(u)
  PROVE  Cardinality(Trying(u)') <= Cardinality(Trying(u)) /\ Cardinality(Trying(u)') \in Nat
BY TryingFinite, FS_Subset, FS_CardinalityType

\* No request begins to try in a step of a request under way.
LEMMA NoneBegins ==
  ASSUME TypeInv, NEW t \in Task, Step(t)
  PROVE  \A u : Trying(u)' \subseteq Trying(u)
<1>1. task \in [Task -> Request]
  BY DEF TypeInv, TasksFit
<1>2. ASSUME NEW r, Goes(t, r),
             \/ r.pc \notin {"redeem", "house", "verify"}
             \/ task[t].pc \in {"redeem", "house", "verify"} /\ r.user = task[t].user
      PROVE  \A u : Trying(u)' \subseteq Trying(u)
  <2>1. task'[t] = r /\ \A s \in Task \ {t} : task'[s] = task[s]
    BY <1>1, <1>2 DEF Goes
  <2> QED  BY <1>2, <2>1 DEF Trying
<1>3. CASE End(t)
  <2>1. Goes(t, Idle)
    BY <1>3 DEF End, Goes
  <2> QED  BY <1>2, <2>1 DEF Idle
<1>4. ASSUME NEW pc \in Stage \ {"redeem", "house", "verify"}, To(t, pc)
      PROVE  \A u : Trying(u)' \subseteq Trying(u)
  <2>1. Goes(t, [task[t] EXCEPT !.pc = pc])
    BY <1>4 DEF To, Goes
  <2>2. [task[t] EXCEPT !.pc = pc].pc = pc
    BY <1>1 DEF Request
  <2> QED  BY <1>2, <1>4, <2>1, <2>2
<1>5. CASE Ensure(t) /\ ~ End(t)
  <2>1. PICK h : Goes(t, [task[t] EXCEPT !.pc = "collect", !.hh = h])
    BY <1>5 DEF Ensure
  <2>2. [task[t] EXCEPT !.pc = "collect", !.hh = h].pc = "collect"
    BY <1>1 DEF Request
  <2> QED  BY <1>2, <2>1, <2>2
<1>6. CASE Collect(t)
  <2> DEFINE r == [task[t] EXCEPT !.pc = "mint", !.open = OpenCodes(task[t].hh)]
  <2>1. Goes(t, r)
    BY <1>6 DEF Collect
  <2>2. r.pc = "mint"
    BY <1>1 DEF Request
  <2> HIDE DEF r
  <2> QED  BY <1>2, <2>1, <2>2
<1>7. CASE Gather(t)
  <2>1. PICK h, w, o : Goes(t, [task[t] EXCEPT !.pc = "dissolve", !.hh = h, !.whom = w, !.open = o])
    BY <1>7, Zenon DEF Gather
  <2>2. [task[t] EXCEPT !.pc = "dissolve", !.hh = h, !.whom = w, !.open = o].pc = "dissolve"
    BY <1>1 DEF Request
  <2> QED  BY <1>2, <2>1, <2>2
<1>8. CASE Redeem(t) /\ ~ End(t)
  <2> DEFINE r == [task[t] EXCEPT !.pc = "house", !.hh = codes[task[t].code].hh]
  <2>1. Goes(t, r) /\ task[t].pc = "redeem"
    BY <1>8 DEF Redeem, Miss, At
  <2>2. r.user = task[t].user
    BY <1>1 DEF Request
  <2> HIDE DEF r
  <2> QED  BY <1>2, <2>1, <2>2
<1>9. CASE FindHouse(t) \/ Admit(t)
  <2>1. End(t) \/ To(t, "admit") \/ To(t, "join")
    BY <1>9 DEF FindHouse, Admit, Miss
  <2> QED  BY <1>3, <1>4, <2>1 DEF Stage
<1>10. CASE Mint(t) \/ Join(t) \/ Revoke(t) \/ ReleaseMember(t) \/ Dissolve(t) \/ Verify(t)
  BY <1>3, <1>10 DEF Mint, Join, Revoke, ReleaseMember, Dissolve, Verify
<1> QED  BY <1>3, <1>5, <1>6, <1>7, <1>8, <1>9, <1>10 DEF Step

\* FailuresInv is kept when failures become no more and nobody begins.
LEMMA FewerFailures ==
  ASSUME FailuresInv, MapOf(emailFailures', User),
         \A i \in DOMAIN emailFailures' : \E j \in DOMAIN emailFailures :
           /\ emailFailures'[i].key = emailFailures[j].key
           /\ emailFailures'[i].n <= emailFailures[j].n,
         \A u : Trying(u)' \subseteq Trying(u)
  PROVE  FailuresInv'
<1> SUFFICES ASSUME NEW i \in DOMAIN emailFailures'
             PROVE  (emailFailures[i].n + Cardinality(Trying(emailFailures[i].key)) <= Limit)'
  BY DEF FailuresInv
<1>1. PICK j \in DOMAIN emailFailures :
        /\ emailFailures'[i].key = emailFailures[j].key
        /\ emailFailures'[i].n <= emailFailures[j].n
  OBVIOUS
<1> PICK u : u = emailFailures[j].key
  OBVIOUS
<1>2. emailFailures[j].n + Cardinality(Trying(u)) <= Limit
  BY DEF FailuresInv
<1>3. Cardinality(Trying(u)') <= Cardinality(Trying(u)) /\ Cardinality(Trying(u)') \in Nat
  BY TryingKept
<1>4. emailFailures[j].n \in Nat /\ emailFailures'[i].n \in Nat
  BY MapFacts DEF FailuresInv
<1>5. Cardinality(Trying(u)) \in Nat /\ Limit \in Int
  BY TryingFinite, ThrottleAssumption DEF Limit
<1>6. (Cardinality(Trying(emailFailures[i].key)))' = Cardinality(Trying(u)')
  BY <1>1 DEF Trying
<1>7. emailFailures'[i].n + Cardinality(Trying(u)') <= Limit
  BY <1>1, <1>2, <1>3, <1>4, <1>5
<1> QED  BY <1>6, <1>7 DEF Limit

\* The failure of a request that was trying takes the place of the request.
LEMMA OneFailure ==
  ASSUME FailuresInv, NEW t \in Task, NEW u \in User, t \in Trying(u), RecordFailure(u),
         \A v : Trying(v)' \subseteq Trying(v) \ {t}
  PROVE  FailuresInv'
<1> DEFINE kept == EvictIfFull(emailFailures)
<1> PICK n : n = Stamps(kept, u) + 1
  OBVIOUS
<1>1. MapOf(kept, User) /\ Part(kept, emailFailures) /\ Len(kept) < MaxEntries
  BY EvictedMap DEF FailuresInv
<1>2. emailFailures' = Assign(kept, u, n)
  BY DEF RecordFailure
<1> HIDE DEF kept
<1>3. Cardinality(Trying(u)') <= Cardinality(Trying(u)) - 1 /\ Cardinality(Trying(u)') \in Nat
  BY TryingLess
<1>4. /\ Cardinality(Trying(u)) \in Nat /\ Cardinality(Task) \in Nat
      /\ Cardinality(Trying(u)) <= Cardinality(Task)
      /\ Limit = MaxFailures - 1 + Cardinality(Task) /\ MaxFailures \in Nat \ {0}
  BY TryingFinite, ThrottleAssumption DEF Limit
<1>5. n \in Nat /\ n + Cardinality(Trying(u)') <= Limit
  <2>1. CASE \E i \in DOMAIN kept : kept[i].key = u
    <3>1. PICK i \in DOMAIN kept : kept[i].key = u
      BY <2>1
    <3>2. PICK j \in DOMAIN emailFailures : kept[i] = emailFailures[j]
      BY <1>1 DEF Part
    <3>3. n = emailFailures[j].n + 1 /\ emailFailures[j].n \in Nat
      BY <1>1, <3>1, <3>2, StampsOfEntry, MapFacts DEF FailuresInv
    <3>4. emailFailures[j].n + Cardinality(Trying(u)) <= Limit
      BY <3>1, <3>2 DEF FailuresInv
    <3> QED  BY <1>3, <1>4, <3>3, <3>4
  <2>2. CASE ~ \E i \in DOMAIN kept : kept[i].key = u
    <3>1. n = 1
      BY <1>1, <2>2, StampsOfEntry
    <3> QED  BY <1>3, <1>4, <3>1
  <2> QED  BY <2>1, <2>2
<1>6. /\ MapOf(emailFailures', User)
      /\ \A i \in DOMAIN emailFailures' :
           \/ emailFailures'[i] = [key |-> u, n |-> n]
           \/ \E j \in DOMAIN kept : kept[j].key # u /\ emailFailures'[i] = kept[j]
  BY <1>1, <1>2, <1>5, AssignedMap
<1>7. ASSUME NEW i \in DOMAIN emailFailures'
      PROVE  (emailFailures[i].n + Cardinality(Trying(emailFailures[i].key)) <= Limit)'
  <2>1. CASE emailFailures'[i] = [key |-> u, n |-> n]
    <3>1. (Cardinality(Trying(emailFailures[i].key)))' = Cardinality(Trying(u)')
      BY <2>1 DEF Trying
    <3> QED  BY <1>5, <2>1, <3>1 DEF Limit
  <2>2. CASE \E j \in DOMAIN kept : emailFailures'[i] = kept[j]
    <3>1. PICK j \in DOMAIN emailFailures : emailFailures'[i] = emailFailures[j]
      BY <1>1, <2>2 DEF Part
    <3> PICK v : v = emailFailures[j].key
      OBVIOUS
    <3>2. emailFailures[j].n + Cardinality(Trying(v)) <= Limit
      BY DEF FailuresInv
    <3>3. Cardinality(Trying(v)') <= Cardinality(Trying(v)) /\ Cardinality(Trying(v)') \in Nat
      BY TryingKept
    <3>4. emailFailures[j].n \in Nat /\ Cardinality(Trying(v)) \in Nat /\ Limit \in Int
      BY <1>4, MapFacts, TryingFinite DEF FailuresInv
    <3>5. (Cardinality(Trying(emailFailures[i].key)))' = Cardinality(Trying(v)')
      BY <3>1 DEF Trying
    <3>6. emailFailures'[i].n + Cardinality(Trying(v)') <= Limit
      BY <3>1, <3>2, <3>3, <3>4
    <3> QED  BY <3>5, <3>6 DEF Limit
  <2> QED  BY <1>6, <2>1, <2>2
<1> QED  BY <1>6, <1>7 DEF FailuresInv

\* A success drops the mailbox.
LEMMA OneSuccess ==
  ASSUME FailuresInv, NEW u, RecordSuccess(u), \A v : Trying(v)' \subseteq Trying(v)
  PROVE  FailuresInv'
<1>1. MapOf(emailFailures, User)
  BY DEF FailuresInv
<1>2. MapOf(emailFailures', User) /\ Part(emailFailures', emailFailures)
  BY <1>1, RemovedFromMap DEF RecordSuccess, Part
<1>3. \A i \in DOMAIN emailFailures' : \E j \in DOMAIN emailFailures :
        /\ emailFailures'[i].key = emailFailures[j].key
        /\ emailFailures'[i].n <= emailFailures[j].n
  BY <1>1, <1>2, MapFacts DEF Part
<1> QED  BY <1>2, <1>3, FewerFailures

\* A stamp that leaves the window.
LEMMA AgedMap ==
  ASSUME NEW K, NEW b, MapOf(b, K), NEW k \in K, Stamps(b, k) > 0
  PROVE  /\ MapOf(Age(b, k), K)
         /\ \A i \in DOMAIN Age(b, k) : \E j \in DOMAIN b :
              Age(b, k)[i].key = b[j].key /\ Age(b, k)[i].n <= b[j].n
<1> PICK n : n = Stamps(b, k) - 1
  OBVIOUS
<1>1. Stamps(b, k) \in Nat /\ n \in Nat
  BY StampsOfEntry
<1>2. PICK e \in DOMAIN b : b[e].key = k /\ b[e].n = Stamps(b, k)
  BY StampsOfEntry
<1>3. /\ MapOf(Age(b, k), K)
      /\ \A i \in DOMAIN Age(b, k) :
           \/ Age(b, k)[i] = [key |-> k, n |-> n]
           \/ \E j \in DOMAIN b : Age(b, k)[i] = b[j]
  BY <1>1, <1>2, AssignedMap DEF Age
<1>4. ASSUME NEW i \in DOMAIN Age(b, k)
      PROVE  \E j \in DOMAIN b : Age(b, k)[i].key = b[j].key /\ Age(b, k)[i].n <= b[j].n
  <2>1. CASE Age(b, k)[i] = [key |-> k, n |-> n]
    BY <1>1, <1>2, <2>1
  <2>2. CASE \E j \in DOMAIN b : Age(b, k)[i] = b[j]
    BY <2>2, MapFacts
  <2> QED  BY <1>3, <2>1, <2>2
<1> QED  BY <1>3, <1>4

\* A request is let through while the failures of its mailbox leave room.
LEMMA OneTries ==
  ASSUME FailuresInv, NEW t \in Task, NEW u \in User,
         Stamps(emailFailures, u) < MaxFailures, UNCHANGED emailFailures,
         \A v : v # u => Trying(v)' \subseteq Trying(v)
  PROVE  FailuresInv'
<1> USE DEF FailuresInv
<1>1. MapOf(emailFailures, User)
  OBVIOUS
<1> SUFFICES ASSUME NEW i \in DOMAIN emailFailures
             PROVE  emailFailures[i].n + Cardinality(Trying(emailFailures[i].key)') <= Limit
  BY <1>1 DEF Limit, Trying
<1> PICK v : v = emailFailures[i].key
  OBVIOUS
<1>2. /\ emailFailures[i].n \in Nat /\ Limit = MaxFailures - 1 + Cardinality(Task)
      /\ MaxFailures \in Nat \ {0} /\ Cardinality(Task) \in Nat /\ Cardinality(Trying(v)) \in Nat
  BY <1>1, MapFacts, TryingFinite, ThrottleAssumption DEF Limit
<1>3. Cardinality(Trying(v)') \in Nat /\ Cardinality(Trying(v)') <= Cardinality(Task)
  <2>1. Trying(v)' \in SUBSET Task
    BY DEF Trying
  <2> QED  BY <2>1, HouseholdsAssumption, FS_Subset, FS_CardinalityType
<1>4. emailFailures[i].n + Cardinality(Trying(v)') <= Limit
  <2>1. CASE v = u
    <3>1. emailFailures[i].n = Stamps(emailFailures, u)
      BY <1>1, <2>1, StampsOfEntry
    <3> QED  BY <1>2, <1>3, <3>1
  <2>2. CASE v # u
    <3>1. Cardinality(Trying(v)') <= Cardinality(Trying(v))
      BY <2>2, TryingKept
    <3> QED  BY <1>2, <1>3, <3>1
  <2> QED  BY <2>1, <2>2
<1> QED  BY <1>4 DEF Trying

\* AttemptsInv is inductive.
LEMMA AttemptsStep == ASSUME AttemptsInv, [Next]_vars PROVE AttemptsInv'
<1>0. MapOf(ipAttempts, Ip)
  BY DEF AttemptsInv
<1>1. ASSUME NEW ip \in Ip, NEW u, Check(ip, u) PROVE AttemptsInv'
  <2> DEFINE kept == EvictIfFull(ipAttempts)
  <2> PICK n : n = Stamps(ipAttempts, ip) + 1
    OBVIOUS
  <2>1. n \in Nat /\ n <= MaxAttempts
    BY <1>0, <1>1, StampsOfEntry, ThrottleAssumption DEF Check, Allowed
  <2>2. MapOf(kept, Ip) /\ Part(kept, ipAttempts) /\ Len(kept) < MaxEntries
    BY <1>0, EvictedMap
  <2>3. ipAttempts' = Assign(kept, ip, n)
    BY <1>1 DEF Check
  <2> HIDE DEF kept
  <2>4. /\ MapOf(ipAttempts', Ip)
        /\ \A i \in DOMAIN ipAttempts' :
             \/ ipAttempts'[i] = [key |-> ip, n |-> n]
             \/ \E j \in DOMAIN ipAttempts : ipAttempts'[i] = ipAttempts[j]
    BY <2>1, <2>2, <2>3, AssignedMap DEF Part
  <2> QED  BY <2>1, <2>4 DEF AttemptsInv
<1>2. ASSUME NEW ip \in Ip, AgeAttempt(ip) PROVE AttemptsInv'
  <2>1. /\ MapOf(ipAttempts', Ip)
        /\ \A i \in DOMAIN ipAttempts' : \E j \in DOMAIN ipAttempts :
             ipAttempts'[i].n <= ipAttempts[j].n
    BY <1>0, <1>2, AgedMap DEF AgeAttempt
  <2>2. MaxAttempts \in Nat /\ \A j \in DOMAIN ipAttempts : ipAttempts[j].n \in Nat
    BY <1>0, MapFacts, ThrottleAssumption
  <2>3. \A i \in DOMAIN ipAttempts' : ipAttempts'[i].n \in Nat
    BY <2>1, MapFacts
  <2> QED  BY <2>1, <2>2, <2>3 DEF AttemptsInv
<1>3. CASE UNCHANGED ipAttempts
  BY <1>3 DEF AttemptsInv
<1>4. \/ UNCHANGED ipAttempts
      \/ \E ip \in Ip : AgeAttempt(ip) \/ \E u \in User : Check(ip, u)
  <2>1. ASSUME NEW t \in Task, Step(t) PROVE UNCHANGED ipAttempts
    BY <2>1 DEF Step, Ensure, Collect, Mint, Redeem, FindHouse, Admit, Join, Revoke,
                ReleaseMember, Gather, Dissolve, Verify, Miss, throttle
  <2>2. ASSUME NEW t \in Task, NEW u \in User,
               \/ CreateInvite(t, u) \/ Leave(t, u) \/ DeleteAccount(t, u)
               \/ \E c \in DOMAIN codes : RevokeInvite(t, u, c)
               \/ \E m \in User : RemoveMember(t, u, m)
        PROVE  UNCHANGED ipAttempts
    BY <2>2 DEF CreateInvite, Leave, DeleteAccount, RevokeInvite, RemoveMember, throttle
  <2>3. ASSUME NEW t \in Task, NEW u \in User, NEW ip \in Ip,
               \/ ImapLogin(t, u, ip)
               \/ \E c \in DOMAIN codes \cup {NoCode} : AcceptInvite(t, u, ip, c)
        PROVE  Check(ip, u)
    BY <2>3 DEF ImapLogin, AcceptInvite
  <2>4. ASSUME NEW u \in User, NEW ip \in Ip, AcceptAgain(u, ip) PROVE Check(ip, u)
    BY <2>4 DEF AcceptAgain
  <2>5. CASE \/ \E u \in User : SignInAgain(u) \/ AgeFailure(u)
             \/ \E c \in DOMAIN codes : ExpireCode(c)
             \/ UNCHANGED vars
    BY <2>5 DEF SignInAgain, AgeFailure, ExpireCode, vars, throttle
  <2> QED  BY <2>1, <2>2, <2>3, <2>4, <2>5 DEF Next
<1> QED  BY <1>1, <1>2, <1>3, <1>4

\* A request that has ended tries no more.
LEMMA EndedTries ==
  ASSUME TypeInv, NEW t \in Task, End(t)
  PROVE  \A u : Trying(u)' \subseteq Trying(u) \ {t}
<1>1. task'[t] = Idle /\ \A s \in Task \ {t} : task'[s] = task[s]
  BY DEF End, TypeInv, TasksFit
<1> QED  BY <1>1 DEF Trying, Idle

\* FailuresInv is inductive.
LEMMA FailuresStep == ASSUME TypeInv, FailuresInv, [Next]_vars PROVE FailuresInv'
<1>0. MapOf(emailFailures, User) /\ task \in [Task -> Request]
  BY DEF FailuresInv, TypeInv, TasksFit
<1>1. ASSUME UNCHANGED emailFailures, \A u : Trying(u)' \subseteq Trying(u) PROVE FailuresInv'
  <2>1. \A i \in DOMAIN emailFailures : emailFailures[i].n <= emailFailures[i].n
    BY <1>0, MapFacts
  <2> QED  BY <1>0, <1>1, <2>1, FewerFailures
<1>2. ASSUME NEW t \in Task, Step(t) PROVE FailuresInv'
  <2>1. \A u : Trying(u)' \subseteq Trying(u)
    BY <1>2, NoneBegins
  <2>2. ASSUME task[t].pc \in {"redeem", "house", "verify"}, End(t), RecordFailure(task[t].user)
        PROVE  FailuresInv'
    <3>1. task[t].user \in User /\ t \in Trying(task[t].user)
      BY <2>2, RequestFacts DEF Fits, Trying
    <3> QED  BY <2>2, <3>1, EndedTries, OneFailure
  <2>3. CASE RecordSuccess(task[t].user)
    BY <2>1, <2>3, OneSuccess
  <2>4. CASE UNCHANGED emailFailures
    BY <1>1, <2>1, <2>4
  <2>5. Redeem(t) \/ FindHouse(t) \/ Verify(t)
          => \/ UNCHANGED emailFailures \/ RecordSuccess(task[t].user)
             \/ /\ task[t].pc \in {"redeem", "house", "verify"}
                /\ End(t) /\ RecordFailure(task[t].user)
    BY DEF Redeem, FindHouse, Verify, Miss, At, throttle
  <2>6. Join(t) => RecordSuccess(task[t].user)
    BY DEF Join
  <2>7. Ensure(t) \/ Collect(t) \/ Mint(t) \/ Admit(t) \/ Revoke(t) \/ ReleaseMember(t)
          \/ Gather(t) \/ Dissolve(t) => UNCHANGED emailFailures
    BY DEF Ensure, Collect, Mint, Admit, Revoke, ReleaseMember, Gather, Dissolve, throttle
  <2> QED  BY <1>2, <2>2, <2>3, <2>4, <2>5, <2>6, <2>7 DEF Step
<1>3. ASSUME NEW t \in Task, NEW u \in User, NEW pc, NEW c, NEW w, Begin(t, u, pc, c, w)
      PROVE  /\ \A v : v # u => Trying(v)' \subseteq Trying(v)
             /\ pc \notin {"redeem", "house", "verify"} => \A v : Trying(v)' \subseteq Trying(v)
  <2>1. /\ task'[t].pc = pc /\ task'[t].user = u
        /\ \A s \in Task \ {t} : task'[s] = task[s]
    BY <1>0, <1>3 DEF Begin, Goes
  <2> QED  BY <2>1 DEF Trying
<1>4. ASSUME NEW t \in Task, NEW u \in User,
             \/ CreateInvite(t, u) \/ Leave(t, u) \/ DeleteAccount(t, u)
             \/ \E c \in DOMAIN codes : RevokeInvite(t, u, c)
             \/ \E m \in User : RemoveMember(t, u, m)
      PROVE  FailuresInv'
  <2>1. \E pc \in {"ensure", "release", "gather", "revoke"} : \E c, w : Begin(t, u, pc, c, w)
    <3>1. CASE CreateInvite(t, u)  BY <3>1, Zenon DEF CreateInvite
    <3>2. CASE Leave(t, u)  BY <3>2, Zenon DEF Leave
    <3>3. CASE DeleteAccount(t, u)  BY <3>3, Zenon DEF DeleteAccount
    <3>4. CASE \E c \in DOMAIN codes : RevokeInvite(t, u, c)  BY <3>4, Zenon DEF RevokeInvite
    <3>5. CASE \E m \in User : RemoveMember(t, u, m)  BY <3>5, Zenon DEF RemoveMember
    <3> QED  BY <1>4, <3>1, <3>2, <3>3, <3>4, <3>5, Zenon
  <2>2. UNCHANGED emailFailures
    BY <1>4 DEF CreateInvite, Leave, DeleteAccount, RevokeInvite, RemoveMember, throttle
  <2>3. \A v : Trying(v)' \subseteq Trying(v)  BY <1>3, <2>1
  <2> QED  BY <1>1, <2>2, <2>3
<1>5. ASSUME NEW t \in Task, NEW u \in User, NEW ip \in Ip,
             \/ ImapLogin(t, u, ip)
             \/ \E c \in DOMAIN codes \cup {NoCode} : AcceptInvite(t, u, ip, c)
      PROVE  FailuresInv'
  <2>1. Check(ip, u) /\ UNCHANGED emailFailures /\ \E pc, c, w : Begin(t, u, pc, c, w)
    BY <1>5, Zenon DEF ImapLogin, AcceptInvite
  <2>2. Stamps(emailFailures, u) < MaxFailures
    BY <2>1 DEF Check, Allowed
  <2> QED  BY <1>3, <2>1, <2>2, OneTries
<1>6. ASSUME NEW u \in User, AgeFailure(u) PROVE FailuresInv'
  <2>1. /\ MapOf(emailFailures', User)
        /\ \A i \in DOMAIN emailFailures' : \E j \in DOMAIN emailFailures :
             /\ emailFailures'[i].key = emailFailures[j].key
             /\ emailFailures'[i].n <= emailFailures[j].n
    BY <1>0, <1>6, AgedMap DEF AgeFailure
  <2>2. \A v : Trying(v)' \subseteq Trying(v)
    BY <1>6 DEF AgeFailure, Trying
  <2> QED  BY <2>1, <2>2, FewerFailures
<1>7. CASE \/ \E u \in User : SignInAgain(u) \/ \E ip \in Ip : AcceptAgain(u, ip)
           \/ \E c \in DOMAIN codes : ExpireCode(c)
           \/ \E ip \in Ip : AgeAttempt(ip)
           \/ UNCHANGED vars
  <2>1. UNCHANGED <<task, emailFailures>>
    BY <1>7 DEF SignInAgain, AcceptAgain, ExpireCode, AgeAttempt, vars, throttle
  <2> QED  BY <1>1, <2>1 DEF Trying
<1> QED  BY <1>2, <1>4, <1>5, <1>6, <1>7 DEF Next

\* AttemptsBounded: a client's attempts and a mailbox's failures never pass
\* their limits, but for the requests that were let through together, and the
\* maps never grow past their size, whatever is evicted, aged or cleared.
THEOREM ThrottleHolds == Spec => []AttemptsBounded
<1>1. Init => AttemptsInv /\ FailuresInv
  <2> SUFFICES ASSUME Init PROVE AttemptsInv /\ FailuresInv
    OBVIOUS
  <2>1. ipAttempts = <<>> /\ emailFailures = <<>>
    BY DEF Init, ThrottleInit
  <2>2. \A K : MapOf(<<>>, K)
    BY ThrottleAssumption, EmptySeq DEF MapOf
  <2> QED  BY <2>1, <2>2 DEF AttemptsInv, FailuresInv
<1>2. AttemptsInv /\ FailuresInv => AttemptsBounded
  <2> SUFFICES ASSUME AttemptsInv, FailuresInv PROVE AttemptsBounded
    OBVIOUS
  <2>1. MapOf(ipAttempts, Ip) /\ MapOf(emailFailures, User)
    BY DEF AttemptsInv, FailuresInv
  <2>2. ASSUME NEW ip \in Ip PROVE Stamps(ipAttempts, ip) <= MaxAttempts
    BY <2>1, StampsOfEntry, ThrottleAssumption DEF AttemptsInv
  <2>3. ASSUME NEW u \in User
        PROVE  Stamps(emailFailures, u) + Cardinality(Trying(u)) <= Limit
    <3>1. CASE \E i \in DOMAIN emailFailures : emailFailures[i].key = u
      <4>1. PICK i \in DOMAIN emailFailures : emailFailures[i].key = u
        BY <3>1
      <4>2. emailFailures[i].n + Cardinality(Trying(u)) <= Limit
        BY <4>1 DEF FailuresInv
      <4>3. Stamps(emailFailures, u) = emailFailures[i].n
        BY <2>1, <4>1, StampsOfEntry
      <4> QED  BY <4>2, <4>3
    <3>2. CASE ~ \E i \in DOMAIN emailFailures : emailFailures[i].key = u
      <4>1. Stamps(emailFailures, u) = 0
        BY <2>1, <3>2, StampsOfEntry
      <4> QED  BY <4>1, TryingFinite, ThrottleAssumption DEF Limit
    <3> QED  BY <3>1, <3>2
  <2> QED  BY <2>1, <2>2, <2>3 DEF AttemptsBounded, MapOf, Trying, Limit
<1>3. TypeInv /\ AttemptsInv /\ FailuresInv /\ [Next]_vars => AttemptsInv' /\ FailuresInv'
  BY AttemptsStep, FailuresStep
<1> QED  BY <1>1, <1>2, <1>3, TypesHold, PTL DEF Spec
=============================================================================
