-------------------------- MODULE GoogleSignInProofs --------------------------
(***************************************************************************)
(* Proofs about GoogleSignIn, for any number of attempts and kills: a code *)
(* is in one place at a time on its way from the consent page to the post. *)
(***************************************************************************)
EXTENDS GoogleSignIn, FiniteSetTheorems, WellFoundedInduction, TLAPS

Code == [code : Attempt, verifier : Attempt]

Types ==
  /\ started \in 0 .. MaxAttempts /\ pending \in 0 .. started
  /\ opening \subseteq 1 .. started /\ page \subseteq 1 .. started
  /\ waiting \subseteq Attempt
  /\ link \in Link \cup {NoLink}
  /\ inbox \subseteq Attempt \X Link
  /\ results \subseteq Code /\ posted \in Seq(Code)

Obtained(a) == \E r \in results : r.code = a
Posted(a) == \E i \in 1 .. Len(posted) : posted[i].code = a
Gone(a) == Obtained(a) \/ Posted(a)

\* A code comes with the verifier of its own request.
Matched ==
  /\ \A r \in results : r.code = r.verifier
  /\ \A i \in 1 .. Len(posted) : posted[i].code = posted[i].verifier

\* Before its redirect an attempt has left no trace; afterwards the redirect is
\* either on its way or the launch link, never both.
Redirects ==
  /\ opening \cap page = {}
  /\ \A a \in opening \cup page \cup started + 1 .. MaxAttempts :
       ~Gone(a) /\ link.state # a /\ \A e \in inbox : e[2].state # a
  /\ \A e \in inbox : link.state # e[2].state
  /\ \A e, f \in inbox : e[1] = f[1] /\ e[2].state = f[2].state => e = f

\* A code still to be taken has not been taken before, and one obtained has
\* not been posted.
Exclusive ==
  /\ \A e \in inbox : e[1] = e[2].state => ~Gone(e[1])
  /\ \A a \in Attempt : link.state = a /\ pending = a => ~Gone(a)
  /\ \A a \in Attempt : ~(Obtained(a) /\ Posted(a))
  /\ \A i, j \in 1 .. Len(posted) : posted[i].code = posted[j].code => i = j

OnceInv == Types /\ Matched /\ Redirects /\ Exclusive

LEMMA InitOnce == Init => OnceInv
<1> USE SignInAssumption
<1> QED  BY DEF Init, OnceInv, Types, Matched, Redirects, Exclusive, Gone, Obtained, Posted,
            Attempt, NoAttempt, NoLink, Link, Code

\* Nothing is obtained or posted in steps that change neither.
LEMMA SameGone ==
  ASSUME UNCHANGED <<results, posted>>, NEW a
  PROVE  Obtained(a)' = Obtained(a) /\ Posted(a)' = Posted(a) /\ Gone(a)' = Gone(a)
  BY DEF Obtained, Posted, Gone

LEMMA SaveOnce == ASSUME OnceInv, SavePending PROVE OnceInv'
<1> USE SignInAssumption DEF OnceInv
<1>1. UNCHANGED <<results, posted, link, inbox, page, waiting>>
  BY DEF SavePending
<1>2. started' = started + 1 /\ started < MaxAttempts /\ pending' = started'
      /\ opening' = opening \cup {started'}
  BY DEF SavePending
<1>3. Types' /\ Matched'
  <2>1. /\ started' \in 0 .. MaxAttempts /\ pending' \in 0 .. started'
        /\ opening' \subseteq 1 .. started' /\ page' \subseteq 1 .. started'
    BY <1>1, <1>2 DEF Types
  <2>2. Matched'
    BY <1>1 DEF Matched
  <2> QED  BY <1>1, <2>1, <2>2 DEF Types
<1>4. Redirects'
  BY <1>1, <1>2, SameGone DEF Redirects, Types
<1>5. Exclusive'
  BY <1>1, <1>2, SameGone DEF Redirects, Exclusive, Types, Posted, Obtained
<1> QED  BY <1>3, <1>4, <1>5

LEMMA OpenOnce == ASSUME OnceInv, NEW a \in Attempt, OpenBrowser(a) PROVE OnceInv'
<1> USE SignInAssumption DEF OnceInv
<1>1. /\ UNCHANGED <<results, posted, link, inbox, started>>
      /\ a \in opening /\ opening' = opening \ {a} /\ page' \subseteq page \cup {a}
      /\ waiting' \subseteq waiting \cup {a} /\ pending' \in {pending, NoAttempt}
  BY DEF OpenBrowser
<1>2. Types' /\ Matched'
  BY <1>1 DEF Types, Matched, NoAttempt
<1>3. Redirects'
  BY <1>1, SameGone DEF Redirects, Types
<1>4. Exclusive'
  BY <1>1, SameGone DEF Exclusive, Attempt, NoAttempt, Types, Obtained, Posted
<1> QED  BY <1>2, <1>3, <1>4

LEMMA RedirectOnce ==
  ASSUME OnceInv, NEW a \in Attempt, NEW ok \in BOOLEAN, Redirect(a, ok)
  PROVE  OnceInv'
<1> USE SignInAssumption DEF OnceInv
<1> DEFINE l == [state |-> a, ok |-> ok]
<1>1. /\ UNCHANGED <<results, posted, started, pending, opening>>
      /\ a \in page /\ page' = page \ {a}
      /\ \/ link' = l /\ UNCHANGED <<inbox, waiting>>
         \/ inbox' = inbox \cup (waiting \X {l}) /\ waiting' = {} /\ UNCHANGED link
  BY DEF Redirect
<1>2. l \in Link /\ l.state = a
  BY DEF Link
<1>3. ~Gone(a) /\ link.state # a /\ (\A e \in inbox : e[2].state # a) /\ a \notin opening
  BY <1>1 DEF Redirects
<1>4. /\ inbox' \subseteq Attempt \X Link
      /\ \A e \in inbox' : e \in inbox \/ (e[2] = l /\ UNCHANGED link)
  BY <1>1, <1>2 DEF Types
<1> HIDE DEF l
<1>5. Types' /\ Matched'
  BY <1>1, <1>2, <1>4 DEF Types, Matched
<1>6. Redirects'
  <2>1. opening' \cap page' = {}
    BY <1>1 DEF Redirects
  <2>2. ASSUME NEW b \in opening' \cup page' \cup started' + 1 .. MaxAttempts
        PROVE  ~Gone(b)' /\ link'.state # b /\ \A e \in inbox' : e[2].state # b
    <3>1. /\ b \in opening \cup page \cup started + 1 .. MaxAttempts /\ b # a
      BY <1>1, <1>3 DEF Types
    <3> QED  BY <1>1, <1>2, <1>4, <3>1, SameGone DEF Redirects
  <2>3. \A e \in inbox' : link'.state # e[2].state
    BY <1>1, <1>2, <1>3, <1>4 DEF Redirects
  <2>4. ASSUME NEW e \in inbox', NEW f \in inbox', e[1] = f[1], e[2].state = f[2].state
        PROVE  e = f
    <3>1. e \in Attempt \X Link /\ f \in Attempt \X Link
      BY <1>4
    <3>2. CASE e \in inbox /\ f \in inbox
      BY <2>4, <3>2 DEF Redirects
    <3>3. CASE e[2] = l /\ f[2] = l
      BY <2>4, <3>1, <3>3
    <3> QED  BY <1>2, <1>3, <1>4, <2>4, <3>2, <3>3
  <2> QED  BY <2>1, <2>2, <2>3, <2>4 DEF Redirects
<1>7. Exclusive'
  <2>1. \A e \in inbox' : e[1] = e[2].state => ~Gone(e[1])
    BY <1>2, <1>3, <1>4 DEF Exclusive
  <2>2. \A b \in Attempt : link'.state = b /\ pending = b => ~Gone(b)
    BY <1>1, <1>2, <1>3 DEF Exclusive
  <2> QED  BY <1>1, <2>1, <2>2 DEF Exclusive, Gone, Obtained, Posted
<1> QED  BY <1>5, <1>6, <1>7

\* A code is taken from the redirect that answers its own request.
LEMMA ArriveOnce ==
  ASSUME OnceInv, NEW a \in Attempt, NEW l \in Link, Arrive(a, l)
  PROVE  OnceInv'
<1> USE SignInAssumption DEF OnceInv
<1>1. /\ UNCHANGED <<posted, started, opening, page, waiting, link>>
      /\ <<a, l>> \in inbox /\ inbox' = inbox \ {<<a, l>>} /\ pending' = NoAttempt
      /\ results' = results \cup Taken(a, l)
  BY DEF Arrive
<1>2. CASE Taken(a, l) = {}
  <2>1. UNCHANGED results
    BY <1>1, <1>2
  <2>2. Types' /\ Matched'
    BY <1>1, <2>1 DEF Types, Matched, NoAttempt
  <2>3. Redirects'
    BY <1>1, <2>1, SameGone DEF Redirects
  <2>4. Exclusive'
    BY <1>1, <2>1 DEF Exclusive, Gone, Obtained, Posted, Attempt, NoAttempt
  <2> QED  BY <2>2, <2>3, <2>4
<1>3. CASE l.state = a /\ Taken(a, l) = {[code |-> a, verifier |-> a]}
  <2>1. results' = results \cup {[code |-> a, verifier |-> a]}
    BY <1>1, <1>3
  <2>2. /\ ~Gone(a) /\ link.state # a
        /\ a \notin opening \cup page \cup started + 1 .. MaxAttempts
        /\ \A e \in inbox' : e[1] = e[2].state => e[1] # a
    <3>1. <<a, l>>[1] = a /\ <<a, l>>[2] = l
      OBVIOUS
    <3>2. \A e \in inbox' : ~(e[1] = a /\ e[2].state = a)
      BY <1>1, <1>3, <3>1 DEF Redirects
    <3> QED  BY <1>1, <1>3, <3>1, <3>2 DEF Redirects, Exclusive
  <2>3. /\ \A b : Obtained(b)' <=> Obtained(b) \/ b = a
        /\ \A b : Posted(b)' <=> Posted(b)
        /\ \A b : Gone(b)' <=> Gone(b) \/ b = a
    <3>1. \A b : Obtained(b)' <=> Obtained(b) \/ b = a
      <4>1. [code |-> a, verifier |-> a].code = a
        OBVIOUS
      <4>2. \A b : (\E r \in results \cup {[code |-> a, verifier |-> a]} : r.code = b)
                     <=> (\E r \in results : r.code = b) \/ b = a
        BY <4>1
      <4> QED  BY <2>1, <4>2 DEF Obtained
    <3>2. \A b : Posted(b)' <=> Posted(b)
      BY <1>1 DEF Posted
    <3> QED  BY <3>1, <3>2 DEF Gone
  <2>4. Types'
    BY <1>1, <2>1 DEF Types, NoAttempt, Code
  <2>5. Matched'
    BY <1>1, <2>1 DEF Matched
  <2>6. Redirects'
    BY <1>1, <2>2, <2>3 DEF Redirects
  <2>7. Exclusive'
    <3>1. \A e \in inbox' : e[1] = e[2].state => ~Gone(e[1])'
      BY <1>1, <2>2, <2>3 DEF Exclusive
    <3>2. \A b \in Attempt : ~(Obtained(b)' /\ Posted(b)')
      BY <2>2, <2>3 DEF Exclusive, Gone
    <3>3. \A b \in Attempt : ~(link'.state = b /\ pending' = b)
      BY <1>1 DEF Attempt, NoAttempt
    <3> QED  BY <1>1, <3>1, <3>2, <3>3 DEF Exclusive
  <2> QED  BY <2>4, <2>5, <2>6, <2>7
<1> QED  BY <1>2, <1>3 DEF Taken, IsOurs

LEMMA KillOnce == ASSUME OnceInv, Kill PROVE OnceInv'
<1> USE SignInAssumption DEF OnceInv
<1>1. /\ UNCHANGED <<link, pending, page, started, posted>>
      /\ opening' = {} /\ waiting' = {} /\ inbox' = {} /\ results' = {}
  BY DEF Kill
<1>2. \A b : (Posted(b)' <=> Posted(b)) /\ ~Obtained(b)' /\ (Gone(b)' => Gone(b))
  BY <1>1 DEF Posted, Obtained, Gone
<1>3. Types' /\ Matched'
  BY <1>1 DEF Types, Matched
<1>4. Redirects'
  BY <1>1, <1>2 DEF Redirects
<1>5. Exclusive'
  BY <1>1, <1>2 DEF Exclusive
<1> QED  BY <1>3, <1>4, <1>5

LEMMA LaunchOnce == ASSUME OnceInv, NEW l, Launch(l) PROVE OnceInv'
<1> USE SignInAssumption DEF OnceInv
<1>1. /\ UNCHANGED <<pending, opening, waiting, inbox, results, page, started, posted>>
      /\ link' \in {NoLink, link}
  BY DEF Launch
<1>2. NoLink.state = 0
  BY DEF NoLink, NoAttempt
<1>3. Types' /\ Matched'
  BY <1>1 DEF Types, Matched
<1>4. Redirects'
  <2>1. \A e \in inbox : e[2].state \in Attempt
    BY DEF Types, Link
  <2> QED  BY <1>1, <1>2, <2>1, SameGone DEF Redirects, Attempt, Types
<1>5. Exclusive'
  BY <1>1, <1>2 DEF Exclusive, Gone, Obtained, Posted, Attempt
<1> QED  BY <1>3, <1>4, <1>5

\* A code is recovered with the record that is given up for it.
LEMMA BootOnce == ASSUME OnceInv, Boot PROVE OnceInv'
<1> USE SignInAssumption DEF OnceInv
<1>1. UNCHANGED <<link, opening, waiting, inbox, page, started, posted>>
  BY DEF Boot
<1>2. CASE UNCHANGED <<pending, results>>
  <2>1. Types' /\ Matched'
    BY <1>1, <1>2 DEF Types, Matched
  <2>2. Redirects'
    BY <1>1, <1>2, SameGone DEF Redirects
  <2>3. Exclusive'
    BY <1>1, <1>2 DEF Exclusive, Gone, Obtained, Posted
  <2> QED  BY <2>1, <2>2, <2>3
<1>3. CASE pending' = NoAttempt /\ UNCHANGED results
  <2>1. Types' /\ Matched'
    BY <1>1, <1>3 DEF Types, Matched, NoAttempt
  <2>2. Redirects'
    BY <1>1, <1>3, SameGone DEF Redirects
  <2>3. Exclusive'
    BY <1>1, <1>3 DEF Exclusive, Gone, Obtained, Posted, Attempt, NoAttempt
  <2> QED  BY <2>1, <2>2, <2>3
<1>4. CASE /\ pending' = NoAttempt /\ pending # NoAttempt
           /\ \E a \in Attempt : /\ link.state = a /\ pending = a
                                 /\ results' = results \cup {[code |-> a, verifier |-> a]}
  <2>1. PICK a \in Attempt : /\ link.state = a /\ pending = a
                             /\ results' = results \cup {[code |-> a, verifier |-> a]}
    BY <1>4
  <2>2. /\ ~Gone(a) /\ a \notin opening \cup page \cup started + 1 .. MaxAttempts
        /\ \A e \in inbox : e[1] = e[2].state => e[1] # a
    BY <2>1 DEF Redirects, Exclusive
  <2>3. \A b : Obtained(b)' <=> Obtained(b) \/ b = a
    <3>1. [code |-> a, verifier |-> a].code = a
      OBVIOUS
    <3>2. \A b : (\E r \in results \cup {[code |-> a, verifier |-> a]} : r.code = b)
                   <=> (\E r \in results : r.code = b) \/ b = a
      BY <3>1
    <3> QED  BY <2>1, <3>2 DEF Obtained
  <2>4. \A b : (Posted(b)' <=> Posted(b)) /\ (Gone(b)' <=> Gone(b) \/ b = a)
    BY <1>1, <2>3 DEF Posted, Gone
  <2>5. Types'
    BY <1>1, <1>4, <2>1 DEF Types, NoAttempt, Code
  <2>6. Matched'
    BY <1>1, <2>1 DEF Matched
  <2>7. Redirects'
    BY <1>1, <2>2, <2>4 DEF Redirects
  <2>8. Exclusive'
    <3>1. \A e \in inbox' : e[1] = e[2].state => ~Gone(e[1])'
      BY <1>1, <2>2, <2>4 DEF Exclusive
    <3>2. \A b \in Attempt : ~(Obtained(b)' /\ Posted(b)')
      BY <2>2, <2>3, <2>4 DEF Exclusive, Gone
    <3>3. \A b \in Attempt : ~(link'.state = b /\ pending' = b)
      BY <1>4 DEF Attempt, NoAttempt
    <3> QED  BY <1>1, <3>1, <3>2, <3>3 DEF Exclusive
  <2> QED  BY <2>5, <2>6, <2>7, <2>8
<1>5. (UNCHANGED <<pending, results>>)
      \/ (pending # NoAttempt /\ pending' = NoAttempt /\ results' = results \cup Recovered)
  BY DEF Boot, RecordCleared
<1>6. Recovered = {} \/ \E a \in Attempt : /\ link.state = a /\ pending = a
                                           /\ Recovered = {[code |-> a, verifier |-> a]}
  BY DEF Recovered, Taken, IsOurs, Types, Link
<1> QED  BY <1>2, <1>3, <1>4, <1>5, <1>6

\* A code that is posted is given up.
LEMMA PostOnce == ASSUME OnceInv, NEW r \in results, Post(r) PROVE OnceInv'
<1> USE SignInAssumption DEF OnceInv
<1>1. /\ UNCHANGED <<link, pending, opening, waiting, inbox, page, started>>
      /\ results' = results \ {r} /\ posted' = Append(posted, r)
  BY DEF Post
<1>2. r \in Code /\ r.code = r.verifier /\ r.code \in Attempt /\ ~Posted(r.code)
  <2>1. r \in Code /\ r.code \in Attempt
    BY DEF Types, Code
  <2> QED  BY <2>1 DEF Matched, Exclusive, Obtained
<1>3. \A q \in results' : q.code # r.code
  <2>1. ASSUME NEW q \in results, q.code = r.code PROVE q = r
    <3>1. q \in Code /\ r \in Code /\ q.code = q.verifier /\ r.code = r.verifier
      BY DEF Types, Matched
    <3>2. \A p \in Code : p = [code |-> p.code, verifier |-> p.verifier]
      BY DEF Code
    <3>3. q = [code |-> q.code, verifier |-> q.verifier] /\ r = [code |-> r.code, verifier |-> r.verifier]
      BY <3>1, <3>2
    <3> QED  BY <2>1, <3>1, <3>3
  <2> QED  BY <1>1, <2>1
<1>4. /\ posted' \in Seq(Code) /\ Len(posted') = Len(posted) + 1 /\ Len(posted) \in Nat
      /\ posted'[Len(posted')] = r
      /\ \A i \in 1 .. Len(posted) : posted'[i] = posted[i]
  BY <1>1, <1>2 DEF Types
<1>5. \A b : Posted(b)' <=> Posted(b) \/ b = r.code
  BY <1>4 DEF Posted
<1>6. \A b : Obtained(b)' => Obtained(b) /\ b # r.code
  BY <1>1, <1>3 DEF Obtained
<1>7. \A b : Gone(b)' => Gone(b)
  BY <1>5, <1>6 DEF Gone, Obtained
<1>8. Types' /\ Matched'
  BY <1>1, <1>2, <1>4 DEF Types, Matched
<1>9. Redirects'
  BY <1>1, <1>7 DEF Redirects
<1>10. Exclusive'
  <2>1. /\ \A e \in inbox' : e[1] = e[2].state => ~Gone(e[1])'
        /\ \A a \in Attempt : link'.state = a /\ pending' = a => ~Gone(a)'
        /\ \A a \in Attempt : ~(Obtained(a)' /\ Posted(a)')
    BY <1>1, <1>5, <1>6, <1>7 DEF Exclusive
  <2>2. \A i, j \in 1 .. Len(posted') : posted'[i].code = posted'[j].code => i = j
    BY <1>2, <1>4 DEF Exclusive, Posted
  <2> QED  BY <2>1, <2>2 DEF Exclusive
<1> QED  BY <1>8, <1>9, <1>10

LEMMA StepOnce == ASSUME OnceInv, [Next]_vars PROVE OnceInv'
<1>1. CASE UNCHANGED <<started, pending, opening, page, waiting, link, inbox, results, posted>>
  BY <1>1 DEF OnceInv, Types, Matched, Redirects, Exclusive, Gone, Obtained, Posted
<1>2. \/ UNCHANGED <<started, pending, opening, page, waiting, link, inbox, results, posted>>
      \/ SavePending \/ Kill \/ Boot
      \/ \E a \in Attempt : OpenBrowser(a)
      \/ \E a \in Attempt, ok \in BOOLEAN : Redirect(a, ok)
      \/ \E a \in Attempt, l \in Link : Arrive(a, l)
      \/ \E l : Launch(l)
      \/ \E r \in results : Post(r)
  BY DEF Next, AppGoesOn, Exchange, PostFails, SignOut, GoogleLogin, ServerRestart,
         GoogleCallback, vars, app
<1> QED  BY <1>1, <1>2, SaveOnce, KillOnce, BootOnce, OpenOnce, RedirectOnce, ArriveOnce,
            LaunchOnce, PostOnce

\* A code is posted once, with the verifier of the request it answers,
\* whatever kills, relaunches and sign-ins at the same time there are.
THEOREM CodePostedOnce == Spec => []CodesMatchOnce
<1>1. OnceInv /\ [Next]_vars => OnceInv'
  BY StepOnce
<1>2. OnceInv => CodesMatchOnce
  <2>1. OnceInv => DOMAIN posted = 1 .. Len(posted)
    BY DEF OnceInv, Types
  <2> QED  BY <2>1 DEF OnceInv, Matched, Exclusive, CodesMatchOnce
<1> QED  BY InitOnce, <1>1, <1>2, PTL DEF Spec

-----------------------------------------------------------------------------
\* The browser flow.

\* The logins of which something is known are those that were made.
StateInv ==
  /\ logins \in 0 .. MaxLogins
  /\ states \cup closed \subseteq 1 .. logins

LEMMA StepState == ASSUME StateInv, [Next]_vars PROVE StateInv'
<1> USE SignInAssumption
<1>1. CASE GoogleLogin
  <2>1. Room \subseteq states
    BY DEF Room, WithoutOldest
  <2> QED  BY <1>1, <2>1 DEF GoogleLogin, StateInv
<1>2. CASE states' \cup closed' \subseteq states \cup closed /\ logins' = logins
  BY <1>2 DEF StateInv
<1>3. GoogleLogin \/ (states' \cup closed' \subseteq states \cup closed /\ logins' = logins)
  BY DEF Next, AppGoesOn, vars, browser, app, Boot, Arrive, Post, Exchange, PostFails,
         SavePending, Kill, SignOut, OpenBrowser, Redirect, Launch, GoogleCallback,
         ServerRestart
<1> QED  BY <1>1, <1>2, <1>3

\* A set of logins that is not empty has an oldest one.
LEMMA HasOldest ==
  ASSUME NEW S \in SUBSET Nat, S # {}
  PROVE  \E m \in S : \A r \in S : m <= r
<1>1. PICK m \in S : \A r \in S : ~(<<r, m>> \in OpToRel(<, Nat))
  BY NatLessThanWellFounded, WFMin
<1>2. \A r \in S : ~(r < m)
  BY <1>1 DEF OpToRel
<1> QED  BY <1>2

\* Room is made for one more state.
LEMMA RoomForOne ==
  ASSUME states \subseteq Nat, IsFiniteSet(states), Cardinality(states) <= MaxStates
  PROVE  /\ Room \subseteq states /\ IsFiniteSet(Room)
         /\ Cardinality(Room) \in Nat /\ Cardinality(Room) + 1 <= MaxStates
<1> USE SignInAssumption
<1>1. Room \subseteq states
  BY DEF Room, WithoutOldest
<1>2. IsFiniteSet(Room) /\ Cardinality(Room) \in Nat /\ Cardinality(states) \in Nat
  BY <1>1, FS_Subset, FS_CardinalityType
<1>3. CASE Cardinality(states) < MaxStates
  <2>1. Room = states
    BY <1>2, <1>3 DEF Room
  <2> QED  BY <1>1, <1>2, <1>3, <2>1
<1>4. CASE Cardinality(states) >= MaxStates
  <2>1. Room = WithoutOldest /\ states # {}
    BY <1>2, <1>4, FS_EmptySet DEF Room
  <2>2. PICK m \in states : \A r \in states : m <= r
    BY <2>1, HasOldest
  <2>3. Room \subseteq states \ {m}
    BY <2>1, <2>2 DEF WithoutOldest
  <2>4. /\ IsFiniteSet(states \ {m})
        /\ Cardinality(states \ {m}) = Cardinality(states) - 1
    BY <2>2, FS_RemoveElement
  <2>5. Cardinality(Room) <= Cardinality(states \ {m})
    BY <2>3, <2>4, FS_Subset
  <2> QED  BY <1>1, <1>2, <2>4, <2>5
<1> QED  BY <1>2, <1>3, <1>4

\* What abandoned logins leave behind is bounded.
Bounded == IsFiniteSet(states) /\ Cardinality(states) <= MaxStates

LEMMA StepBounded == ASSUME Bounded, StateInv, [Next]_vars PROVE Bounded'
<1> USE SignInAssumption
<1>1. states \subseteq Nat
  BY DEF StateInv
<1>2. CASE GoogleLogin
  <2>1. states' = Room \cup {logins'}
    BY <1>2 DEF GoogleLogin
  <2>2. /\ IsFiniteSet(states')
        /\ Cardinality(states') \in {Cardinality(Room), Cardinality(Room) + 1}
    BY <1>1, <2>1, RoomForOne, FS_AddElement DEF Bounded
  <2> QED  BY <1>1, <2>2, RoomForOne DEF Bounded
<1>3. CASE states' \subseteq states
  <2>1. /\ IsFiniteSet(states') /\ Cardinality(states') <= Cardinality(states)
        /\ Cardinality(states) \in Nat /\ Cardinality(states') \in Nat
    BY <1>3, FS_Subset, FS_CardinalityType DEF Bounded
  <2> QED  BY <2>1 DEF Bounded
<1>4. GoogleLogin \/ states' \subseteq states
  BY DEF Next, AppGoesOn, vars, browser, app, Boot, Arrive, Post, Exchange, PostFails,
         SavePending, Kill, SignOut, OpenBrowser, Redirect, Launch, GoogleCallback,
         ServerRestart
<1> QED  BY <1>2, <1>3, <1>4

\* A state that makes room is followed by as many logins as there is room for.
LEMMA EvictedIsOld ==
  ASSUME StateInv, Bounded, NEW l \in states, l \notin Room
  PROVE  logins - l + 1 >= MaxStates
<1> USE SignInAssumption
<1>1. l \in 1 .. logins /\ logins \in Nat
  BY DEF StateInv
<1>2. Cardinality(states) >= MaxStates /\ Room = WithoutOldest
  BY DEF Room
<1>3. \A r \in states : ~(r < l)
  BY <1>2 DEF WithoutOldest
<1>4. states \subseteq l .. logins
  BY <1>1, <1>3 DEF StateInv
<1>5. /\ IsFiniteSet(l .. logins)
      /\ Cardinality(l .. logins) = logins - l + 1
  BY <1>1, FS_Interval
<1>6. Cardinality(states) <= Cardinality(l .. logins) /\ Cardinality(states) \in Nat
  BY <1>4, <1>5, FS_Subset, FS_CardinalityType DEF Bounded
<1> QED  BY <1>1, <1>2, <1>5, <1>6

LEMMA StepRecent ==
  ASSUME RecentLoginsKept, StateInv, Bounded, [Next]_vars
  PROVE  RecentLoginsKept'
<1> USE SignInAssumption
<1>1. CASE GoogleLogin
  <2>1. /\ states' = Room \cup {logins'} /\ logins' = logins + 1 /\ closed' = closed
        /\ logins \in Nat
    BY <1>1 DEF GoogleLogin, StateInv
  <2>2. ASSUME NEW l \in 1 .. logins', logins' - l < MaxStates
        PROVE  l \in states' \cup closed'
    <3>1. CASE l = logins'
      BY <2>1, <3>1
    <3>2. CASE l # logins'
      <4>1. l \in 1 .. logins /\ logins - l < MaxStates /\ logins - l + 1 < MaxStates
        BY <2>1, <2>2, <3>2
      <4>2. l \in states \cup closed
        BY <4>1 DEF RecentLoginsKept
      <4>3. ASSUME l \in states, l \notin Room PROVE FALSE
        <5>1. logins - l + 1 >= MaxStates
          BY <4>3, EvictedIsOld
        <5>2. logins - l \in Int
          BY <2>1, <4>1
        <5> QED  BY <4>1, <5>1, <5>2
      <4> QED  BY <2>1, <4>2, <4>3
    <3> QED  BY <3>1, <3>2
  <2> QED  BY <2>2 DEF RecentLoginsKept
<1>2. CASE states' \cup closed' = states \cup closed /\ logins' = logins
  BY <1>2 DEF RecentLoginsKept
<1>3. GoogleLogin \/ (states' \cup closed' = states \cup closed /\ logins' = logins)
  BY DEF Next, AppGoesOn, vars, browser, app, Boot, Arrive, Post, Exchange, PostFails,
         SavePending, Kill, SignOut, OpenBrowser, Redirect, Launch, GoogleCallback,
         ServerRestart
<1> QED  BY <1>1, <1>2, <1>3

\* A login of the browser flow that fewer logins have followed than there is room
\* for can still be completed, for any number of logins and any room, unless its
\* callback has come or the server has restarted (RecentLoginsKept).
THEOREM RecentLogins == Spec => []RecentLoginsKept
<1>1. Init => StateInv /\ Bounded /\ RecentLoginsKept
  BY SignInAssumption, FS_EmptySet DEF Init, StateInv, Bounded, RecentLoginsKept
<1>2. (StateInv /\ Bounded /\ RecentLoginsKept) /\ [Next]_vars
        => (StateInv /\ Bounded /\ RecentLoginsKept)'
  BY StepState, StepBounded, StepRecent
<1> QED  BY <1>1, <1>2, PTL DEF Spec

-----------------------------------------------------------------------------
\* Types.

\* The part of the types the path of a code does not need.
RestTypes ==
  /\ running \in {"dead", "booting", "up"} /\ jwt \in BOOLEAN
  /\ posts \subseteq [code : Attempt, verifier : Attempt, live : BOOLEAN]
  /\ used \subseteq Attempt

LEMMA StepRest == ASSUME RestTypes, Types, [Next]_vars PROVE RestTypes'
<1> USE DEF RestTypes
<1>1. CASE UNCHANGED <<running, jwt, posts, used>>
  BY <1>1
<1>2. CASE /\ running' \in {"dead", "booting", "up"}
           /\ UNCHANGED <<jwt, posts, used>>
  BY <1>2
<1>3. CASE Kill
  <2>1. /\ posts' = {[p EXCEPT !.live = FALSE] : p \in posts} /\ running' = "dead"
        /\ UNCHANGED <<jwt, used>>
    BY <1>3 DEF Kill
  <2> QED  BY <2>1
<1>4. ASSUME NEW r \in results, Post(r) PROVE RestTypes'
  <2>1. r.code \in Attempt /\ r.verifier \in Attempt
    BY DEF Types, Code
  <2>2. /\ posts' = posts \cup {[code |-> r.code, verifier |-> r.verifier, live |-> TRUE]}
        /\ UNCHANGED <<running, jwt, used>>
    BY <1>4 DEF Post
  <2>3. [code |-> r.code, verifier |-> r.verifier, live |-> TRUE]
          \in [code : Attempt, verifier : Attempt, live : BOOLEAN]
    BY <2>1
  <2>4. posts' \subseteq [code : Attempt, verifier : Attempt, live : BOOLEAN]
    BY <2>2, <2>3, Zenon
  <2> QED  BY <2>2, <2>4, Zenon
<1>5. ASSUME NEW p \in posts, Exchange(p) \/ PostFails(p) PROVE RestTypes'
  <2>1. /\ posts' = posts \ {p} /\ used' \subseteq used \cup {p.code} /\ UNCHANGED running
    BY <1>5 DEF Exchange, PostFails, app
  <2>2. p.code \in Attempt
    OBVIOUS
  <2>3. used' \subseteq Attempt
    BY <2>1, <2>2
  <2>4. posts' \subseteq [code : Attempt, verifier : Attempt, live : BOOLEAN]
    BY <2>1, Zenon
  <2>5. jwt' \in BOOLEAN
    BY <1>5, Zenon DEF Exchange, PostFails, app
  <2>6. running' \in {"dead", "booting", "up"}
    BY <2>1, Zenon
  <2> QED  BY <2>3, <2>4, <2>5, <2>6, Zenon
<1>6. CASE SignOut
  <2>1. jwt' = FALSE /\ UNCHANGED <<running, posts, used>>
    BY <1>6 DEF SignOut
  <2>2. jwt' \in BOOLEAN
    BY <2>1, Zenon
  <2> QED  BY <2>1, <2>2
<1>7. \/ UNCHANGED <<running, jwt, posts, used>>
      \/ running' \in {"dead", "booting", "up"} /\ UNCHANGED <<jwt, posts, used>>
      \/ Kill \/ SignOut
      \/ \E r \in results : Post(r)
      \/ \E p \in posts : Exchange(p) \/ PostFails(p)
  BY DEF Next, AppGoesOn, vars, app, browser, Boot, Arrive, SavePending, OpenBrowser,
         Redirect, Launch, GoogleLogin, ServerRestart, GoogleCallback
<1> QED  BY <1>1, <1>2, <1>3, <1>4, <1>5, <1>6, <1>7

\* GoogleSignIn is type correct, and the table of pending states of
\* auth/oauth.py stays within its room, whatever logins are abandoned (TypeOK).
THEOREM TypeCorrect == Spec => []TypeOK
<1> USE SignInAssumption
<1>1. Init => OnceInv /\ StateInv /\ Bounded /\ RestTypes
  <2>1. Init => StateInv
    BY DEF Init, StateInv
  <2>2. Init => Bounded
    BY FS_EmptySet DEF Init, Bounded
  <2>3. Init => RestTypes
    BY DEF Init, RestTypes
  <2> QED  BY <2>1, <2>2, <2>3, InitOnce
<1>2. (OnceInv /\ StateInv /\ Bounded /\ RestTypes) /\ [Next]_vars
        => (OnceInv /\ StateInv /\ Bounded /\ RestTypes)'
  BY StepOnce, StepState, StepBounded, StepRest DEF OnceInv
<1>3. OnceInv /\ StateInv /\ Bounded /\ RestTypes => TypeOK
  <2> SUFFICES ASSUME Types, StateInv, Bounded, RestTypes PROVE TypeOK
    BY DEF OnceInv
  <2>1. /\ 1 .. started \subseteq Attempt /\ 0 .. started \subseteq Attempt \cup {NoAttempt}
        /\ 1 .. logins \subseteq Login
    BY DEF Types, StateInv, Attempt, Login, NoAttempt
  <2> QED  BY <2>1 DEF Types, StateInv, Bounded, RestTypes, TypeOK, Code
<1> QED  BY <1>1, <1>2, <1>3, PTL DEF Spec
=============================================================================
