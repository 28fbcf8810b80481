------------------------ MODULE CredentialsStrayProofs ------------------------
(***************************************************************************)
(* Why a credential without a mailbox is there, for any users, addresses,  *)
(* providers and number of requests in flight: StrayIsExplained.  The      *)
(* argument follows every pair through the requests at work on it.  A      *)
(* kept credential has its mailbox, is known to be stray, or some request  *)
(* that connects is still to give it one or to erase it (Kept); and what a *)
(* removal is about to mark as removed is erased by then, or known to be   *)
(* stray (Gone).                                                           *)
(***************************************************************************)
EXTENDS CredentialsCacheProofs

Establishing == {"find", "claim", "admit", "commit"}
Final == {"tombstone", "sever"}
Purging == {"inspect", "fill", "drop", "erase"}

\* The steps that may come later than a step s of a request that connects.
After(s) ==
  IF s = "account" THEN Establishing \cup {"put", "fill"}
  ELSE IF s \in {"put", "fill"} THEN Establishing \cup {"fill", "account"}
  ELSE IF s \in {"find", "claim", "admit"} THEN {"claim", "admit", "commit", "put", "fill"}
  ELSE IF s = "commit" THEN {"put", "fill"}
  ELSE {"drop", "erase", "put", "fill"}

Ordered(p) == \A j, k \in 1 .. Len(p) : j < k => p[k].do \in After(p[j].do)

\* All steps but erasures are about the pair x.
About(p, x) == \A d \in ToSet(p) :
  d.do \in Establishing \cup {"put", "switch"} => d.at = x

Does(p, s) == \E d \in ToSet(p) : d.do = s
Has(p, s, x) == \E d \in ToSet(p) : d.do = s /\ d.at = x

\* A request that moves its mailbox to x erases the credentials of the others.
Cleans(p) == p # <<>> /\ p[1].do = "switch" =>
  \A q \in Providers \ {p[1].at[2]} : Has(p, "erase", <<p[1].at[1], q>>)

Attaches(r) ==
  /\ Ordered(r.plan) /\ Cleans(r.plan)
  /\ \E x \in Pair : About(r.plan, x)
  /\ Does(r.plan, "find") => r.row = NoRow
  /\ Does(r.plan, "switch") => r.row # NoRow

\* An erasure at x comes before the step that removes the mailbox.
Ahead(p, x) == \E j, k \in 1 .. Len(p) :
  j < k /\ p[j].do = "erase" /\ p[j].at = x /\ p[k].do \in Final

\* One removal ends a plan, after its loop; a purge is a block on one address.
Ends(p) == \A k \in 1 .. Len(p) :
  /\ p[k].do \in Final =>
       \A j \in k + 1 .. Len(p) : p[j].do \notin Final \cup {"loop"}
  /\ p[k].do = "loop" => \E j \in k + 1 .. Len(p) : p[j].do \in Final
  /\ p[k].do = "inspect" =>
       /\ k + PurgeEnd <= Len(p)
       /\ \A j \in k .. k + PurgeEnd : p[j].at[1] = p[k].at[1] /\ p[j].do \in Purging

PairOf(row) == <<row.addr, row.prov>>

\* The mailboxes a request is about to mark as removed.
Doomed(r) ==
  IF r.op = "disconnect" THEN {r.row} ELSE IF r.op = "deleteAccount" THEN r.purged ELSE {}

Removes(r, rs) ==
  /\ Ends(r.plan)
  /\ Doomed(r) \subseteq 1 .. Len(rs)
  /\ r.left # {} => Does(r.plan, "loop")
  /\ Does(r.plan, "tombstone") => r.op = "disconnect"
  /\ \A s \in {"loop", "inspect", "sever"} : Does(r.plan, s) => r.op = "deleteAccount"
  /\ r.op \in {"disconnect", "deleteAccount"} => ~Does(r.plan, "put")
  /\ r.op = "disconnect" =>
       /\ r.plan # <<>> /\ r.left = {}
       /\ \A d \in ToSet(r.plan) : d.at[1] = rs[r.row].addr

Shaped(r, rs) ==
  /\ r.op \in Connecting => Attaches(r)
  /\ r.op \notin Connecting => Removes(r, rs)

\* The request has stored x and is still to record its mailbox.
Settles(r, rs, x) ==
  /\ ~Does(r.plan, "put")
  /\ \/ Has(r.plan, "switch", x)
     \/ Has(r.plan, "commit", x) /\ (r.row = NoRow \/ r.seen # x[2] \/ rs[r.row].prov = x[2])

Cares(r, rs, x) ==
  r.op \in Connecting /\ (Settles(r, rs, x) \/ Has(r.plan, "erase", x))

Kept == \A x \in Pair :
  secret[x] # NoGrant => Holds(x) \/ x \in stray \/ \E t \in Task : Cares(task[t], rows, x)

\* The credential at x will be gone, or known to be stray, when r has removed
\* its mailbox.
Known(r, sec, str, x) ==
  \/ sec[x] = NoGrant \/ x \in str
  \/ Ahead(r.plan, x) \/ \E m \in r.left : m.at[1] = x[1]

Gone == \A t \in Task : \A i \in Doomed(task[t]) :
  Known(task[t], secret, stray, PairOf(rows[i]))

ShapeInv == \A t \in Task : Shaped(task[t], rows)

StrayInv == ShapeInv /\ Kept /\ Gone

-----------------------------------------------------------------------------
\* Plans.

LEMMA StepsOf ==
  ASSUME NEW p \in Seq(Part)
  PROVE  /\ Len(p) \in Nat /\ DOMAIN p = 1 .. Len(p)
         /\ ToSet(p) = {p[k] : k \in 1 .. Len(p)} /\ ToSet(p) \subseteq Part
         /\ p # <<>> => 1 \in 1 .. Len(p) /\ p[1] \in ToSet(p)
<1>1. Len(p) \in Nat /\ DOMAIN p = 1 .. Len(p) BY LenProperties
<1>2. ToSet(p) = {p[k] : k \in 1 .. Len(p)} BY <1>1 DEF ToSet
<1>3. \A k \in 1 .. Len(p) : p[k] \in Part BY ElementOfSeq
<1>4. p # <<>> => Len(p) # 0 BY EmptySeq
<1> QED BY <1>1, <1>2, <1>3, <1>4

\* What is left of p after n steps.
Rest(p, n, q) == q = SubSeq(p, n + 1, Len(p))

LEMMA TailIsRest ==
  ASSUME NEW p \in Seq(Part), p # <<>>
  PROVE  Rest(p, 1, Tail(p))
<1>1. Tail(p) = SubSeq(p, 2, Len(p)) BY TailIsSubSeq
<1> QED BY <1>1 DEF Rest

LEMMA CutSteps ==
  ASSUME NEW p \in Seq(Part), NEW n \in Nat, NEW q, Rest(p, n, q)
  PROVE  /\ q \in Seq(Part) /\ Len(q) \in Nat
         /\ Len(q) = IF n < Len(p) THEN Len(p) - n ELSE 0
         /\ \A k \in 1 .. Len(q) : k + n \in 1 .. Len(p) /\ q[k] = p[k + n]
         /\ \A k \in 1 .. Len(p) : k > n => k - n \in 1 .. Len(q) /\ q[k - n] = p[k]
         /\ ToSet(q) \subseteq ToSet(p)
         /\ \A d \in ToSet(p) : d \in ToSet(q) \/ \E k \in 1 .. Len(p) : k <= n /\ d = p[k]
<1>1. Len(p) \in Nat BY LenProperties
<1>2. \A i \in n + 1 .. Len(p) : p[i] \in Part BY <1>1, ElementOfSeq
<1>3. /\ q \in Seq(Part)
      /\ Len(q) = IF n + 1 <= Len(p) THEN Len(p) - (n + 1) + 1 ELSE 0
      /\ \A i \in 1 .. Len(p) - (n + 1) + 1 : q[i] = p[n + 1 + i - 1]
  BY <1>1, <1>2, SubSeqProperties DEF Rest
<1>4. \A i \in 1 .. Len(p) - n : q[i] = p[n + i] BY <1>1, <1>3
<1>5. Len(q) = IF n < Len(p) THEN Len(p) - n ELSE 0 BY <1>1, <1>3
<1>6. \A k \in 1 .. Len(q) : k + n \in 1 .. Len(p) /\ q[k] = p[k + n] BY <1>1, <1>4, <1>5
<1>7. \A k \in 1 .. Len(p) : k > n => k - n \in 1 .. Len(q) /\ q[k - n] = p[k]
  BY <1>1, <1>4, <1>5
<1>10. /\ ToSet(q) = {q[k] : k \in 1 .. Len(q)}
       /\ ToSet(p) = {p[k] : k \in 1 .. Len(p)}
  BY <1>3, StepsOf
<1>8. ToSet(q) \subseteq ToSet(p) BY <1>6, <1>10
<1>9. \A d \in ToSet(p) : d \in ToSet(q) \/ \E k \in 1 .. Len(p) : k <= n /\ d = p[k]
  <2> SUFFICES ASSUME NEW k \in 1 .. Len(p)
               PROVE  p[k] \in ToSet(q) \/ k <= n
    BY <1>10
  <2>1. k > n => k - n \in 1 .. Len(q) /\ q[k - n] = p[k] BY <1>7
  <2>2. k > n => p[k] \in ToSet(q) BY <1>10, <2>1
  <2> QED BY <1>1, <2>2
<1> QED BY <1>1, <1>3, <1>5, <1>6, <1>7, <1>8, <1>9

\* ... and after the first.
LEMMA CutOne ==
  ASSUME NEW p \in Seq(Part), NEW q, Rest(p, 1, q)
  PROVE  /\ q \in Seq(Part) /\ ToSet(q) \subseteq ToSet(p)
         /\ \A d \in ToSet(p) : d \in ToSet(q) \/ d = p[1]
         /\ \A j \in 1 .. Len(q) : j + 1 \in 1 .. Len(p) /\ q[j] = p[j + 1]
<1> DEFINE n == 1
<1>1. Rest(p, n, q) /\ n \in Nat OBVIOUS
<1> HIDE DEF n
<1>2. /\ q \in Seq(Part) /\ ToSet(q) \subseteq ToSet(p)
      /\ \A d \in ToSet(p) : d \in ToSet(q) \/ \E k \in 1 .. Len(p) : k <= n /\ d = p[k]
      /\ \A j \in 1 .. Len(q) : j + n \in 1 .. Len(p) /\ q[j] = p[j + n]
  BY <1>1, CutSteps
<1>3. \A k \in 1 .. Len(p) : k <= n => k = 1 BY DEF n
<1>4. \A d \in ToSet(p) : d \in ToSet(q) \/ d = p[1] BY <1>2, <1>3
<1> QED BY <1>2, <1>4 DEF n

\* ... and after the four of ensure_connection.
LEMMA CutFour ==
  ASSUME NEW p \in Seq(Part), NEW q, Rest(p, 4, q)
  PROVE  /\ q \in Seq(Part) /\ ToSet(q) \subseteq ToSet(p)
         /\ \A k \in 1 .. Len(q) : k + 4 \in 1 .. Len(p) /\ q[k] = p[k + 4]
<1> DEFINE n == 4
<1>1. Rest(p, n, q) /\ n \in Nat OBVIOUS
<1> HIDE DEF n
<1>2. /\ q \in Seq(Part) /\ ToSet(q) \subseteq ToSet(p)
      /\ \A k \in 1 .. Len(q) : k + n \in 1 .. Len(p) /\ q[k] = p[k + n]
  BY <1>1, CutSteps
<1> QED BY <1>2 DEF n

LEMMA JoinSteps ==
  ASSUME NEW p \in Seq(Part), NEW q \in Seq(Part)
  PROVE  /\ p \o q \in Seq(Part) /\ Len(p \o q) = Len(p) + Len(q)
         /\ Len(p) \in Nat /\ Len(q) \in Nat
         /\ \A k \in 1 .. Len(p) : (p \o q)[k] = p[k]
         /\ \A k \in 1 .. Len(q) : (p \o q)[k + Len(p)] = q[k]
         /\ \A k \in 1 .. Len(p) + Len(q) : k > Len(p) =>
              k - Len(p) \in 1 .. Len(q) /\ (p \o q)[k] = q[k - Len(p)]
         /\ ToSet(p \o q) = ToSet(p) \cup ToSet(q)
<1> DEFINE j == p \o q
<1>1. Len(p) \in Nat /\ Len(q) \in Nat BY LenProperties
<1>2. /\ j \in Seq(Part) /\ Len(j) = Len(p) + Len(q)
      /\ \A k \in 1 .. Len(p) + Len(q) :
           j[k] = IF k <= Len(p) THEN p[k] ELSE q[k - Len(p)]
  BY ConcatProperties
<1> HIDE DEF j
<1>3. \A k \in 1 .. Len(p) : k \in 1 .. Len(j) /\ j[k] = p[k] BY <1>1, <1>2
<1>4. \A k \in 1 .. Len(q) : k + Len(p) \in 1 .. Len(j) /\ j[k + Len(p)] = q[k]
  <2> TAKE k \in 1 .. Len(q)
  <2>1. k + Len(p) \in 1 .. Len(j) /\ ~(k + Len(p) <= Len(p)) /\ k + Len(p) - Len(p) = k
    BY <1>1, <1>2
  <2> QED BY <1>2, <2>1
<1>5. \A k \in 1 .. Len(p) + Len(q) : k > Len(p) =>
        k - Len(p) \in 1 .. Len(q) /\ j[k] = q[k - Len(p)]
  BY <1>1, <1>2
<1>6. ToSet(j) = ToSet(p) \cup ToSet(q)
  <2>1. /\ ToSet(j) = {j[k] : k \in 1 .. Len(j)}
        /\ ToSet(p) = {p[k] : k \in 1 .. Len(p)}
        /\ ToSet(q) = {q[k] : k \in 1 .. Len(q)}
    BY <1>2, StepsOf
  <2>2. \A k \in 1 .. Len(j) : j[k] \in ToSet(p) \cup ToSet(q)
    BY <1>1, <1>2, <1>3, <1>5, <2>1
  <2>3. ToSet(p) \subseteq ToSet(j) BY <1>3, <2>1
  <2>4. ToSet(q) \subseteq ToSet(j) BY <1>4, <2>1
  <2> QED BY <2>1, <2>2, <2>3, <2>4
<1> QED BY <1>1, <1>2, <1>3, <1>4, <1>5, <1>6 DEF j

\* No step of a request that connects comes before its switch.
LEMMA SwitchFirst == \A s : "switch" \notin After(s)
BY DEF After, Establishing

\* What is left of a plan keeps its shape.
LEMMA CutShape ==
  ASSUME NEW p \in Seq(Part), NEW n \in Nat, NEW q, Rest(p, n, q)
  PROVE  /\ Ordered(p) => Ordered(q) /\ (n > 0 => Cleans(q))
         /\ \A x : About(p, x) => About(q, x)
         /\ Ends(p) => Ends(q)
         /\ \A x : Ahead(p, x) =>
              Ahead(q, x) \/ \E k \in 1 .. Len(p) : k <= n /\ p[k].do = "erase" /\ p[k].at = x
<1>1. /\ q \in Seq(Part) /\ Len(q) \in Nat /\ Len(p) \in Nat
      /\ Len(q) = IF n < Len(p) THEN Len(p) - n ELSE 0
      /\ \A k \in 1 .. Len(q) : k + n \in 1 .. Len(p) /\ q[k] = p[k + n]
      /\ \A k \in 1 .. Len(p) : k > n => k - n \in 1 .. Len(q) /\ q[k - n] = p[k]
      /\ ToSet(q) \subseteq ToSet(p)
  <2>1. Len(p) \in Nat BY LenProperties
  <2> QED BY <2>1, CutSteps
<1>2. ASSUME Ordered(p) PROVE Ordered(q)
  <2> SUFFICES ASSUME NEW j \in 1 .. Len(q), NEW k \in 1 .. Len(q), j < k
               PROVE  q[k].do \in After(q[j].do)
    BY DEF Ordered
  <2>1. j + n < k + n BY <1>1
  <2>2. j + n \in 1 .. Len(p) /\ q[j] = p[j + n] BY <1>1
  <2>3. k + n \in 1 .. Len(p) /\ q[k] = p[k + n] BY <1>1
  <2>4. p[k + n].do \in After(p[j + n].do) BY <1>2, <2>1, <2>2, <2>3 DEF Ordered
  <2> QED BY <2>2, <2>3, <2>4
<1>3. ASSUME Ordered(p), n > 0 PROVE Cleans(q)
  <2> SUFFICES ASSUME q # <<>> PROVE q[1].do # "switch" BY DEF Cleans
  <2>1. 1 \in 1 .. Len(q) BY <1>1, StepsOf
  <2>2. 1 + n \in 1 .. Len(p) /\ q[1] = p[1 + n] BY <1>1, <2>1
  <2>3. 1 \in 1 .. Len(p) /\ 1 < 1 + n BY <1>3, <2>2
  <2>4. p[1 + n].do \in After(p[1].do) BY <1>3, <2>2, <2>3 DEF Ordered
  <2> QED BY <2>2, <2>4, SwitchFirst
<1>4. ASSUME Ends(p) PROVE Ends(q)
  <2> SUFFICES ASSUME NEW k \in 1 .. Len(q)
               PROVE  /\ q[k].do \in Final =>
                           \A j \in k + 1 .. Len(q) : q[j].do \notin Final \cup {"loop"}
                      /\ q[k].do = "loop" => \E j \in k + 1 .. Len(q) : q[j].do \in Final
                      /\ q[k].do = "inspect" =>
                           /\ k + PurgeEnd <= Len(q)
                           /\ \A j \in k .. k + PurgeEnd :
                                q[j].at[1] = q[k].at[1] /\ q[j].do \in Purging
    BY DEF Ends
  <2>1. k + n \in 1 .. Len(p) /\ q[k] = p[k + n] BY <1>1
  <2>2. \A j \in k + 1 .. Len(q) : j + n \in k + n + 1 .. Len(p) /\ q[j] = p[j + n]
    <3> TAKE j \in k + 1 .. Len(q)
    <3>1. j \in 1 .. Len(q) BY <1>1
    <3>2. j + n \in 1 .. Len(p) /\ q[j] = p[j + n] BY <1>1, <3>1
    <3> QED BY <1>1, <3>2
  <2>3. ASSUME NEW j \in k + n + 1 .. Len(p)
        PROVE  j - n \in k + 1 .. Len(q) /\ q[j - n] = p[j]
    <3>1. j \in 1 .. Len(p) /\ j > n BY <1>1
    <3>2. j - n \in 1 .. Len(q) /\ q[j - n] = p[j] BY <1>1, <3>1
    <3> QED BY <1>1, <3>2
  <2>4. q[k].do \in Final => \A j \in k + 1 .. Len(q) : q[j].do \notin Final \cup {"loop"}
    BY <1>4, <2>1, <2>2 DEF Ends
  <2>5. q[k].do = "loop" => \E j \in k + 1 .. Len(q) : q[j].do \in Final
    <3> SUFFICES ASSUME q[k].do = "loop" PROVE \E j \in k + 1 .. Len(q) : q[j].do \in Final
      OBVIOUS
    <3>1. PICK j \in k + n + 1 .. Len(p) : p[j].do \in Final BY <1>4, <2>1 DEF Ends
    <3>2. j - n \in k + 1 .. Len(q) /\ q[j - n] = p[j] BY <2>3
    <3> QED BY <3>1, <3>2
  <2>6. ASSUME q[k].do = "inspect"
        PROVE  /\ k + PurgeEnd <= Len(q)
               /\ \A j \in k .. k + PurgeEnd :
                    q[j].at[1] = q[k].at[1] /\ q[j].do \in Purging
    <3>1. /\ k + n + PurgeEnd <= Len(p)
          /\ \A j \in k + n .. k + n + PurgeEnd :
               p[j].at[1] = p[k + n].at[1] /\ p[j].do \in Purging
      BY <1>4, <2>1, <2>6 DEF Ends
    <3>2. k + PurgeEnd <= Len(q) BY <1>1, <3>1, PurgeEndNat
    <3>3. ASSUME NEW j \in k .. k + PurgeEnd
          PROVE  j \in 1 .. Len(q) /\ j + n \in k + n .. k + n + PurgeEnd
      BY <1>1, <3>2, PurgeEndNat
    <3>4. \A j \in k .. k + PurgeEnd : q[j] = p[j + n] BY <1>1, <3>3
    <3> QED BY <2>1, <3>1, <3>2, <3>3, <3>4
  <2> QED BY <2>4, <2>5, <2>6
<1>5. ASSUME NEW x, Ahead(p, x)
      PROVE  Ahead(q, x) \/ \E k \in 1 .. Len(p) : k <= n /\ p[k].do = "erase" /\ p[k].at = x
  <2>1. PICK j, k \in 1 .. Len(p) :
               j < k /\ p[j].do = "erase" /\ p[j].at = x /\ p[k].do \in Final
    BY <1>5 DEF Ahead
  <2>2. CASE j <= n BY <2>1, <2>2
  <2>3. CASE j > n
    <3>1. j - n \in 1 .. Len(q) /\ q[j - n] = p[j] BY <1>1, <2>3
    <3>2. k > n BY <2>1, <2>3
    <3>3. k - n \in 1 .. Len(q) /\ q[k - n] = p[k] BY <1>1, <3>2
    <3>4. j - n < k - n BY <2>1
    <3> QED BY <2>1, <3>1, <3>3, <3>4 DEF Ahead
  <2> QED BY <2>2, <2>3
<1>6. \A x : About(p, x) => About(q, x) BY <1>1 DEF About
<1> QED BY <1>2, <1>3, <1>4, <1>5, <1>6

LEMMA OneLine ==
  ASSUME NEW s \in Parts, NEW x \in Pair
  PROVE  /\ Do(s, x) \in Seq(Part) /\ Len(Do(s, x)) = 1
         /\ Do(s, x)[1].do = s /\ Do(s, x)[1].at = x
         /\ ToSet(Do(s, x)) = {Do(s, x)[1]}
<1>1. /\ Do(s, x) \in Seq(Part) /\ Len(Do(s, x)) = 1
      /\ Do(s, x)[1].do = s /\ Do(s, x)[1].at = x
  BY OneStep
<1>2. ToSet(Do(s, x)) = {Do(s, x)[k] : k \in 1 .. 1} BY <1>1, StepsOf
<1>3. 1 .. 1 = {1} OBVIOUS
<1> QED BY <1>1, <1>2, <1>3

\* A plan of steps D on x, in an order that a request that connects may have.
Line(p, D, x) ==
  p \in Seq(Part) /\ Ordered(p) /\ \A d \in ToSet(p) : d.do \in D /\ d.at = x

LEMMA LineOf ==
  ASSUME NEW s \in Parts, NEW x \in Pair
  PROVE  Line(Do(s, x), {s}, x)
BY OneLine DEF Line, Ordered

LEMMA JoinOrdered ==
  ASSUME NEW p \in Seq(Part), NEW q \in Seq(Part), Ordered(p), Ordered(q),
         \A c \in ToSet(p), d \in ToSet(q) : d.do \in After(c.do)
  PROVE  Ordered(p \o q)
<1> DEFINE w == p \o q
<1>1. /\ Len(w) = Len(p) + Len(q)
      /\ Len(p) \in Nat /\ Len(q) \in Nat
      /\ \A k \in 1 .. Len(p) : w[k] = p[k]
      /\ \A k \in 1 .. Len(p) + Len(q) : k > Len(p) =>
           k - Len(p) \in 1 .. Len(q) /\ w[k] = q[k - Len(p)]
  BY JoinSteps
<1> HIDE DEF w
<1>2. /\ \A k \in 1 .. Len(p) : p[k] \in ToSet(p)
      /\ \A k \in 1 .. Len(q) : q[k] \in ToSet(q)
  BY StepsOf
<1>3. SUFFICES ASSUME NEW j \in 1 .. Len(w), NEW k \in 1 .. Len(w), j < k
               PROVE  w[k].do \in After(w[j].do)
  BY DEF Ordered, w
<1>4. CASE k <= Len(p)
  <2>1. j \in 1 .. Len(p) /\ k \in 1 .. Len(p) BY <1>1, <1>3, <1>4
  <2> QED BY <1>1, <1>3, <2>1 DEF Ordered
<1>5. CASE j <= Len(p) /\ k > Len(p)
  <2>1. j \in 1 .. Len(p) /\ w[j] = p[j] BY <1>1, <1>5
  <2>2. k - Len(p) \in 1 .. Len(q) /\ w[k] = q[k - Len(p)] BY <1>1, <1>5
  <2> QED BY <1>2, <2>1, <2>2
<1>6. CASE j > Len(p)
  <2>1. j - Len(p) \in 1 .. Len(q) /\ w[j] = q[j - Len(p)] BY <1>1, <1>6
  <2>2. k > Len(p) BY <1>1, <1>3, <1>6
  <2>3. k - Len(p) \in 1 .. Len(q) /\ w[k] = q[k - Len(p)] BY <1>1, <2>2
  <2>4. j - Len(p) < k - Len(p) BY <1>1, <1>3
  <2> QED BY <2>1, <2>3, <2>4 DEF Ordered
<1> QED BY <1>1, <1>4, <1>5, <1>6

LEMMA JoinLine ==
  ASSUME NEW p, NEW q, NEW D, NEW E, NEW x, Line(p, D, x), Line(q, E, x),
         \A s \in D : E \subseteq After(s)
  PROVE  Line(p \o q, D \cup E, x)
<1>1. p \in Seq(Part) /\ q \in Seq(Part) /\ Ordered(p) /\ Ordered(q) BY DEF Line
<1>2. \A c \in ToSet(p), d \in ToSet(q) : d.do \in After(c.do) BY DEF Line
<1>3. Ordered(p \o q) BY <1>1, <1>2, JoinOrdered
<1>4. p \o q \in Seq(Part) /\ ToSet(p \o q) = ToSet(p) \cup ToSet(q) BY <1>1, JoinSteps
<1> QED BY <1>3, <1>4 DEF Line

\* The plans of the requests that connect are ordered, and about one pair.
LEMMA ConnectLines ==
  ASSUME NEW x \in Pair
  PROVE  LET D == Establishing \cup {"account", "put", "fill"} IN
         /\ Line(SignInPlan(x), D, x)
         /\ Line(Store(x) \o Do("account", x) \o Ensure(x), D, x)
         /\ Line(Ensure(x) \o Store(x), D, x)
         /\ Line(Store(x) \o Ensure(x), D, x)
<1>1. /\ "account" \in Parts /\ "put" \in Parts /\ "fill" \in Parts /\ "find" \in Parts
      /\ "claim" \in Parts /\ "admit" \in Parts /\ "commit" \in Parts
  BY DEF Parts, ConnectParts
<1>2. /\ Line(Do("account", x), {"account"}, x) /\ Line(Do("put", x), {"put"}, x)
      /\ Line(Do("fill", x), {"fill"}, x) /\ Line(Do("find", x), {"find"}, x)
      /\ Line(Do("claim", x), {"claim"}, x) /\ Line(Do("admit", x), {"admit"}, x)
      /\ Line(Do("commit", x), {"commit"}, x)
  BY <1>1, LineOf
<1>3. Line(Store(x), {"put"} \cup {"fill"}, x)
  <2>1. \A s \in {"put"} : {"fill"} \subseteq After(s) BY DEF After
  <2> QED BY <1>2, <2>1, JoinLine DEF Store
<1>4. Line(Do("find", x) \o Do("claim", x), {"find"} \cup {"claim"}, x)
  <2>1. \A s \in {"find"} : {"claim"} \subseteq After(s) BY DEF After
  <2> QED BY <1>2, <2>1, JoinLine
<1>5. Line(Do("find", x) \o Do("claim", x) \o Do("admit", x),
           {"find"} \cup {"claim"} \cup {"admit"}, x)
  <2>1. \A s \in {"find"} \cup {"claim"} : {"admit"} \subseteq After(s) BY DEF After
  <2> QED BY <1>2, <1>4, <2>1, JoinLine
<1>6. Line(Ensure(x), {"find"} \cup {"claim"} \cup {"admit"} \cup {"commit"}, x)
  <2>1. \A s \in {"find"} \cup {"claim"} \cup {"admit"} : {"commit"} \subseteq After(s)
    BY DEF After
  <2> QED BY <1>2, <1>5, <2>1, JoinLine DEF Ensure
<1>7. {"find"} \cup {"claim"} \cup {"admit"} \cup {"commit"} = Establishing
  BY DEF Establishing
<1>8. Line(Ensure(x), Establishing, x) BY <1>6, <1>7
<1>9. /\ Establishing \subseteq After("account") /\ Establishing \subseteq After("put")
      /\ Establishing \subseteq After("fill")
      /\ {"put"} \cup {"fill"} \subseteq After("account")
      /\ {"account"} \subseteq After("put") /\ {"account"} \subseteq After("fill")
      /\ \A s \in Establishing : {"put"} \cup {"fill"} \subseteq After(s)
  BY DEF After, Establishing
<1>10. Line(SignInPlan(x), {"account"} \cup ({"put"} \cup {"fill"}) \cup Establishing, x)
  <2>1. Line(Do("account", x) \o Store(x), {"account"} \cup ({"put"} \cup {"fill"}), x)
    BY <1>2, <1>3, <1>9, JoinLine
  <2>2. \A s \in {"account"} \cup ({"put"} \cup {"fill"}) : Establishing \subseteq After(s)
    BY <1>9
  <2> QED BY <1>8, <2>1, <2>2, JoinLine DEF SignInPlan
<1>11. Line(Store(x) \o Do("account", x) \o Ensure(x),
            ({"put"} \cup {"fill"}) \cup {"account"} \cup Establishing, x)
  <2>1. \A s \in {"put"} \cup {"fill"} : {"account"} \subseteq After(s) BY <1>9
  <2>2. Line(Store(x) \o Do("account", x), ({"put"} \cup {"fill"}) \cup {"account"}, x)
    BY <1>2, <1>3, <2>1, JoinLine
  <2>3. \A s \in ({"put"} \cup {"fill"}) \cup {"account"} : Establishing \subseteq After(s)
    BY <1>9
  <2> QED BY <1>8, <2>2, <2>3, JoinLine
<1>12. Line(Ensure(x) \o Store(x), Establishing \cup ({"put"} \cup {"fill"}), x)
  BY <1>3, <1>8, <1>9, JoinLine
<1>13. Line(Store(x) \o Ensure(x), ({"put"} \cup {"fill"}) \cup Establishing, x)
  <2>1. \A s \in {"put"} \cup {"fill"} : Establishing \subseteq After(s) BY <1>9
  <2> QED BY <1>3, <1>8, <2>1, JoinLine
<1> QED BY <1>10, <1>11, <1>12, <1>13 DEF Line

\* The erasures of an address: every provider's, and nothing else.
LEMMA SweepSteps ==
  ASSUME NEW a \in Address, NEW P \in SUBSET Providers, NEW w, w = EraseAll(a, P)
  PROVE  /\ w \in Seq(Part) /\ Len(w) = 2 * Cardinality(P) /\ Cardinality(P) \in Nat
         /\ \A d \in ToSet(w) :
              d.do \in {"drop", "erase"} /\ d.at[1] = a /\ d.at[2] \in P
         /\ \A q \in P : Has(w, "erase", <<a, q>>)
         /\ Ordered(w)
<1> DEFINE n == Cardinality(P)
           f == SetToSeq(P)
<1>1. IsFiniteSet(P)
  <2>1. IsFiniteSet(Providers)
    BY CredentialsAssumption, FS_Singleton, FS_Union DEF Providers
  <2> QED BY <2>1, FS_Subset
<1>2. n \in Nat /\ \E g \in [1 .. n -> P] : IsInjective(g)
  BY <1>1, FS_CardinalityType DEF ExistsBijection, Bijection, Injection
<1>3. f \in [1 .. n -> P] /\ IsInjective(f)
  BY <1>2 DEF SetToSeq
<1>4. w \in Seq(Part) /\ Len(w) = 2 * n
  BY EraseAllWhole DEF Whole
<1> HIDE DEF f
<1>5. \A q \in P : \E i \in 1 .. n : f[i] = q
  <2>1. f \in Injection(1 .. n, P) BY <1>3 DEF Injection
  <2>2. Cardinality(1 .. n) = n
    <3>1. Cardinality(1 .. n) = IF 1 > n THEN 0 ELSE n - 1 + 1 BY <1>2, FS_Interval
    <3> QED BY <1>2, <3>1
  <2>3. f \in Surjection(1 .. n, P) BY <1>1, <2>1, <2>2, FS_Injection
  <2> QED BY <2>3 DEF Surjection
<1> HIDE DEF n
<1>6. w = [k \in 1 .. 2 * n |->
             [do |-> IF k % 2 = 1 THEN "drop" ELSE "erase",
              at |-> <<a, f[(k + 1) \div 2]>>]]
  BY DEF EraseAll, f, n
<1>7. \A k \in 1 .. 2 * n :
        /\ w[k].do = IF k % 2 = 1 THEN "drop" ELSE "erase"
        /\ w[k].at = <<a, f[(k + 1) \div 2]>>
  BY <1>6
<1>8. ToSet(w) = {w[k] : k \in 1 .. 2 * n} BY <1>4, StepsOf
<1>9. \A d \in ToSet(w) : d.do \in {"drop", "erase"} /\ d.at[1] = a /\ d.at[2] \in P
  <2> SUFFICES ASSUME NEW k \in 1 .. 2 * n
               PROVE  w[k].do \in {"drop", "erase"} /\ w[k].at[1] = a /\ w[k].at[2] \in P
    BY <1>8
  <2>1. (k + 1) \div 2 \in 1 .. n BY <1>2
  <2>2. f[(k + 1) \div 2] \in P BY <1>3, <2>1
  <2> QED BY <1>7, <2>2
<1>10. \A q \in P : Has(w, "erase", <<a, q>>)
  <2> TAKE q \in P
  <2>1. PICK i \in 1 .. n : f[i] = q BY <1>5
  <2>2. 2 * i \in 1 .. 2 * n /\ (2 * i) % 2 = 0 /\ (2 * i + 1) \div 2 = i BY <1>2
  <2>3. w[2 * i].do = "erase" /\ w[2 * i].at = <<a, q>> BY <1>7, <2>1, <2>2
  <2>4. w[2 * i] \in ToSet(w) BY <1>8, <2>2
  <2> QED BY <2>3, <2>4 DEF Has
<1>11. Ordered(w)
  <2>1. \A k \in 1 .. Len(w) : w[k] \in ToSet(w) BY <1>4, StepsOf
  <2>2. \A s, s2 \in {"drop", "erase"} : s2 \in After(s) BY DEF After
  <2> QED BY <1>9, <2>1, <2>2 DEF Ordered
<1> QED BY <1>2, <1>4, <1>9, <1>10, <1>11 DEF n

LEMMA QuietEnds ==
  ASSUME NEW p \in Seq(Part),
         \A d \in ToSet(p) : d.do \notin Final \cup {"loop", "inspect"}
  PROVE  Ends(p)
<1>1. \A k \in 1 .. Len(p) : p[k] \in ToSet(p) BY StepsOf
<1> QED BY <1>1 DEF Ends

LEMMA JoinEnds ==
  ASSUME NEW p \in Seq(Part), NEW q \in Seq(Part), Ends(p), Ends(q),
         (\E d \in ToSet(p) : d.do \in Final) =>
           \A d \in ToSet(q) : d.do \notin Final \cup {"loop"}
  PROVE  Ends(p \o q)
<1> DEFINE w == p \o q
           n == Len(p)
<1>1. /\ Len(w) = n + Len(q)
      /\ n \in Nat /\ Len(q) \in Nat
      /\ \A k \in 1 .. n : w[k] = p[k]
      /\ \A k \in 1 .. Len(q) : w[k + n] = q[k]
      /\ \A k \in 1 .. n + Len(q) : k > n => k - n \in 1 .. Len(q) /\ w[k] = q[k - n]
  BY JoinSteps
<1> HIDE DEF w, n
<1>2. /\ \A k \in 1 .. n : p[k] \in ToSet(p)
      /\ \A k \in 1 .. Len(q) : q[k] \in ToSet(q)
  BY StepsOf DEF n
<1>3. SUFFICES ASSUME NEW k \in 1 .. Len(w)
               PROVE  /\ w[k].do \in Final =>
                           \A j \in k + 1 .. Len(w) : w[j].do \notin Final \cup {"loop"}
                      /\ w[k].do = "loop" => \E j \in k + 1 .. Len(w) : w[j].do \in Final
                      /\ w[k].do = "inspect" =>
                           /\ k + PurgeEnd <= Len(w)
                           /\ \A j \in k .. k + PurgeEnd :
                                w[j].at[1] = w[k].at[1] /\ w[j].do \in Purging
  BY DEF Ends, w
<1>4. CASE k <= n
  <2>1. k \in 1 .. n /\ w[k] = p[k] BY <1>1, <1>4
  <2>2. ASSUME w[k].do \in Final, NEW j \in k + 1 .. Len(w)
        PROVE  w[j].do \notin Final \cup {"loop"}
    <3>1. CASE j <= n
      <4>1. j \in k + 1 .. n /\ w[j] = p[j] BY <1>1, <2>1, <3>1
      <4> QED BY <2>1, <2>2, <4>1 DEF Ends, n
    <3>2. CASE j > n
      <4>1. j - n \in 1 .. Len(q) /\ w[j] = q[j - n] BY <1>1, <2>1, <3>2
      <4>2. \E d \in ToSet(p) : d.do \in Final BY <1>2, <2>1, <2>2
      <4> QED BY <1>2, <4>1, <4>2
    <3> QED BY <1>1, <3>1, <3>2
  <2>3. ASSUME w[k].do = "loop" PROVE \E j \in k + 1 .. Len(w) : w[j].do \in Final
    <3>1. PICK j \in k + 1 .. n : p[j].do \in Final BY <2>1, <2>3 DEF Ends, n
    <3>2. j \in 1 .. n /\ j \in k + 1 .. Len(w) BY <1>1, <2>1
    <3> QED BY <1>1, <3>1, <3>2
  <2>4. ASSUME w[k].do = "inspect"
        PROVE  /\ k + PurgeEnd <= Len(w)
               /\ \A j \in k .. k + PurgeEnd :
                    w[j].at[1] = w[k].at[1] /\ w[j].do \in Purging
    <3>1. /\ k + PurgeEnd <= n
          /\ \A j \in k .. k + PurgeEnd : p[j].at[1] = p[k].at[1] /\ p[j].do \in Purging
      BY <2>1, <2>4 DEF Ends, n
    <3>2. \A j \in k .. k + PurgeEnd : j \in 1 .. n BY <1>1, <2>1, <3>1, PurgeEndNat
    <3> QED BY <1>1, <2>1, <3>1, <3>2, PurgeEndNat
  <2> QED BY <2>2, <2>3, <2>4
<1>5. CASE k > n
  <2>1. k - n \in 1 .. Len(q) /\ w[k] = q[k - n] BY <1>1, <1>5
  <2>2. ASSUME w[k].do \in Final, NEW j \in k + 1 .. Len(w)
        PROVE  w[j].do \notin Final \cup {"loop"}
    <3>1. j > n BY <1>1, <1>5
    <3>2. j - n \in 1 .. Len(q) /\ w[j] = q[j - n] BY <1>1, <1>5, <3>1
    <3>3. j - n \in k - n + 1 .. Len(q) BY <1>1, <3>2
    <3> QED BY <2>1, <2>2, <3>2, <3>3 DEF Ends
  <2>3. ASSUME w[k].do = "loop" PROVE \E j \in k + 1 .. Len(w) : w[j].do \in Final
    <3>1. PICK j \in k - n + 1 .. Len(q) : q[j].do \in Final BY <2>1, <2>3 DEF Ends
    <3>2. j \in 1 .. Len(q) /\ j + n \in k + 1 .. Len(w) BY <1>1, <2>1
    <3> QED BY <1>1, <3>1, <3>2
  <2>4. ASSUME w[k].do = "inspect"
        PROVE  /\ k + PurgeEnd <= Len(w)
               /\ \A j \in k .. k + PurgeEnd :
                    w[j].at[1] = w[k].at[1] /\ w[j].do \in Purging
    <3>1. /\ k - n + PurgeEnd <= Len(q)
          /\ \A j \in k - n .. k - n + PurgeEnd :
               q[j].at[1] = q[k - n].at[1] /\ q[j].do \in Purging
      BY <2>1, <2>4 DEF Ends
    <3>2. k + PurgeEnd <= Len(w) BY <1>1, <3>1, PurgeEndNat
    <3>3. ASSUME NEW j \in k .. k + PurgeEnd
          PROVE  j - n \in k - n .. k - n + PurgeEnd /\ w[j] = q[j - n]
      <4>1. j \in 1 .. n + Len(q) /\ j > n BY <1>1, <1>5, <3>2, PurgeEndNat
      <4> QED BY <1>1, <4>1, PurgeEndNat
    <3> QED BY <2>1, <3>1, <3>2, <3>3
  <2> QED BY <2>2, <2>3, <2>4
<1> QED BY <1>1, <1>4, <1>5

LEMMA JoinAhead ==
  ASSUME NEW p \in Seq(Part), NEW q \in Seq(Part), NEW x,
         Ahead(q, x) \/ (Has(p, "erase", x) /\ \E d \in ToSet(q) : d.do \in Final)
  PROVE  Ahead(p \o q, x)
<1> DEFINE w == p \o q
           n == Len(p)
<1>1. /\ Len(w) = n + Len(q)
      /\ n \in Nat /\ Len(q) \in Nat
      /\ \A k \in 1 .. n : w[k] = p[k]
      /\ \A k \in 1 .. Len(q) : w[k + n] = q[k]
  BY JoinSteps
<1>2. /\ ToSet(p) = {p[k] : k \in 1 .. n} /\ ToSet(q) = {q[k] : k \in 1 .. Len(q)}
  BY StepsOf
<1> HIDE DEF w, n
<1>3. CASE Ahead(q, x)
  <2>1. PICK j, k \in 1 .. Len(q) :
               j < k /\ q[j].do = "erase" /\ q[j].at = x /\ q[k].do \in Final
    BY <1>3 DEF Ahead
  <2>2. j + n \in 1 .. Len(w) /\ k + n \in 1 .. Len(w) /\ j + n < k + n BY <1>1, <2>1
  <2>3. w[j + n] = q[j] /\ w[k + n] = q[k] BY <1>1
  <2> QED BY <2>1, <2>2, <2>3 DEF Ahead, w
<1>4. CASE Has(p, "erase", x) /\ \E d \in ToSet(q) : d.do \in Final
  <2>1. PICK j \in 1 .. n : p[j].do = "erase" /\ p[j].at = x BY <1>2, <1>4 DEF Has
  <2>2. PICK k \in 1 .. Len(q) : q[k].do \in Final BY <1>2, <1>4
  <2>3. j \in 1 .. Len(w) /\ k + n \in 1 .. Len(w) /\ j < k + n BY <1>1
  <2>4. w[j] = p[j] /\ w[k + n] = q[k] BY <1>1
  <2> QED BY <2>1, <2>2, <2>3, <2>4 DEF Ahead, w
<1> QED BY <1>3, <1>4

\* The plan of a disconnect erases the pair before the row is marked.
LEMMA DisconnectSteps ==
  ASSUME NEW x \in Pair, NEW p, p = DisconnectPlan(x)
  PROVE  /\ p \in Seq(Part) /\ p # <<>> /\ Ends(p) /\ Ahead(p, x)
         /\ \A d \in ToSet(p) : d.at = x /\ d.do \in {"drop", "erase", "tombstone"}
<1>1. "drop" \in Parts /\ "erase" \in Parts /\ "tombstone" \in Parts
  BY DEF Parts, ConnectParts, OtherParts
<1> DEFINE o == Do("drop", x)
           e == Do("erase", x)
           m == Do("tombstone", x)
           c == o \o e
<1>2. /\ o \in Seq(Part) /\ ToSet(o) = {o[1]} /\ o[1].do = "drop" /\ o[1].at = x
      /\ e \in Seq(Part) /\ ToSet(e) = {e[1]} /\ e[1].do = "erase" /\ e[1].at = x
      /\ m \in Seq(Part) /\ ToSet(m) = {m[1]} /\ m[1].do = "tombstone" /\ m[1].at = x
      /\ Len(m) = 1
  BY <1>1, OneLine
<1>3. p = c \o m BY DEF DisconnectPlan, Erase
<1> HIDE DEF o, e, m
<1>4. c \in Seq(Part) /\ ToSet(c) = {o[1], e[1]}
  <2>1. c \in Seq(Part) /\ ToSet(c) = ToSet(o) \cup ToSet(e) BY <1>2, JoinSteps
  <2> QED BY <1>2, <2>1
<1> HIDE DEF c
<1>5. Ends(c) BY <1>2, <1>4, QuietEnds DEF Final
<1>6. Ends(m) BY <1>2 DEF Ends, Final
<1>7. Ends(p)
  <2>1. ~ \E d \in ToSet(c) : d.do \in Final BY <1>2, <1>4 DEF Final
  <2> QED BY <1>2, <1>3, <1>4, <1>5, <1>6, <2>1, JoinEnds
<1>8. Ahead(p, x)
  <2>1. Has(c, "erase", x) /\ \E d \in ToSet(m) : d.do \in Final
    BY <1>2, <1>4 DEF Has, Final
  <2> QED BY <1>2, <1>3, <1>4, <2>1, JoinAhead
<1>9. p \in Seq(Part) /\ ToSet(p) = {o[1], e[1], m[1]} /\ Len(p) # 0
  <2>1. /\ c \o m \in Seq(Part) /\ ToSet(c \o m) = ToSet(c) \cup ToSet(m)
        /\ Len(c \o m) = Len(c) + Len(m) /\ Len(c) \in Nat
    BY <1>2, <1>4, JoinSteps
  <2> QED BY <1>2, <1>3, <1>4, <2>1
<1> QED BY <1>2, <1>7, <1>8, <1>9, EmptySeq

\* The purge of an address erases every provider's pair of it.
LEMMA PurgeSteps ==
  ASSUME NEW x \in Pair, NEW p, p = PurgePlan(x)
  PROVE  /\ p \in Seq(Part) /\ Ends(p)
         /\ \A d \in ToSet(p) : d.do \in Purging
         /\ \A q \in Providers : Has(p, "erase", <<x[1], q>>)
<1> DEFINE w == EraseAll(x[1], Providers)
           i == Do("inspect", x)
           f == Do("fill", x)
           c == i \o f
<1>1. x[1] \in Address BY DEF Pair
<1>2. "inspect" \in Parts /\ "fill" \in Parts
  BY DEF Parts, ConnectParts, OtherParts
<1>3. /\ i \in Seq(Part) /\ ToSet(i) = {i[1]} /\ i[1].do = "inspect" /\ i[1].at = x
      /\ f \in Seq(Part) /\ ToSet(f) = {f[1]} /\ f[1].do = "fill" /\ f[1].at = x
      /\ Len(i) = 1 /\ Len(f) = 1
  BY <1>2, OneLine
<1>4. /\ w \in Seq(Part) /\ Len(w) = 2 * Cardinality(Providers)
      /\ Cardinality(Providers) \in Nat
      /\ \A d \in ToSet(w) : d.do \in {"drop", "erase"} /\ d.at[1] = x[1]
      /\ \A q \in Providers : Has(w, "erase", <<x[1], q>>)
  BY <1>1, SweepSteps
<1>5. p = c \o w BY DEF PurgePlan
<1> HIDE DEF i, f, w
<1>6. /\ c \in Seq(Part) /\ ToSet(c) = {i[1], f[1]} /\ Len(c) = 2 /\ c[1] = i[1]
      /\ c[2] = f[1]
  <2>1. /\ c \in Seq(Part) /\ ToSet(c) = ToSet(i) \cup ToSet(f) /\ Len(c) = Len(i) + Len(f)
        /\ \A k \in 1 .. Len(i) : c[k] = i[k]
        /\ \A k \in 1 .. Len(f) : c[k + Len(i)] = f[k]
    BY <1>3, JoinSteps
  <2> HIDE DEF c
  <2>2. c[1] = i[1] BY <1>3, <2>1
  <2>3. c[1 + 1] = f[1] BY <1>3, <2>1
  <2> QED BY <1>3, <2>1, <2>2, <2>3
<1> HIDE DEF c
<1>7. /\ p \in Seq(Part) /\ ToSet(p) = ToSet(c) \cup ToSet(w) /\ Len(p) = 2 + Len(w)
      /\ Len(w) \in Nat
      /\ \A k \in 1 .. 2 : p[k] = c[k]
      /\ \A k \in 1 .. 2 + Len(w) : k > 2 => k - 2 \in 1 .. Len(w) /\ p[k] = w[k - 2]
  <2> DEFINE z == c \o w
  <2>1. /\ z \in Seq(Part) /\ ToSet(z) = ToSet(c) \cup ToSet(w)
        /\ Len(z) = Len(c) + Len(w) /\ Len(w) \in Nat
        /\ \A k \in 1 .. Len(c) : z[k] = c[k]
        /\ \A k \in 1 .. Len(c) + Len(w) : k > Len(c) =>
             k - Len(c) \in 1 .. Len(w) /\ z[k] = w[k - Len(c)]
    BY <1>4, <1>6, JoinSteps
  <2>2. p = z BY <1>5
  <2> HIDE DEF z
  <2> QED BY <1>6, <2>1, <2>2
<1>8. \A d \in ToSet(p) : d.do \in Purging /\ d.at[1] = x[1]
  BY <1>3, <1>4, <1>6, <1>7 DEF Purging
<1>9. \A q \in Providers : Has(p, "erase", <<x[1], q>>)
  BY <1>4, <1>7 DEF Has
<1>10. Ends(p)
  <2> SUFFICES ASSUME NEW k \in 1 .. Len(p)
               PROVE  /\ p[k].do \notin Final \cup {"loop"}
                      /\ p[k].do = "inspect" =>
                           /\ k + PurgeEnd <= Len(p)
                           /\ \A j \in k .. k + PurgeEnd :
                                p[j].at[1] = p[k].at[1] /\ p[j].do \in Purging
    BY DEF Ends
  <2>1. \A j \in 1 .. Len(p) : p[j] \in ToSet(p) BY <1>7, StepsOf
  <2>2. p[k].do \notin Final \cup {"loop"} BY <1>8, <2>1 DEF Purging, Final
  <2>3. p[k].do = "inspect" => k = 1
    <3>1. k = 2 => p[k].do = "fill" BY <1>3, <1>6, <1>7
    <3>2. \A j \in 1 .. Len(w) : w[j] \in ToSet(w) BY <1>4, StepsOf
    <3>3. k > 2 => p[k].do \in {"drop", "erase"} BY <1>4, <1>7, <3>2
    <3> QED BY <1>7, <3>1, <3>3
  <2>4. 1 + PurgeEnd <= Len(p) BY <1>4, <1>7 DEF PurgeEnd
  <2>5. ASSUME NEW j \in 1 .. 1 + PurgeEnd PROVE j \in 1 .. Len(p)
    BY <1>7, <2>4, PurgeEndNat
  <2> QED BY <1>8, <2>1, <2>2, <2>3, <2>4, <2>5
<1> QED BY <1>7, <1>8, <1>9, <1>10

\* The plan of a deletion begins with its loop, and removes once.
LEMMA DeleteSteps ==
  ASSUME NEW u \in User, NEW p, p = DeletePlan(u)
  PROVE  /\ p \in Seq(Part) /\ Ends(p) /\ Does(p, "loop")
         /\ ~Does(p, "put") /\ ~Does(p, "tombstone")
<1> DEFINE home == <<Home[u], "google">>
           w == EraseAll(Home[u], Providers)
           l == Do("loop", home)
           s == Do("sever", home)
           b == Do("backstop", home)
           f == Do("fill", home)
           c == l \o s
           d == c \o b
           e == d \o f
<1>1. Home[u] \in Address BY CredentialsAssumption
<1>2. home \in Pair BY <1>1 DEF Pair, Providers
<1>3. p = e \o w BY DEF DeletePlan
<1> HIDE DEF home
<1>4. "loop" \in Parts /\ "sever" \in Parts /\ "backstop" \in Parts /\ "fill" \in Parts
  BY DEF Parts, OtherParts
<1>5. /\ l \in Seq(Part) /\ ToSet(l) = {l[1]} /\ l[1].do = "loop" /\ Len(l) = 1
      /\ s \in Seq(Part) /\ ToSet(s) = {s[1]} /\ s[1].do = "sever" /\ Len(s) = 1
      /\ b \in Seq(Part) /\ ToSet(b) = {b[1]} /\ b[1].do = "backstop"
      /\ f \in Seq(Part) /\ ToSet(f) = {f[1]} /\ f[1].do = "fill"
  BY <1>2, <1>4, OneLine
<1>6. w \in Seq(Part) /\ \A z \in ToSet(w) : z.do \in {"drop", "erase"}
  BY <1>1, SweepSteps
<1> HIDE DEF l, s, b, f, w
<1>7. c \in Seq(Part) /\ ToSet(c) = {l[1], s[1]} /\ Ends(c)
  <2>1. /\ c \in Seq(Part) /\ ToSet(c) = ToSet(l) \cup ToSet(s) /\ Len(c) = Len(l) + Len(s)
        /\ \A k \in 1 .. Len(l) : c[k] = l[k]
        /\ \A k \in 1 .. Len(s) : c[k + Len(l)] = s[k]
    BY <1>5, JoinSteps
  <2> HIDE DEF c
  <2>2. c[1] = l[1] BY <1>5, <2>1
  <2>3. c[1 + 1] = s[1] BY <1>5, <2>1
  <2>4. Len(c) = 2 /\ c[1].do = "loop" /\ c[2].do = "sever" BY <1>5, <2>1, <2>2, <2>3
  <2>5. Ends(c) BY <2>4 DEF Ends, Final
  <2> QED BY <1>5, <2>1, <2>5
<1> HIDE DEF c
<1>8. Ends(b) /\ Ends(f) /\ Ends(w)
  BY <1>5, <1>6, QuietEnds DEF Final
<1>9. d \in Seq(Part) /\ ToSet(d) = {l[1], s[1], b[1]} /\ Ends(d)
  <2>1. d \in Seq(Part) /\ ToSet(d) = ToSet(c) \cup ToSet(b) BY <1>5, <1>7, JoinSteps
  <2>2. \A z \in ToSet(b) : z.do \notin Final \cup {"loop"} BY <1>5 DEF Final
  <2>3. Ends(d) BY <1>5, <1>7, <1>8, <2>2, JoinEnds
  <2> HIDE DEF d
  <2> QED BY <1>5, <1>7, <2>1, <2>3
<1> HIDE DEF d
<1>10. e \in Seq(Part) /\ ToSet(e) = {l[1], s[1], b[1], f[1]} /\ Ends(e)
  <2>1. e \in Seq(Part) /\ ToSet(e) = ToSet(d) \cup ToSet(f) BY <1>5, <1>9, JoinSteps
  <2>2. \A z \in ToSet(f) : z.do \notin Final \cup {"loop"} BY <1>5 DEF Final
  <2>3. Ends(e) BY <1>5, <1>8, <1>9, <2>2, JoinEnds
  <2> HIDE DEF e
  <2> QED BY <1>5, <1>9, <2>1, <2>3
<1> HIDE DEF e
<1>11. p \in Seq(Part) /\ ToSet(p) = ToSet(e) \cup ToSet(w) BY <1>3, <1>6, <1>10, JoinSteps
<1>12. \A z \in ToSet(w) : z.do \notin Final \cup {"loop"} BY <1>6 DEF Final
<1>13. Ends(p) BY <1>3, <1>6, <1>8, <1>10, <1>12, JoinEnds
<1>14. Does(p, "loop") BY <1>5, <1>10, <1>11 DEF Does
<1>15. ~Does(p, "put") /\ ~Does(p, "tombstone") BY <1>5, <1>6, <1>10, <1>11 DEF Does
<1> QED BY <1>11, <1>13, <1>14, <1>15

-----------------------------------------------------------------------------
\* Requests.

LEMMA IdleShaped ==
  /\ \A rs : Shaped(Idle, rs)
  /\ Doomed(Idle) = {}
<1>1. /\ Idle.op = "none" /\ Idle.plan = <<>> /\ Idle.left = {} /\ Idle.purged = {}
  BY DEF Idle
<1>2. "none" \notin Connecting BY DEF Connecting
<1>3. <<>> \in Seq(Part) /\ Len(<<>>) = 0 BY EmptySeq
<1>4. ToSet(<<>>) = {}
  <2>1. ToSet(<<>>) = {<<>>[k] : k \in 1 .. 0} BY <1>3, StepsOf
  <2>2. 1 .. 0 = {} OBVIOUS
  <2> QED BY <2>1, <2>2
<1>5. Doomed(Idle) = {} BY <1>1 DEF Doomed
<1>6. Ends(<<>>) BY <1>3 DEF Ends
<1>7. \A s : ~Does(<<>>, s) BY <1>4 DEF Does
<1> QED BY <1>1, <1>2, <1>5, <1>6, <1>7 DEF Shaped, Removes

\* The plan of a request, and the step it is at.
LEMMA PlanOf ==
  ASSUME IInv, NEW t \in Task
  PROVE  /\ task[t].plan \in Seq(Part)
         /\ task[t].op \in Connecting => \A d \in ToSet(task[t].plan) : d.do \in ConnectParts
         /\ task[t].op \notin Connecting => \A d \in ToSet(task[t].plan) : d.do \in OtherParts
         /\ task[t].plan # <<>> =>
              /\ 1 \in 1 .. Len(task[t].plan)
              /\ Head(task[t].plan) = task[t].plan[1] /\ task[t].plan[1] \in ToSet(task[t].plan)
              /\ At(t) = task[t].plan[1].at /\ At(t) \in Pair
              /\ Rest(task[t].plan, 1, Tail(task[t].plan))
<1> DEFINE p == task[t].plan
<1>1. Fits(task[t], rows) BY DEF IInv, TasksFit
<1>2. PICK D, A : /\ Plan(p, D, A)
                  /\ task[t].op \in Connecting => D = ConnectParts
                  /\ task[t].op \notin Connecting => D = OtherParts
  BY <1>1 DEF Fits
<1>3. p \in Seq(Part) /\ \A k \in 1 .. Len(p) : p[k].do \in D BY <1>2 DEF Plan
<1>4. \A d \in ToSet(p) : d.do \in D
  <2>1. ToSet(p) = {p[k] : k \in 1 .. Len(p)} BY <1>3, StepsOf
  <2> QED BY <1>3, <2>1
<1>5. p # <<>> => /\ 1 \in 1 .. Len(p) /\ Head(p) = p[1] /\ p[1] \in ToSet(p)
                  /\ Rest(p, 1, Tail(p))
  BY <1>3, StepsOf, TailIsRest
<1>6. p # <<>> => At(t) \in Pair BY Here
<1> HIDE DEF p
<1>7. p # <<>> => At(t) = p[1].at BY <1>5 DEF At, p
<1> QED BY <1>2, <1>3, <1>4, <1>5, <1>6, <1>7 DEF p

\* A request that connects, whose first step is s: what may come with it.
LEMMA Later ==
  ASSUME NEW p \in Seq(Part), Ordered(p), p # <<>>, NEW d \in ToSet(p)
  PROVE  d = p[1] \/ d.do \in After(p[1].do)
<1>1. PICK k \in 1 .. Len(p) : d = p[k]
  <2>1. ToSet(p) = {p[k] : k \in 1 .. Len(p)} BY StepsOf
  <2> QED BY <2>1
<1>2. 1 \in 1 .. Len(p) /\ (k = 1 \/ 1 < k) BY StepsOf
<1> QED BY <1>1, <1>2 DEF Ordered

LEMMA ShapedGrown ==
  ASSUME NEW rs \in Seq(Mailbox), NEW rs2, Grown(rs, rs2), NEW r, Shaped(r, rs)
  PROVE  Shaped(r, rs2)
<1>1. Len(rs) \in Nat /\ Len(rs2) \in Nat BY LenProperties DEF Grown
<1>2. Doomed(r) \subseteq 1 .. Len(rs) => Doomed(r) \subseteq 1 .. Len(rs2)
  BY <1>1 DEF Grown
<1>3. r.op = "disconnect" => r.row \in Doomed(r) BY DEF Doomed
<1>4. \A i \in 1 .. Len(rs) : rs2[i].addr = rs[i].addr BY DEF Grown
<1> QED BY <1>2, <1>3, <1>4 DEF Shaped, Removes

\* A step of t that leaves rows and secrets alone, and forgets no pair.
Smooth(t) ==
  /\ rows' = rows /\ secret' = secret /\ stray \subseteq stray'
  /\ \A s \in Task \ {t} : task'[s] = task[s]
  /\ Shaped(task'[t], rows)
  /\ \A x \in Pair : Cares(task[t], rows, x) =>
       Cares(task'[t], rows, x) \/ Holds(x) \/ x \in stray'
  /\ \A i \in Doomed(task'[t]) : Known(task'[t], secret, stray', PairOf(rows[i]))

LEMMA SmoothKeeps ==
  ASSUME StrayInv, NEW t \in Task, Smooth(t)
  PROVE  StrayInv'
<1>1. ShapeInv'
  BY DEF StrayInv, ShapeInv, Smooth
<1>2. Kept'
  <2> SUFFICES ASSUME NEW x \in Pair, secret'[x] # NoGrant
               PROVE  \/ Holds(x)' \/ x \in stray'
                      \/ \E s \in Task : Cares(task'[s], rows', x)
    BY DEF Kept
  <2>1. Holds(x) => Holds(x)' BY DEF Holds, Smooth
  <2>2. Holds(x) \/ x \in stray \/ \E s \in Task : Cares(task[s], rows, x)
    BY DEF StrayInv, Kept, Smooth
  <2>3. ASSUME NEW s \in Task, Cares(task[s], rows, x)
        PROVE  Cares(task'[s], rows', x) \/ Holds(x) \/ x \in stray'
    BY <2>3 DEF Smooth
  <2> QED BY <2>1, <2>2, <2>3 DEF Smooth
<1>3. Gone'
  <2> SUFFICES ASSUME NEW s \in Task, NEW i \in Doomed(task'[s])
               PROVE  Known(task'[s], secret', stray', PairOf(rows'[i]))
    BY DEF Gone
  <2>1. CASE s = t BY <2>1 DEF Smooth
  <2>2. CASE s # t
    <3>1. task'[s] = task[s] BY <2>2 DEF Smooth
    <3>2. Known(task[s], secret, stray, PairOf(rows[i])) BY <3>1 DEF StrayInv, Gone
    <3> QED BY <3>1, <3>2 DEF Smooth, Known
  <2> QED BY <2>1, <2>2
<1> QED BY <1>1, <1>2, <1>3 DEF StrayInv

\* What a request becomes.
LEMMA BecomesWhat ==
  ASSUME IInv, NEW t \in Task, NEW r, Becomes(t, r)
  PROVE  /\ task'[t] = IF r.plan = <<>> THEN Idle ELSE r
         /\ \A s \in Task \ {t} : task'[s] = task[s]
BY DEF Becomes, IInv, TasksFit

\* A request that goes on with what is left of its plan.
LEMMA RestShaped ==
  ASSUME NEW p \in Seq(Part), NEW n \in Nat, n > 0, NEW q, Rest(p, n, q), q # <<>>,
         NEW r0, NEW r, NEW rs, Shaped(r0, rs), r0.plan = p, r.plan = q,
         r.op = r0.op, r.row = r0.row, r.left = r0.left, r.purged \subseteq r0.purged,
         r.op \notin Connecting /\ r.left # {} => Does(q, "loop")
  PROVE  Shaped(r, rs)
<1>1. q \in Seq(Part) /\ ToSet(q) \subseteq ToSet(p) BY CutSteps
<1>2. /\ Ordered(p) => Ordered(q) /\ Cleans(q)
      /\ \A x : About(p, x) => About(q, x)
      /\ Ends(p) => Ends(q)
  BY CutShape
<1>3. \A s : Does(q, s) => Does(p, s) BY <1>1 DEF Does
<1>4. CASE r.op \in Connecting
  BY <1>2, <1>3, <1>4 DEF Shaped, Attaches
<1>5. CASE r.op \notin Connecting
  <2>1. Doomed(r) \subseteq Doomed(r0) BY DEF Doomed
  <2> QED BY <1>1, <1>2, <1>3, <1>5, <2>1 DEF Shaped, Removes
<1> QED BY <1>4, <1>5

\* A request without a plan cares for nothing.
LEMMA SpentCares ==
  ASSUME NEW r, r.plan = <<>>, NEW rs, NEW x
  PROVE  ~Cares(r, rs, x)
<1>1. <<>> \in Seq(Part) /\ Len(<<>>) = 0 BY EmptySeq
<1>2. ToSet(<<>>) = {<<>>[k] : k \in 1 .. 0} BY <1>1, StepsOf
<1>3. 1 .. 0 = {} OBVIOUS
<1> QED BY <1>2, <1>3 DEF Cares, Settles, Has

LEMMA SmoothTo ==
  ASSUME IInv, NEW t \in Task, NEW r, Becomes(t, r),
         rows' = rows, secret' = secret, stray \subseteq stray',
         r.plan # <<>> => Shaped(r, rows),
         \A x \in Pair : Cares(task[t], rows, x) =>
           Cares(r, rows, x) \/ Holds(x) \/ x \in stray',
         r.plan # <<>> =>
           \A i \in Doomed(r) : Known(r, secret, stray', PairOf(rows[i]))
  PROVE  Smooth(t)
<1>1. /\ task'[t] = IF r.plan = <<>> THEN Idle ELSE r
      /\ \A s \in Task \ {t} : task'[s] = task[s]
  BY BecomesWhat
<1>2. CASE r.plan = <<>>
  BY <1>1, <1>2, SpentCares, IdleShaped DEF Smooth
<1>3. CASE r.plan # <<>>
  <2>1. task'[t] = r BY <1>1, <1>3
  <2> QED BY <1>1, <1>3, <2>1 DEF Smooth
<1> QED BY <1>2, <1>3

LEMMA SmoothEnd ==
  ASSUME IInv, NEW t \in Task, End(t),
         rows' = rows, secret' = secret, stray \subseteq stray',
         \A x \in Pair : Cares(task[t], rows, x) => Holds(x) \/ x \in stray'
  PROVE  Smooth(t)
<1>1. task'[t] = Idle /\ \A s \in Task \ {t} : task'[s] = task[s]
  BY DEF End, IInv, TasksFit
<1> QED BY <1>1, IdleShaped DEF Smooth

\* What a request is about to remove is known of, before and after its step.
LEMMA KnownRest ==
  ASSUME StrayInv, NEW t \in Task, NEW r, NEW str, stray \subseteq str,
         r.op = task[t].op, r.row = task[t].row,
         task[t].left \subseteq r.left, r.purged \subseteq task[t].purged,
         \A x : Ahead(task[t].plan, x) => Ahead(r.plan, x)
  PROVE  \A i \in Doomed(r) : Known(r, secret, str, PairOf(rows[i]))
<1> SUFFICES ASSUME NEW i \in Doomed(r) PROVE Known(r, secret, str, PairOf(rows[i]))
  OBVIOUS
<1>1. i \in Doomed(task[t]) BY DEF Doomed
<1>2. Known(task[t], secret, stray, PairOf(rows[i])) BY <1>1 DEF StrayInv, Gone
<1> QED BY <1>2 DEF Known

\* Steps that are neither an erasure nor a settling one may go.
LEMMA Trimmed ==
  ASSUME IInv, StrayInv, NEW t \in Task, NEW n \in Nat, n > 0,
         NEW r, Becomes(t, r), Rest(task[t].plan, n, r.plan),
         r.op = task[t].op, r.row = task[t].row, r.seen = task[t].seen,
         r.left = task[t].left, r.purged = task[t].purged,
         rows' = rows, secret' = secret, stray' = stray,
         \A k \in 1 .. Len(task[t].plan) : k <= n =>
           /\ task[t].plan[k].do \notin {"switch", "commit", "erase"}
           /\ task[t].plan[k].do = "loop" => task[t].left = {}
  PROVE  Smooth(t)
<1> DEFINE p == task[t].plan
           q == r.plan
<1>1. p \in Seq(Part) BY PlanOf
<1>2. /\ q \in Seq(Part) /\ ToSet(q) \subseteq ToSet(p)
      /\ \A d \in ToSet(p) : d \in ToSet(q) \/ \E k \in 1 .. Len(p) : k <= n /\ d = p[k]
  BY <1>1, CutSteps
<1>3. Shaped(task[t], rows) BY DEF StrayInv, ShapeInv
<1>4. \A s \in {"switch", "commit", "erase"} : \A x : Has(p, s, x) => Has(q, s, x)
  BY <1>2 DEF Has
<1>5. \A x \in Pair : Cares(task[t], rows, x) => Cares(r, rows, x)
  BY <1>2, <1>4 DEF Cares, Settles, Does
<1>6. r.op \notin Connecting /\ r.left # {} => Does(q, "loop")
  <2>1. task[t].left # {} /\ Does(p, "loop") => Does(q, "loop") BY <1>2 DEF Does
  <2> QED BY <1>3, <2>1 DEF Shaped, Removes
<1>7. q # <<>> => Shaped(r, rows) BY <1>1, <1>3, <1>6, RestShaped
<1>8. \A x : Ahead(p, x) => Ahead(q, x) BY <1>1, CutShape
<1>9. \A i \in Doomed(r) : Known(r, secret, stray', PairOf(rows[i])) BY <1>8, KnownRest
<1> QED BY <1>5, <1>7, <1>9, SmoothTo

-----------------------------------------------------------------------------
\* Steps that change neither rows nor secrets.

LEMMA StepOn ==
  ASSUME IInv, StrayInv, NEW t \in Task, task[t].plan # <<>>,
         NEW r, Becomes(t, r), r.plan = Tail(task[t].plan),
         r.op = task[t].op, r.row = task[t].row, r.seen = task[t].seen,
         r.left = task[t].left, r.purged = task[t].purged,
         rows' = rows, secret' = secret, stray' = stray,
         Head(task[t].plan).do \notin {"switch", "commit", "erase"},
         Head(task[t].plan).do = "loop" => task[t].left = {}
  PROVE  Smooth(t)
<1> DEFINE p == task[t].plan
<1>1. /\ 1 \in 1 .. Len(p) /\ Head(p) = p[1] /\ Rest(p, 1, Tail(p))
  BY PlanOf
<1>2. \A k \in 1 .. Len(p) : k <= 1 => k = 1 OBVIOUS
<1>3. \A k \in 1 .. Len(p) : k <= 1 =>
        /\ p[k].do \notin {"switch", "commit", "erase"}
        /\ p[k].do = "loop" => task[t].left = {}
  BY <1>1, <1>2
<1>4. Rest(p, 1, r.plan) BY <1>1
<1> QED BY <1>3, <1>4, Trimmed

LEMMA AdvanceOn ==
  ASSUME IInv, StrayInv, NEW t \in Task, task[t].plan # <<>>, Advance(t),
         rows' = rows, secret' = secret, stray' = stray,
         Head(task[t].plan).do \notin {"switch", "commit", "erase"},
         Head(task[t].plan).do = "loop" => task[t].left = {}
  PROVE  Smooth(t)
<1> DEFINE r == [task[t] EXCEPT !.plan = Tail(@)]
<1>1. task[t] \in Request BY DEF IInv, TasksFit
<1>2. /\ r.plan = Tail(task[t].plan) /\ r.op = task[t].op /\ r.row = task[t].row
      /\ r.seen = task[t].seen /\ r.left = task[t].left /\ r.purged = task[t].purged
  BY <1>1 DEF Request
<1>3. Becomes(t, r) BY DEF Advance
<1> HIDE DEF r
<1> QED BY <1>2, <1>3, StepOn

LEMMA PlainSmooth ==
  ASSUME IInv, StrayInv, NEW t \in Task, AccountStep(t) \/ DropStep(t) \/ FillStep(t)
  PROVE  Smooth(t)
<1>1. CASE AccountStep(t) \/ DropStep(t)
  <2>1. /\ task[t].plan # <<>> /\ Advance(t)
        /\ Head(task[t].plan).do \in {"account", "drop"}
        /\ rows' = rows /\ secret' = secret /\ stray' = stray
    BY <1>1 DEF AccountStep, DropStep, Todo
  <2> QED BY <2>1, AdvanceOn
<1>2. CASE FillStep(t)
  <2> DEFINE r == [task[t] EXCEPT !.got = task[t].val, !.plan = Tail(@)]
  <2>1. task[t] \in Request BY DEF IInv, TasksFit
  <2>2. /\ r.plan = Tail(task[t].plan) /\ r.op = task[t].op /\ r.row = task[t].row
        /\ r.seen = task[t].seen /\ r.left = task[t].left /\ r.purged = task[t].purged
    BY <2>1 DEF Request
  <2>3. Becomes(t, r) BY <1>2 DEF FillStep
  <2>4. /\ task[t].plan # <<>> /\ Head(task[t].plan).do = "fill"
        /\ rows' = rows /\ secret' = secret /\ stray' = stray
    BY <1>2 DEF FillStep, Todo
  <2> HIDE DEF r
  <2> QED BY <2>2, <2>3, <2>4, StepOn
<1> QED BY <1>1, <1>2

\* Whoever has a mailbox still to record has nothing to erase yet.
LEMMA NothingErased ==
  ASSUME IInv, StrayInv, NEW t \in Task, task[t].op \in Connecting,
         task[t].plan # <<>>, Head(task[t].plan).do \in Establishing \cup {"account", "put", "fill"}
  PROVE  \A x : ~Has(task[t].plan, "erase", x) /\ ~Has(task[t].plan, "switch", x)
<1> DEFINE p == task[t].plan
<1>1. p \in Seq(Part) /\ Head(p) = p[1] BY PlanOf
<1>2. Ordered(p) BY DEF StrayInv, ShapeInv, Shaped, Attaches
<1>3. \A d \in ToSet(p) : d = p[1] \/ d.do \in After(p[1].do) BY <1>1, <1>2, Later
<1>4. \A s \in Establishing \cup {"account", "put", "fill"} : After(s) \cap {"erase", "switch"} = {}
  BY DEF After, Establishing
<1>5. "erase" \notin Establishing /\ "switch" \notin Establishing BY DEF Establishing
<1> QED BY <1>1, <1>3, <1>4, <1>5 DEF Has

LEMMA PutFailsSmooth ==
  ASSUME IInv, StrayInv, NEW t \in Task, PutFails(t)
  PROVE  Smooth(t)
<1>1. /\ task[t].plan # <<>> /\ Head(task[t].plan).do = "put" /\ End(t)
      /\ rows' = rows /\ secret' = secret /\ stray' = stray
  BY DEF PutFails, Todo, stores
<1>2. Does(task[t].plan, "put") BY <1>1, PlanOf DEF Does
<1>3. \A x : ~Cares(task[t], rows, x)
  BY <1>1, <1>2, NothingErased DEF Cares, Settles
<1> QED BY <1>1, <1>3, SmoothEnd

\* A refused request has stored nothing, or the pair of a mailbox, or is known.
LEMMA RefusedCares ==
  ASSUME IInv, StrayInv, NEW t \in Task, task[t].plan # <<>>,
         Head(task[t].plan).do \in Establishing,
         NEW x \in Pair, Cares(task[t], rows, x)
  PROVE  x = At(t) /\ ~Planned(t, "put")
<1> DEFINE p == task[t].plan
<1>1. /\ p \in Seq(Part) /\ Head(p) = p[1] /\ p[1] \in ToSet(p) /\ At(t) = p[1].at
  BY PlanOf
<1>2. task[t].op \in Connecting BY DEF Cares
<1>3. ~Does(p, "put") /\ Has(p, "commit", x)
  BY <1>2, NothingErased DEF Cares, Settles
<1>4. PICK y \in Pair : About(p, y) BY <1>2 DEF StrayInv, ShapeInv, Shaped, Attaches
<1>5. x = y
  <2>1. PICK d \in ToSet(p) : d.do = "commit" /\ d.at = x BY <1>3 DEF Has
  <2> QED BY <1>4, <2>1 DEF About, Establishing
<1>6. At(t) = y BY <1>1, <1>4 DEF About
<1>7. ~Planned(t, "put")
  <2>1. ToSet(p) = {p[k] : k \in DOMAIN p} BY DEF ToSet
  <2> QED BY <1>3, <2>1 DEF Planned, Does
<1> QED BY <1>5, <1>6, <1>7

LEMMA DropSmooth ==
  ASSUME IInv, StrayInv, NEW t \in Task, task[t].plan # <<>>, Drop(t),
         Head(task[t].plan).do \in Establishing, rows' = rows, secret' = secret
  PROVE  Smooth(t)
<1>1. /\ End(t)
      /\ stray' = stray \cup {x \in {At(t)} : ~Planned(t, "put") /\ ~Holds(x)}
  BY DEF Drop
<1>2. \A x \in Pair : Cares(task[t], rows, x) => Holds(x) \/ x \in stray'
  BY <1>1, RefusedCares
<1> QED BY <1>1, <1>2, SmoothEnd

LEMMA ClaimSmooth ==
  ASSUME IInv, StrayInv, NEW t \in Task, ClaimStep(t) \/ AdmitStep(t)
  PROVE  Smooth(t)
<1>1. /\ task[t].plan # <<>> /\ Head(task[t].plan).do \in {"claim", "admit"}
      /\ rows' = rows /\ secret' = secret
      /\ Drop(t) \/ (Advance(t) /\ stray' = stray)
  BY DEF ClaimStep, AdmitStep, Todo, stores
<1>2. Head(task[t].plan).do \in Establishing BY <1>1 DEF Establishing
<1> QED BY <1>1, <1>2, DropSmooth, AdvanceOn

\* A lost commit, of a mailbox that the user's other request has recorded.
LEMMA TakenSmooth ==
  ASSUME IInv, StrayInv, NEW t \in Task, task[t].plan # <<>>,
         Head(task[t].plan).do = "commit", Advance(t), rows' = rows, secret' = secret,
         stray' = stray \cup {y \in {At(t)} : ~Holds(y)}
  PROVE  Smooth(t)
<1> DEFINE r == [task[t] EXCEPT !.plan = Tail(@)]
           p == task[t].plan
<1>1. task[t] \in Request BY DEF IInv, TasksFit
<1>2. /\ r.plan = Tail(p) /\ r.op = task[t].op /\ r.row = task[t].row
      /\ r.seen = task[t].seen /\ r.left = task[t].left /\ r.purged = task[t].purged
  BY <1>1 DEF Request
<1>3. Becomes(t, r) BY DEF Advance
<1>4. /\ p \in Seq(Part) /\ Rest(p, 1, r.plan) /\ p[1] \in ToSet(p) /\ p[1].do = "commit"
  BY <1>2, PlanOf
<1>5. task[t].op \in Connecting
  BY <1>4, PlanOf DEF OtherParts
<1> HIDE DEF r
<1>6. Shaped(task[t], rows) BY DEF StrayInv, ShapeInv
<1>7. ASSUME r.plan # <<>> PROVE Shaped(r, rows)
  <2>1. r.op \in Connecting /\ r.purged \subseteq task[t].purged /\ 1 > 0 /\ 1 \in Nat
    BY <1>2, <1>5
  <2> QED BY <1>2, <1>4, <1>6, <1>7, <2>1, RestShaped
<1>8. \A x \in Pair : Cares(task[t], rows, x) => Holds(x) \/ x \in stray'
  <2>1. Head(p).do \in Establishing BY DEF Establishing
  <2> QED BY <2>1, RefusedCares
<1>9. Doomed(r) = {} BY <1>2, <1>5 DEF Doomed, Connecting
<1> QED BY <1>3, <1>7, <1>8, <1>9, SmoothTo

LEMMA ReadSmooth ==
  ASSUME IInv, TiedInv, StrayInv, NEW t \in Task, ReadStep(t)
  PROVE  Smooth(t)
<1> DEFINE p == task[t].plan
<1>1. /\ p # <<>> /\ Head(p).do \in {"read", "inspect", "backstop"}
      /\ rows' = rows /\ secret' = secret /\ stray' = stray
  BY DEF ReadStep, Todo, stores
<1>2. /\ p \in Seq(Part) /\ Head(p) = p[1] /\ p[1] \in ToSet(p) /\ 1 \in 1 .. Len(p)
  BY <1>1, PlanOf
<1>3. task[t] \in Request BY DEF IInv, TasksFit
<1>4. CASE Becomes(t, [task[t] EXCEPT !.got = secret[At(t)], !.plan = Tail(@)])
  <2> DEFINE r == [task[t] EXCEPT !.got = secret[At(t)], !.plan = Tail(@)]
  <2>1. /\ r.plan = Tail(p) /\ r.op = task[t].op /\ r.row = task[t].row
        /\ r.seen = task[t].seen /\ r.left = task[t].left /\ r.purged = task[t].purged
    BY <1>3 DEF Request
  <2>2. Becomes(t, r) BY <1>4
  <2> HIDE DEF r
  <2> QED BY <1>1, <2>1, <2>2, StepOn
<1>5. CASE Becomes(t, [task[t] EXCEPT !.plan = Skip(t, 2)])
  <2> DEFINE r == [task[t] EXCEPT !.plan = Skip(t, 2)]
  <2>1. /\ r.plan = Skip(t, 2) /\ r.op = task[t].op /\ r.row = task[t].row
        /\ r.seen = task[t].seen /\ r.left = task[t].left /\ r.purged = task[t].purged
    BY <1>3 DEF Request
  <2>2. Becomes(t, r) BY <1>5
  <2> HIDE DEF r
  <2>3. Rest(p, 2, r.plan) BY <2>1 DEF Rest, Skip
  <2>4. p[1 + 1].do = "fill"
    <3>1. Tied(p) BY DEF TiedInv
    <3>2. p[1].do \in Fetching BY <1>1, <1>2 DEF Fetching
    <3> QED BY <1>2, <3>1, <3>2 DEF Tied
  <2>5. \A k \in 1 .. Len(p) : k <= 2 => k = 1 \/ k = 1 + 1 OBVIOUS
  <2>6. \A k \in 1 .. Len(p) : k <= 2 =>
          /\ p[k].do \notin {"switch", "commit", "erase"}
          /\ p[k].do = "loop" => task[t].left = {}
    BY <1>1, <1>2, <2>4, <2>5
  <2> HIDE DEF p
  <2> QED BY <1>1, <2>1, <2>2, <2>3, <2>6, Trimmed DEF p
<1>6. CASE End(t)
  <2>1. task[t].op \notin Connecting BY <1>1, <1>2, PlanOf DEF ConnectParts
  <2> QED BY <1>1, <1>6, <2>1, SmoothEnd DEF Cares
<1> QED BY <1>4, <1>5, <1>6 DEF ReadStep

LEMMA ReadFailsSmooth ==
  ASSUME IInv, StrayInv, NEW t \in Task, ReadFails(t)
  PROVE  Smooth(t)
<1> DEFINE p == task[t].plan
<1>1. /\ p # <<>> /\ Head(p).do \in {"read", "inspect", "backstop"}
      /\ rows' = rows /\ secret' = secret /\ stray' = stray
  BY DEF ReadFails, Todo, stores
<1>2. /\ p \in Seq(Part) /\ Head(p) = p[1] /\ p[1] \in ToSet(p) /\ 1 \in 1 .. Len(p)
      /\ At(t) = p[1].at
  BY <1>1, PlanOf
<1>3. task[t].op \notin Connecting BY <1>1, <1>2, PlanOf DEF ConnectParts
<1>4. CASE End(t) BY <1>1, <1>3, <1>4, SmoothEnd DEF Cares
<1>5. ASSUME p[1].do = "inspect",
             Becomes(t, [task[t] EXCEPT
                          !.plan = Skip(t, 2 + 2 * Cardinality(Providers)),
                          !.purged = {i \in @ : rows[i].addr # At(t)[1]}])
      PROVE  Smooth(t)
  <2> DEFINE n == 2 + 2 * Cardinality(Providers)
             r == [task[t] EXCEPT
                    !.plan = Skip(t, n),
                    !.purged = {i \in @ : rows[i].addr # At(t)[1]}]
             q == r.plan
  <2>1. task[t] \in Request BY DEF IInv, TasksFit
  <2>2. /\ q = Skip(t, n) /\ r.op = task[t].op /\ r.row = task[t].row
        /\ r.left = task[t].left
        /\ r.purged = {i \in task[t].purged : rows[i].addr # At(t)[1]}
    BY <2>1 DEF Request
  <2>3. Becomes(t, r) BY <1>5
  <2>4. n \in Nat /\ n > 0 /\ n = 1 + PurgeEnd
    <3>1. IsFiniteSet(Providers)
      BY CredentialsAssumption, FS_Singleton, FS_Union DEF Providers
    <3>2. Cardinality(Providers) \in Nat BY <3>1, FS_CardinalityType
    <3> QED BY <3>2 DEF PurgeEnd
  <2>5. Rest(p, n, q) BY <2>2 DEF Rest, Skip
  <2> HIDE DEF r, n
  <2>6. Shaped(task[t], rows) /\ Removes(task[t], rows)
    BY <1>3 DEF StrayInv, ShapeInv, Shaped
  <2>7. \A k \in 1 .. Len(p) : k <= n => p[k].at[1] = At(t)[1] /\ p[k].do \in Purging
    <3> SUFFICES ASSUME NEW k \in 1 .. Len(p), k <= n
                 PROVE  p[k].at[1] = At(t)[1] /\ p[k].do \in Purging
      OBVIOUS
    <3>1. k \in 1 .. 1 + PurgeEnd BY <2>4, PurgeEndNat
    <3> QED BY <1>2, <1>5, <2>6, <3>1 DEF Removes, Ends
  <2>8. /\ ToSet(q) \subseteq ToSet(p)
        /\ \A d \in ToSet(p) : d \in ToSet(q) \/ \E k \in 1 .. Len(p) : k <= n /\ d = p[k]
    BY <1>2, <2>4, <2>5, CutSteps
  <2>9. r.left # {} => Does(q, "loop")
    <3>1. "loop" \notin Purging BY DEF Purging
    <3>2. Does(p, "loop") => Does(q, "loop") BY <2>7, <2>8, <3>1 DEF Does
    <3> QED BY <2>2, <2>6, <3>2 DEF Removes
  <2>10. ASSUME q # <<>> PROVE Shaped(r, rows)
    <3>1. r.purged \subseteq task[t].purged BY <2>2
    <3> QED BY <1>2, <2>2, <2>4, <2>5, <2>6, <2>9, <2>10, <3>1, RestShaped
  <2>11. \A i \in Doomed(r) : Known(r, secret, stray', PairOf(rows[i]))
    <3> SUFFICES ASSUME NEW i \in Doomed(r)
                 PROVE  Known(r, secret, stray, PairOf(rows[i]))
      BY <1>1
    <3> DEFINE x == PairOf(rows[i])
    <3>1. task[t].op = "deleteAccount" BY <1>2, <1>5, <2>6 DEF Removes, Does
    <3>2. i \in task[t].purged /\ rows[i].addr # At(t)[1] BY <2>2, <3>1 DEF Doomed
    <3>3. x[1] = rows[i].addr BY DEF PairOf
    <3>4. Known(task[t], secret, stray, x) BY <3>1, <3>2 DEF StrayInv, Gone, Doomed
    <3>5. Ahead(p, x) => Ahead(q, x) \/ \E k \in 1 .. Len(p) : k <= n /\ p[k].at = x
      BY <1>2, <2>4, <2>5, CutShape
    <3> HIDE DEF x
    <3>6. Ahead(p, x) => Ahead(q, x) BY <2>7, <3>2, <3>3, <3>5
    <3> QED BY <2>2, <3>4, <3>6 DEF Known, x
  <2>12. \A x : ~Cares(task[t], rows, x) BY <1>3 DEF Cares
  <2> QED BY <1>1, <2>3, <2>10, <2>11, <2>12, SmoothTo
<1> QED BY <1>1, <1>2, <1>4, <1>5 DEF ReadFails, Todo

LEMMA LoopSmooth ==
  ASSUME IInv, StrayInv, NEW t \in Task, LoopStep(t)
  PROVE  Smooth(t)
<1> DEFINE p == task[t].plan
<1>1. /\ p # <<>> /\ Head(p).do = "loop"
      /\ rows' = rows /\ secret' = secret /\ stray' = stray
  BY DEF LoopStep, Todo, stores
<1>2. p \in Seq(Part) /\ p[1].do = "loop" /\ p[1] \in ToSet(p) /\ 1 \in 1 .. Len(p)
  BY <1>1, PlanOf
<1>3. task[t].op \notin Connecting BY <1>2, PlanOf DEF ConnectParts
<1>4. Removes(task[t], rows) BY <1>3 DEF StrayInv, ShapeInv, Shaped
<1>5. task[t].op = "deleteAccount" BY <1>2, <1>4 DEF Removes, Does
<1>6. CASE task[t].left = {} /\ Advance(t) BY <1>1, <1>6, AdvanceOn
<1>7. ASSUME NEW m \in task[t].left,
             Becomes(t, [task[t] EXCEPT !.left = @ \ {m}, !.plan = PurgePlan(m.at) \o @])
      PROVE  Smooth(t)
  <2> DEFINE r == [task[t] EXCEPT !.left = @ \ {m}, !.plan = PurgePlan(m.at) \o @]
             w == PurgePlan(m.at)
             j == w \o p
  <2>1. task[t] \in Request BY DEF IInv, TasksFit
  <2>2. /\ r.plan = j /\ r.op = task[t].op /\ r.row = task[t].row
        /\ r.left = task[t].left \ {m} /\ r.purged = task[t].purged
    BY <2>1 DEF Request
  <2>3. Becomes(t, r) BY <1>7
  <2>4. m.at \in Pair /\ task[t].left \subseteq [id : Nat, at : Pair] BY <2>1 DEF Request
  <2>5. /\ w \in Seq(Part) /\ Ends(w)
        /\ \A d \in ToSet(w) : d.do \in Purging
        /\ \A q \in Providers : Has(w, "erase", <<m.at[1], q>>)
    BY <2>4, PurgeSteps
  <2> HIDE DEF r, w
  <2>6. Purging \cap (Final \cup {"loop", "put", "tombstone", "sever"}) = {}
    BY DEF Purging, Final
  <2>7. \E d \in ToSet(p) : d.do \in Final
    <3>1. PICK k \in 1 + 1 .. Len(p) : p[k].do \in Final
      BY <1>2, <1>4 DEF Removes, Ends
    <3>2. k \in 1 .. Len(p) /\ ToSet(p) = {p[i] : i \in 1 .. Len(p)} BY <1>2, StepsOf
    <3> QED BY <3>1, <3>2
  <2>8. j \in Seq(Part) /\ ToSet(j) = ToSet(w) \cup ToSet(p)
    BY <1>2, <2>5, JoinSteps
  <2>9. Ends(j) BY <1>2, <1>4, <2>5, <2>6, JoinEnds DEF Removes
  <2>10. \A x : Ahead(p, x) \/ Has(w, "erase", x) => Ahead(j, x)
    BY <1>2, <2>5, <2>7, JoinAhead
  <2> HIDE DEF j
  <2>11. Does(j, "loop") /\ ~Does(j, "put") /\ ~Does(j, "tombstone")
    BY <1>2, <1>4, <1>5, <2>5, <2>6, <2>8 DEF Removes, Does
  <2>12. Doomed(r) = task[t].purged /\ Doomed(r) = Doomed(task[t])
    BY <1>5, <2>2 DEF Doomed
  <2>13. Removes(r, rows)
    <3>1. Doomed(r) \subseteq 1 .. Len(rows) BY <1>4, <2>12 DEF Removes
    <3> QED BY <1>5, <2>2, <2>9, <2>11, <3>1 DEF Removes
  <2>14. Shaped(r, rows) BY <1>3, <2>2, <2>13 DEF Shaped
  <2>15. \A i \in Doomed(r) : Known(r, secret, stray', PairOf(rows[i]))
    <3> SUFFICES ASSUME NEW i \in Doomed(r)
                 PROVE  Known(r, secret, stray, PairOf(rows[i]))
      BY <1>1
    <3> DEFINE x == PairOf(rows[i])
    <3>1. Known(task[t], secret, stray, x) BY <2>12 DEF StrayInv, Gone
    <3>2. x[1] = rows[i].addr /\ x = <<x[1], x[2]>> /\ x[2] \in Providers
      <4>1. i \in 1 .. Len(rows) BY <1>4, <2>12 DEF Removes
      <4>2. rows[i] \in Mailbox BY <4>1, ElementOfSeq DEF IInv, Typed
      <4> QED BY <4>2 DEF Mailbox, PairOf
    <3> HIDE DEF x
    <3>3. m.at[1] = x[1] => Ahead(j, x) BY <2>5, <2>10, <3>2
    <3>4. (\E l \in task[t].left : l.at[1] = x[1]) =>
            Ahead(j, x) \/ \E l \in r.left : l.at[1] = x[1]
      BY <2>2, <3>3
    <3> QED BY <2>2, <2>10, <3>1, <3>4 DEF Known, x
  <2>16. \A x : ~Cares(task[t], rows, x) BY <1>3 DEF Cares
  <2> QED BY <1>1, <2>3, <2>14, <2>15, <2>16, SmoothTo
<1> QED BY <1>6, <1>7 DEF LoopStep

\* A plan once its mailbox is at x: the others of its address are erased, then
\* whatever else it has to store.
LEMMA Cleanup ==
  ASSUME NEW x \in Pair, NEW q \in Seq(Part), Ordered(q), About(q, x),
         \A d \in ToSet(q) : d.do \in {"put", "fill"},
         NEW w, w = EraseOthers(x) \o q
  PROVE  /\ w \in Seq(Part) /\ Ordered(w) /\ About(w, x)
         /\ \A d \in ToSet(w) : d.do \in {"drop", "erase", "put", "fill"}
         /\ \A y \in Providers \ {x[2]} : Has(w, "erase", <<x[1], y>>)
         /\ Does(w, "put") => Does(q, "put")
<1> DEFINE e == EraseOthers(x)
<1>1. x[1] \in Address BY DEF Pair
<1>2. /\ e \in Seq(Part) /\ Ordered(e)
      /\ \A d \in ToSet(e) : d.do \in {"drop", "erase"}
      /\ \A y \in Providers \ {x[2]} : Has(e, "erase", <<x[1], y>>)
  <2> DEFINE P == Providers \ {x[2]}
  <2>1. e = EraseAll(x[1], P) BY DEF EraseOthers
  <2> HIDE DEF e
  <2>2. P \in SUBSET Providers OBVIOUS
  <2> HIDE DEF P
  <2>3. /\ e \in Seq(Part) /\ Ordered(e)
        /\ \A d \in ToSet(e) : d.do \in {"drop", "erase"}
        /\ \A y \in P : Has(e, "erase", <<x[1], y>>)
    BY <1>1, <2>1, <2>2, SweepSteps
  <2> QED BY <2>3 DEF P
<1> HIDE DEF e
<1>3. /\ e \o q \in Seq(Part) /\ ToSet(e \o q) = ToSet(e) \cup ToSet(q)
  BY <1>2, JoinSteps
<1>4. w \in Seq(Part) /\ ToSet(w) = ToSet(e) \cup ToSet(q)
  BY <1>3 DEF e
<1>5. Ordered(w)
  <2>1. \A s \in {"drop", "erase"} : {"put", "fill"} \subseteq After(s) BY DEF After
  <2>2. Ordered(e \o q) BY <1>2, <2>1, JoinOrdered
  <2> QED BY <2>2 DEF e
<1>6. About(w, x) BY <1>2, <1>4 DEF About, Establishing
<1>7. \A y \in Providers \ {x[2]} : Has(w, "erase", <<x[1], y>>) BY <1>2, <1>4 DEF Has
<1>8. Does(w, "put") => Does(q, "put") BY <1>2, <1>4 DEF Does
<1>9. \A d \in ToSet(w) : d.do \in {"drop", "erase", "put", "fill"} BY <1>2, <1>4
<1> QED BY <1>4, <1>5, <1>6, <1>7, <1>8, <1>9

LEMMA JoinAssoc ==
  ASSUME NEW a \in Seq(Part), NEW b \in Seq(Part), NEW c \in Seq(Part)
  PROVE  (a \o b) \o c = a \o (b \o c)
BY ConcatAssociative

\* The plan of a request that moves its mailbox to x.
LEMMA Relocate ==
  ASSUME NEW x \in Pair, NEW q \in Seq(Part), Ordered(q), About(q, x),
         \A d \in ToSet(q) : d.do \in {"put", "fill"},
         NEW w, w = Do("switch", x) \o EraseOthers(x) \o q
  PROVE  /\ w \in Seq(Part) /\ w # <<>> /\ Ordered(w) /\ About(w, x) /\ Cleans(w)
         /\ Has(w, "switch", x) /\ ~Does(w, "find")
         /\ Does(w, "put") => Does(q, "put")
<1> DEFINE s == Do("switch", x)
           e == EraseOthers(x)
           v == e \o q
<1>1. x[1] \in Address BY DEF Pair
<1>2. e \in Seq(Part) BY <1>1, SweepSteps DEF EraseOthers
<1>3. "switch" \in Parts BY DEF Parts, ConnectParts
<1>4. /\ s \in Seq(Part) /\ Len(s) = 1 /\ s[1].do = "switch" /\ s[1].at = x
      /\ ToSet(s) = {s[1]}
  BY <1>3, OneLine
<1>5. /\ v \in Seq(Part) /\ Ordered(v) /\ About(v, x)
      /\ \A d \in ToSet(v) : d.do \in {"drop", "erase", "put", "fill"}
      /\ \A y \in Providers \ {x[2]} : Has(v, "erase", <<x[1], y>>)
      /\ Does(v, "put") => Does(q, "put")
  BY Cleanup
<1>6. Ordered(s) BY <1>3, LineOf DEF Line
<1> HIDE DEF s, e
<1>7. w = s \o v BY <1>2, <1>4, JoinAssoc DEF s, e
<1> HIDE DEF v
<1>8. /\ s \o v \in Seq(Part) /\ Len(s \o v) = Len(s) + Len(v) /\ Len(v) \in Nat
      /\ \A k \in 1 .. Len(s) : (s \o v)[k] = s[k]
      /\ ToSet(s \o v) = ToSet(s) \cup ToSet(v)
  BY <1>4, <1>5, JoinSteps
<1>9. w \in Seq(Part) /\ Len(w) # 0 /\ w[1] = s[1] /\ ToSet(w) = {s[1]} \cup ToSet(v)
  <2> DEFINE z == s \o v
  <2>1. w = z BY <1>7
  <2>2. /\ z \in Seq(Part) /\ Len(z) = Len(s) + Len(v)
        /\ \A k \in 1 .. Len(s) : z[k] = s[k]
        /\ ToSet(z) = ToSet(s) \cup ToSet(v)
    BY <1>8
  <2> HIDE DEF z
  <2>3. 1 \in 1 .. Len(s) /\ Len(z) # 0 BY <1>4, <1>8, <2>2
  <2> QED BY <1>4, <2>1, <2>2, <2>3
<1>10. Ordered(w)
  <2>1. {"drop", "erase", "put", "fill"} \subseteq After("switch")
    BY DEF After, Establishing
  <2>2. \A c \in ToSet(s), d \in ToSet(v) : d.do \in After(c.do) BY <1>4, <1>5, <2>1
  <2>3. Ordered(s \o v) BY <1>4, <1>5, <1>6, <2>2, JoinOrdered
  <2> QED BY <1>7, <2>3
<1>11. About(w, x) BY <1>4, <1>5, <1>9 DEF About
<1>12. Cleans(w)
  <2>1. w[1].at = x /\ ToSet(v) \subseteq ToSet(w) BY <1>4, <1>9
  <2>2. \A y \in Providers \ {x[2]} : Has(w, "erase", <<x[1], y>>)
    BY <1>5, <2>1 DEF Has
  <2> QED BY <2>1, <2>2 DEF Cleans
<1>13. Has(w, "switch", x) BY <1>4, <1>9 DEF Has
<1>14. ~Does(w, "find") BY <1>4, <1>5, <1>9 DEF Does
<1>15. Does(w, "put") => Does(q, "put") BY <1>4, <1>5, <1>9 DEF Does
<1> QED BY <1>9, <1>10, <1>11, <1>12, <1>13, <1>14, <1>15, EmptySeq

LEMMA FindSmooth ==
  ASSUME IInv, StrayInv, NEW t \in Task, FindStep(t)
  PROVE  Smooth(t)
<1> DEFINE p == task[t].plan
           x == At(t)
           u == task[t].user
           mine == {i \in DOMAIN rows : rows[i].user = u /\ rows[i].addr = x[1]}
<1>1. /\ p # <<>> /\ Head(p).do = "find" /\ Todo(t, "find")
      /\ rows' = rows /\ secret' = secret /\ stray' = stray
  BY DEF FindStep, Todo, stores
<1>2. /\ p \in Seq(Part) /\ p[1].do = "find" /\ p[1] \in ToSet(p) /\ 1 \in 1 .. Len(p)
      /\ x = p[1].at /\ x \in Pair /\ Rest(p, 1, Tail(p))
  BY <1>1, PlanOf
<1>3. task[t].op \in Connecting BY <1>2, PlanOf DEF OtherParts
<1>4. Attaches(task[t]) BY <1>3 DEF StrayInv, ShapeInv, Shaped
<1>5. Ordered(p) /\ About(p, x)
  BY <1>2, <1>4 DEF Attaches, About, Establishing
<1>6. task[t] \in Request BY DEF IInv, TasksFit
<1>7. rows \in Seq(Mailbox) /\ DOMAIN rows = 1 .. Len(rows) /\ Len(rows) \in Nat
  BY LenProperties DEF IInv, Typed
<1>8. \A y \in Pair : Cares(task[t], rows, y) =>
        y = x /\ ~Does(p, "put") /\ Has(p, "commit", x)
  <2> SUFFICES ASSUME NEW y \in Pair, Cares(task[t], rows, y)
               PROVE  y = x /\ ~Does(p, "put") /\ Has(p, "commit", x)
    OBVIOUS
  <2>1. Head(p).do \in Establishing BY <1>1 DEF Establishing
  <2>2. y = x BY <1>1, <2>1, RefusedCares
  <2>3. ~Has(p, "erase", y) /\ ~Has(p, "switch", y) BY <1>1, <1>3, <2>1, NothingErased
  <2> QED BY <2>2, <2>3 DEF Cares, Settles
<1>9. \A k \in 1 .. Len(p) : k > 1 => p[k].do \in After("find")
  BY <1>2, <1>5 DEF Ordered
<1>10. "find" \notin After("find") /\ "switch" \notin After("find") BY DEF After
<1>11. CASE Advance(t)
  BY <1>1, <1>11, AdvanceOn
<1>12. ASSUME NEW i \in mine,
              Becomes(t, [task[t] EXCEPT !.row = i, !.seen = rows[i].prov, !.plan = Tail(@)])
       PROVE  Smooth(t)
  <2> DEFINE r == [task[t] EXCEPT !.row = i, !.seen = rows[i].prov, !.plan = Tail(@)]
             q == r.plan
  <2>1. /\ q = Tail(p) /\ r.op = task[t].op /\ r.row = i /\ r.seen = rows[i].prov
    BY <1>6 DEF Request
  <2>2. Becomes(t, r) BY <1>12
  <2> HIDE DEF r
  <2>3. Rest(p, 1, q) BY <1>2, <2>1
  <2>4. /\ q \in Seq(Part) /\ ToSet(q) \subseteq ToSet(p)
        /\ \A k \in 1 .. Len(q) : k + 1 \in 1 .. Len(p) /\ q[k] = p[k + 1]
        /\ \A d \in ToSet(p) : d \in ToSet(q) \/ d = p[1]
    BY <1>2, <2>3, CutOne
  <2>5. Ordered(q) /\ Cleans(q) /\ About(q, x)
    BY <1>2, <1>5, <2>3, CutShape
  <2>6. ~Does(q, "find") /\ ~Does(q, "switch")
    <3>1. ToSet(q) = {q[k] : k \in 1 .. Len(q)} BY <2>4, StepsOf
    <3>2. \A k \in 1 .. Len(q) : q[k].do \in After("find") BY <1>9, <2>4
    <3> QED BY <1>10, <3>1, <3>2 DEF Does
  <2>7. Shaped(r, rows)
    BY <1>2, <1>3, <2>1, <2>5, <2>6 DEF Shaped, Attaches
  <2>8. \A y \in Pair : Cares(task[t], rows, y) => Cares(r, rows, y)
    <3> SUFFICES ASSUME NEW y \in Pair, Cares(task[t], rows, y) PROVE Cares(r, rows, y)
      OBVIOUS
    <3>1. ~Does(q, "put") BY <1>8, <2>4 DEF Does
    <3>2. Has(q, "commit", y) BY <1>2, <1>8, <2>4 DEF Has
    <3> QED BY <1>3, <2>1, <3>1, <3>2 DEF Cares, Settles
  <2>9. Doomed(r) = {} BY <1>3, <2>1 DEF Doomed, Connecting
  <2> QED BY <1>1, <2>2, <2>7, <2>8, <2>9, SmoothTo
<1>13. ASSUME NEW i \in mine, rows[i].live,
              Becomes(t, [task[t] EXCEPT !.row = i, !.plan =
                 IF rows[i].prov = x[2] THEN Skip(t, 4)
                 ELSE Do("switch", x) \o EraseOthers(x) \o Skip(t, 4)])
       PROVE  Smooth(t)
  <2> DEFINE q == Skip(t, 4)
             long == Do("switch", x) \o EraseOthers(x) \o q
             n == IF rows[i].prov = x[2] THEN q ELSE long
             r == [task[t] EXCEPT !.row = i, !.plan = n]
  <2>1. Becomes(t, r) BY <1>13
  <2>2. Rest(p, 4, q) BY DEF Rest, Skip
  <2>3. /\ r.plan = n /\ r.op = task[t].op /\ r.row = i
    BY <1>6 DEF Request
  <2>4. /\ q \in Seq(Part) /\ ToSet(q) \subseteq ToSet(p)
        /\ \A k \in 1 .. Len(q) : k + 4 \in 1 .. Len(p) /\ q[k] = p[k + 4]
    <3> HIDE DEF p, q
    <3> QED BY <1>2, <2>2, CutFour
  <2>5. Ordered(q) /\ About(q, x) /\ Cleans(q)
    BY <1>2, <1>5, <2>2, CutShape
  <2> HIDE DEF q
  <2>6. \A d \in ToSet(q) : d.do \in {"put", "fill"}
    <3>1. Linked(p) BY <1>1, Here, FitsHead
    <3>2. 1 + 3 <= Len(p) /\ p[1 + 3].do = "commit" BY <1>2, <3>1 DEF Linked
    <3>3. 4 \in 1 .. Len(p) /\ p[4].do = "commit" BY <1>2, <3>2
    <3>4. \A k \in 1 .. Len(p) : k > 4 => p[k].do \in After("commit")
      BY <1>5, <3>3 DEF Ordered
    <3>5. \A k \in 1 .. Len(q) : q[k].do \in After("commit")
      <4>1. \A k \in 1 .. Len(q) : k + 4 > 4 OBVIOUS
      <4> QED BY <2>4, <3>4, <4>1
    <3>6. ToSet(q) = {q[k] : k \in 1 .. Len(q)} BY <2>4, StepsOf
    <3>7. After("commit") = {"put", "fill"} BY DEF After
    <3> QED BY <3>5, <3>6, <3>7
  <2>7. Doomed(r) = {} BY <1>3, <2>3 DEF Doomed, Connecting
  <2>8. i # NoRow BY <1>7 DEF NoRow
  <2>9. CASE rows[i].prov = x[2]
    <3>1. r.plan = q BY <2>3, <2>9
    <3> HIDE DEF r, n
    <3>2. Shaped(r, rows)
      <4>1. ~Does(q, "find") /\ ~Does(q, "switch") BY <2>6 DEF Does
      <4> QED BY <1>2, <1>3, <2>3, <2>5, <3>1, <4>1 DEF Shaped, Attaches
    <3>3. Holds(x)
      <4>1. x = <<x[1], x[2]>> BY <1>2 DEF Pair
      <4> QED BY <1>13, <2>9, <4>1 DEF Holds
    <3>4. \A y \in Pair : Cares(task[t], rows, y) => Holds(y) BY <1>8, <3>3
    <3> QED BY <1>1, <2>1, <2>7, <3>2, <3>4, SmoothTo
  <2>10. CASE rows[i].prov # x[2]
    <3>1. r.plan = long BY <2>3, <2>10
    <3>2. /\ long \in Seq(Part) /\ Ordered(long) /\ About(long, x) /\ Cleans(long)
          /\ Has(long, "switch", x) /\ ~Does(long, "find")
          /\ Does(long, "put") => Does(q, "put")
      BY <1>2, <2>4, <2>5, <2>6, Relocate
    <3> HIDE DEF long, r, n
    <3>3. Shaped(r, rows)
      BY <1>2, <1>3, <2>3, <2>8, <3>1, <3>2 DEF Shaped, Attaches
    <3>4. \A y \in Pair : Cares(task[t], rows, y) => Cares(r, rows, y)
      <4> SUFFICES ASSUME NEW y \in Pair, Cares(task[t], rows, y) PROVE Cares(r, rows, y)
        OBVIOUS
      <4>1. ~Does(long, "put") BY <1>8, <2>4, <3>2 DEF Does
      <4>2. Has(long, "switch", y) BY <1>8, <3>2
      <4> QED BY <1>3, <2>3, <3>1, <4>1, <4>2 DEF Cares, Settles
    <3> QED BY <1>1, <2>1, <2>7, <3>3, <3>4, SmoothTo
  <2> QED BY <2>9, <2>10
<1> QED BY <1>11, <1>12, <1>13 DEF FindStep

-----------------------------------------------------------------------------
\* Requests.

LEMMA Asked ==
  ASSUME IInv, NEW t \in Task, NEW op, NEW u, NEW r, NEW plan, Begin(t, op, u, r, plan)
  PROVE  /\ task'[t].op = op /\ task'[t].row = r /\ task'[t].plan = plan
         /\ task'[t].left = IF op = "deleteAccount" THEN Mailboxes(u) ELSE {}
         /\ task'[t].purged = IF op = "deleteAccount" THEN LiveRows(u) ELSE {}
         /\ rows' = rows /\ secret' = secret /\ stray' = stray
         /\ \A s \in Task \ {t} : task'[s] = task[s]
         /\ \A x : ~Cares(task[t], rows, x)
<1> DEFINE rec == [op |-> op, user |-> u, row |-> r, seen |-> "google", val |-> asked',
                   got |-> asked', plan |-> plan,
                   left |-> IF op = "deleteAccount" THEN Mailboxes(u) ELSE {},
                   purged |-> IF op = "deleteAccount" THEN LiveRows(u) ELSE {}]
<1>1. task' = [task EXCEPT ![t] = rec] BY DEF Begin
<1>2. /\ rec.op = op /\ rec.row = r /\ rec.plan = plan
      /\ rec.left = IF op = "deleteAccount" THEN Mailboxes(u) ELSE {}
      /\ rec.purged = IF op = "deleteAccount" THEN LiveRows(u) ELSE {}
  OBVIOUS
<1> HIDE DEF rec
<1>3. task'[t] = rec /\ \A s \in Task \ {t} : task'[s] = task[s]
  BY <1>1 DEF IInv, TasksFit
<1>4. rows' = rows /\ secret' = secret /\ stray' = stray BY DEF Begin, stores
<1>5. task[t].plan = <<>> BY DEF Begin, Idle
<1> QED BY <1>2, <1>3, <1>4, <1>5, SpentCares

\* A request that connects an address, as it begins.
LEMMA ConnectSmooth ==
  ASSUME IInv, StrayInv, NEW t \in Task, NEW op \in Connecting, NEW u, NEW plan,
         NEW x \in Pair, Line(plan, Establishing \cup {"account", "put", "fill"}, x),
         Begin(t, op, u, NoRow, plan)
  PROVE  Smooth(t)
<1> DEFINE r == task'[t]
<1>1. /\ r.op = op /\ r.row = NoRow /\ r.plan = plan
      /\ rows' = rows /\ secret' = secret /\ stray' = stray
      /\ \A s \in Task \ {t} : task'[s] = task[s]
      /\ \A y : ~Cares(task[t], rows, y)
  BY Asked
<1> HIDE DEF r
<1>2. /\ plan \in Seq(Part) /\ Ordered(plan)
      /\ \A d \in ToSet(plan) : d.do # "switch" /\ d.at = x
  BY DEF Line, Establishing
<1>3. Cleans(plan) BY <1>2, StepsOf DEF Cleans
<1>4. About(plan, x) BY <1>2 DEF About
<1>5. ~Does(plan, "switch") BY <1>2 DEF Does
<1>6. Shaped(r, rows) BY <1>1, <1>2, <1>3, <1>4, <1>5 DEF Shaped, Attaches
<1>7. Doomed(r) = {} BY <1>1 DEF Doomed, Connecting
<1> QED BY <1>1, <1>6, <1>7 DEF Smooth, r

\* A request that only reads or stores, as it begins.
LEMMA QuietSmooth ==
  ASSUME IInv, StrayInv, NEW t \in Task, NEW op \in {"sync", "webCallback"},
         NEW u, NEW i, NEW plan \in Seq(Part),
         \A d \in ToSet(plan) : d.do \in {"read", "put", "fill"},
         Begin(t, op, u, i, plan)
  PROVE  Smooth(t)
<1> DEFINE r == task'[t]
<1>1. /\ r.op = op /\ r.plan = plan /\ r.left = {}
      /\ rows' = rows /\ secret' = secret /\ stray' = stray
      /\ \A s \in Task \ {t} : task'[s] = task[s]
      /\ \A y : ~Cares(task[t], rows, y)
  BY Asked
<1> HIDE DEF r
<1>2. Ends(plan) BY QuietEnds DEF Final
<1>3. Doomed(r) = {} BY <1>1 DEF Doomed
<1>4. \A s \in {"loop", "inspect", "sever", "tombstone"} : ~Does(plan, s) BY DEF Does
<1>5. Removes(r, rows) BY <1>1, <1>2, <1>3, <1>4 DEF Removes
<1>6. Shaped(r, rows) BY <1>1, <1>5 DEF Shaped, Connecting
<1> QED BY <1>1, <1>3, <1>6 DEF Smooth, r

LEMMA QuietPlans ==
  ASSUME NEW x \in Pair
  PROVE  /\ Store(x) \in Seq(Part)
         /\ \A d \in ToSet(Store(x)) : d.do \in {"put", "fill"}
         /\ \A expired \in BOOLEAN :
              LET p == Do("read", x) \o Do("fill", x) \o IF expired THEN Store(x) ELSE <<>>
              IN  p \in Seq(Part) /\ \A d \in ToSet(p) : d.do \in {"read", "put", "fill"}
<1>1. "read" \in Parts /\ "put" \in Parts /\ "fill" \in Parts
  BY DEF Parts, ConnectParts, OtherParts
<1> DEFINE a == Do("read", x)
           b == Do("put", x)
           c == Do("fill", x)
           f == a \o c
           s == Store(x)
<1>2. /\ a \in Seq(Part) /\ ToSet(a) = {a[1]} /\ a[1].do = "read"
      /\ b \in Seq(Part) /\ ToSet(b) = {b[1]} /\ b[1].do = "put"
      /\ c \in Seq(Part) /\ ToSet(c) = {c[1]} /\ c[1].do = "fill"
  BY <1>1, OneLine
<1>3. s = b \o c BY DEF Store
<1> HIDE DEF a, b, c, s
<1>4. s \in Seq(Part) /\ ToSet(s) = ToSet(b) \cup ToSet(c) BY <1>2, <1>3, JoinSteps
<1>5. f \in Seq(Part) /\ ToSet(f) = ToSet(a) \cup ToSet(c) BY <1>2, JoinSteps
<1> HIDE DEF f
<1>6. ASSUME NEW z \in Seq(Part), ToSet(z) \subseteq ToSet(s)
      PROVE  f \o z \in Seq(Part) /\ \A d \in ToSet(f \o z) : d.do \in {"read", "put", "fill"}
  <2>1. f \o z \in Seq(Part) /\ ToSet(f \o z) = ToSet(f) \cup ToSet(z) BY <1>5, JoinSteps
  <2> QED BY <1>2, <1>4, <1>5, <1>6, <2>1
<1>7. <<>> \in Seq(Part) /\ ToSet(<<>>) = {}
  <2>1. <<>> \in Seq(Part) /\ Len(<<>>) = 0 BY EmptySeq
  <2>2. ToSet(<<>>) = {<<>>[k] : k \in 1 .. 0} BY <2>1, StepsOf
  <2>3. 1 .. 0 = {} OBVIOUS
  <2> QED BY <2>1, <2>2, <2>3
<1>8. \A d \in ToSet(s) : d.do \in {"put", "fill"} BY <1>2, <1>4
<1>9. ASSUME NEW expired \in BOOLEAN
      PROVE  /\ f \o (IF expired THEN s ELSE <<>>) \in Seq(Part)
             /\ \A d \in ToSet(f \o (IF expired THEN s ELSE <<>>)) :
                  d.do \in {"read", "put", "fill"}
  BY <1>4, <1>6, <1>7
<1> QED BY <1>4, <1>8, <1>9 DEF a, c, f, s

LEMMA DisconnectSmooth ==
  ASSUME IInv, StrayInv, NEW t \in Task, NEW u, NEW i \in DOMAIN rows, Disconnect(t, u, i)
  PROVE  Smooth(t)
<1> DEFINE r == task'[t]
           x == PairOf(rows[i])
           p == DisconnectPlan(x)
<1>1. Begin(t, "disconnect", u, i, p) BY DEF Disconnect, PairOf
<1>2. i \in 1 .. Len(rows) /\ rows[i] \in Mailbox
  BY LenProperties, ElementOfSeq DEF IInv, Typed
<1>3. x \in Pair /\ x[1] = rows[i].addr BY <1>2 DEF PairOf, Mailbox, Pair
<1> HIDE DEF x
<1>4. /\ p \in Seq(Part) /\ p # <<>> /\ Ends(p) /\ Ahead(p, x)
      /\ \A d \in ToSet(p) : d.at = x /\ d.do \in {"drop", "erase", "tombstone"}
  BY <1>3, DisconnectSteps
<1> HIDE DEF p
<1>5. /\ r.op = "disconnect" /\ r.row = i /\ r.plan = p /\ r.left = {}
      /\ rows' = rows /\ secret' = secret /\ stray' = stray
      /\ \A s \in Task \ {t} : task'[s] = task[s]
      /\ \A y : ~Cares(task[t], rows, y)
  BY <1>1, Asked
<1> HIDE DEF r
<1>6. Doomed(r) = {i} BY <1>5 DEF Doomed
<1>7. \A s \in {"loop", "inspect", "sever", "put"} : ~Does(p, s) BY <1>4 DEF Does
<1>8. \A d \in ToSet(p) : d.at[1] = rows[i].addr BY <1>3, <1>4
<1>9. Removes(r, rows) BY <1>2, <1>4, <1>5, <1>6, <1>7, <1>8 DEF Removes
<1>10. Shaped(r, rows) BY <1>5, <1>9 DEF Shaped, Connecting
<1>11. \A j \in Doomed(r) : Known(r, secret, stray, PairOf(rows[j]))
  BY <1>4, <1>5, <1>6 DEF Known, x
<1> QED BY <1>5, <1>10, <1>11 DEF Smooth, r

LEMMA DeleteSmooth ==
  ASSUME IInv, StrayInv, NEW t \in Task, NEW u \in User, DeleteAccount(t, u)
  PROVE  Smooth(t)
<1> DEFINE r == task'[t]
           p == DeletePlan(u)
<1>1. Begin(t, "deleteAccount", u, NoRow, p) BY DEF DeleteAccount
<1>2. /\ p \in Seq(Part) /\ Ends(p) /\ Does(p, "loop")
      /\ ~Does(p, "put") /\ ~Does(p, "tombstone")
  BY DeleteSteps
<1> HIDE DEF p
<1>3. /\ r.op = "deleteAccount" /\ r.plan = p
      /\ r.left = Mailboxes(u) /\ r.purged = LiveRows(u)
      /\ rows' = rows /\ secret' = secret /\ stray' = stray
      /\ \A s \in Task \ {t} : task'[s] = task[s]
      /\ \A y : ~Cares(task[t], rows, y)
  BY <1>1, Asked
<1> HIDE DEF r
<1>4. DOMAIN rows = 1 .. Len(rows) BY LenProperties DEF IInv, Typed
<1>5. Doomed(r) = LiveRows(u) BY <1>3 DEF Doomed
<1>6. Removes(r, rows) BY <1>2, <1>3, <1>4, <1>5 DEF Removes, LiveRows
<1>7. Shaped(r, rows) BY <1>3, <1>6 DEF Shaped, Connecting
<1>8. \A j \in Doomed(r) : Known(r, secret, stray, PairOf(rows[j]))
  <2> SUFFICES ASSUME NEW j \in LiveRows(u) PROVE Known(r, secret, stray, PairOf(rows[j]))
    BY <1>5
  <2> DEFINE m == [id |-> j, at |-> <<rows[j].addr, rows[j].prov>>]
  <2>1. m \in r.left BY <1>3 DEF Mailboxes
  <2>2. m.at[1] = PairOf(rows[j])[1] BY DEF PairOf
  <2> QED BY <2>1, <2>2 DEF Known
<1> QED BY <1>3, <1>7, <1>8 DEF Smooth, r

LEMMA RequestSmooth ==
  ASSUME IInv, StrayInv, NEW t \in Task, Requests(t)
  PROVE  Smooth(t)
<1>1. PICK u \in User :
        \/ GoogleSignIn(t, u) \/ DeleteAccount(t, u) \/ WebCallback(t, u)
        \/ \E p \in Imap : ImapSignIn(t, u, p)
        \/ \E a \in Address : AddGoogle(t, u, a)
        \/ \E a \in Address, p \in Imap : AddImap(t, u, a, p)
        \/ \E i \in DOMAIN rows : Disconnect(t, u, i)
        \/ \E i \in DOMAIN rows, expired \in BOOLEAN : Sync(t, u, i, expired)
  BY DEF Requests
<1>2. Home[u] \in Address BY CredentialsAssumption
<1>3. \A a \in Address, p \in Providers : <<a, p>> \in Pair BY DEF Pair
<1>4. "google" \in Providers /\ Imap \subseteq Providers BY DEF Providers
<1>5. {"googleSignIn", "imapSignIn", "addGoogle", "addImap"} \subseteq Connecting
  BY DEF Connecting
<1>6. \A i \in DOMAIN rows : <<rows[i].addr, rows[i].prov>> \in Pair
  <2> TAKE i \in DOMAIN rows
  <2>1. rows[i] \in Mailbox BY LenProperties DEF IInv, Typed
  <2> QED BY <2>1 DEF Mailbox, Pair
<1>7. CASE GoogleSignIn(t, u)
  <2> DEFINE x == <<Home[u], "google">>
  <2>1. x \in Pair BY <1>2, <1>3, <1>4
  <2>2. Begin(t, "googleSignIn", u, NoRow, SignInPlan(x)) BY <1>7 DEF GoogleSignIn
  <2> HIDE DEF x
  <2> QED BY <1>5, <2>1, <2>2, ConnectLines, ConnectSmooth
<1>8. CASE DeleteAccount(t, u) BY <1>8, DeleteSmooth
<1>9. CASE WebCallback(t, u)
  <2> DEFINE x == <<Home[u], "google">>
  <2>1. x \in Pair BY <1>2, <1>3, <1>4
  <2>2. Begin(t, "webCallback", u, NoRow, Store(x)) BY <1>9 DEF WebCallback
  <2> HIDE DEF x
  <2>3. Store(x) \in Seq(Part) /\ \A d \in ToSet(Store(x)) : d.do \in {"read", "put", "fill"}
    BY <2>1, QuietPlans
  <2> QED BY <2>2, <2>3, QuietSmooth
<1>10. ASSUME NEW p \in Imap, ImapSignIn(t, u, p) PROVE Smooth(t)
  <2> DEFINE x == <<Home[u], p>>
  <2>1. x \in Pair BY <1>2, <1>3, <1>4
  <2>2. Begin(t, "imapSignIn", u, NoRow, Store(x) \o Do("account", x) \o Ensure(x))
    BY <1>10 DEF ImapSignIn
  <2> HIDE DEF x
  <2> QED BY <1>5, <2>1, <2>2, ConnectLines, ConnectSmooth
<1>11. ASSUME NEW a \in Address, AddGoogle(t, u, a) PROVE Smooth(t)
  <2> DEFINE x == <<a, "google">>
  <2>1. x \in Pair BY <1>3, <1>4
  <2>2. Begin(t, "addGoogle", u, NoRow, Ensure(x) \o Store(x))
    BY <1>11 DEF AddGoogle
  <2> HIDE DEF x
  <2> QED BY <1>5, <2>1, <2>2, ConnectLines, ConnectSmooth
<1>12. ASSUME NEW a \in Address, NEW p \in Imap, AddImap(t, u, a, p) PROVE Smooth(t)
  <2> DEFINE x == <<a, p>>
  <2>1. x \in Pair BY <1>3, <1>4
  <2>2. Begin(t, "addImap", u, NoRow, Store(x) \o Ensure(x))
    BY <1>12 DEF AddImap
  <2> HIDE DEF x
  <2> QED BY <1>5, <2>1, <2>2, ConnectLines, ConnectSmooth
<1>13. ASSUME NEW i \in DOMAIN rows, Disconnect(t, u, i) PROVE Smooth(t)
  BY <1>13, DisconnectSmooth
<1>14. ASSUME NEW i \in DOMAIN rows, NEW expired \in BOOLEAN, Sync(t, u, i, expired)
       PROVE  Smooth(t)
  <2> DEFINE x == <<rows[i].addr, rows[i].prov>>
             p == Do("read", x) \o Do("fill", x) \o IF expired THEN Store(x) ELSE <<>>
  <2>1. x \in Pair BY <1>6
  <2>2. Begin(t, "sync", u, i, p) BY <1>14 DEF Sync
  <2> HIDE DEF x
  <2>3. p \in Seq(Part) /\ \A d \in ToSet(p) : d.do \in {"read", "put", "fill"}
    BY <2>1, QuietPlans
  <2> HIDE DEF p
  <2> QED BY <2>2, <2>3, QuietSmooth
<1> QED BY <1>1, <1>7, <1>8, <1>9, <1>10, <1>11, <1>12, <1>13, <1>14

-----------------------------------------------------------------------------
\* Steps that change a secret.

\* A mailbox that another request is about to remove is being removed.
LEMMA Watched ==
  ASSUME IInv, StrayInv, NEW t \in Task, NEW s \in Task \ {t}, NEW i \in Doomed(task[s])
  PROVE  Removing(t, rows[i].addr)
<1>1. CASE task[s].op = "disconnect"
  <2> DEFINE p == task[s].plan
  <2>1. i = task[s].row BY <1>1 DEF Doomed
  <2>2. p # <<>> /\ \A d \in ToSet(p) : d.at[1] = rows[i].addr
    BY <1>1, <2>1 DEF StrayInv, ShapeInv, Shaped, Removes, Connecting
  <2>3. p \in Seq(Part) BY PlanOf
  <2>4. 1 \in DOMAIN p /\ p[1] \in ToSet(p) BY <2>2, <2>3, StepsOf
  <2> QED BY <1>1, <2>2, <2>4 DEF Removing
<1>2. CASE task[s].op = "deleteAccount"
  BY <1>2 DEF Doomed, Removing
<1> QED BY <1>1, <1>2 DEF Doomed

LEMMA DoomedRows ==
  ASSUME IInv, StrayInv, NEW s \in Task, NEW i \in Doomed(task[s])
  PROVE  i \in 1 .. Len(rows) /\ rows[i] \in Mailbox /\ PairOf(rows[i]) \in Pair
<1>1. Shaped(task[s], rows) BY DEF StrayInv, ShapeInv
<1>2. task[s].op \in Connecting => Doomed(task[s]) = {} BY DEF Doomed, Connecting
<1>3. i \in 1 .. Len(rows) BY <1>1, <1>2 DEF Shaped, Removes
<1>4. rows[i] \in Mailbox BY <1>3, ElementOfSeq DEF IInv, Typed
<1> QED BY <1>3, <1>4 DEF Mailbox, Pair, PairOf

\* The rows keep the providers that a request looks at.
LEMMA CaresSame ==
  ASSUME IInv, NEW s \in Task, \A i \in 1 .. Len(rows) : rows'[i].prov = rows[i].prov,
         NEW x, Cares(task[s], rows, x)
  PROVE  Cares(task[s], rows', x)
<1>1. task[s].row \in Nat /\ task[s].row <= Len(rows) BY DEF IInv, TasksFit, Fits, Request
<1>2. Len(rows) \in Nat BY LenProperties DEF IInv, Typed
<1>3. task[s].row # NoRow => task[s].row \in 1 .. Len(rows) BY <1>1, <1>2 DEF NoRow
<1> QED BY <1>3 DEF Cares, Settles

LEMMA StoreTurn ==
  ASSUME IInv, StrayInv, NEW t \in Task, NEW x \in Pair, rows' = rows,
         \A s \in Task \ {t} : task'[s] = task[s],
         \A y \in Pair \ {x} : secret'[y] = secret[y] /\ (y \in stray => y \in stray'),
         Shaped(task'[t], rows),
         \A y \in Pair \ {x} : Cares(task[t], rows, y) => Cares(task'[t], rows, y),
         secret'[x] # NoGrant =>
           Holds(x) \/ x \in stray' \/ \E s \in Task : Cares(task'[s], rows, x),
         \A i \in Doomed(task'[t]) : Known(task'[t], secret', stray', PairOf(rows[i])),
         \A s \in Task \ {t} : \A i \in Doomed(task[s]) :
           PairOf(rows[i]) = x => secret'[x] = NoGrant \/ x \in stray'
  PROVE  StrayInv'
<1>1. ShapeInv'
  <2> SUFFICES ASSUME NEW s \in Task PROVE Shaped(task'[s], rows) BY DEF ShapeInv
  <2>1. Shaped(task[s], rows) BY DEF StrayInv, ShapeInv
  <2>2. s # t => task'[s] = task[s] OBVIOUS
  <2> QED BY <2>1, <2>2
<1>2. Kept'
  <2> SUFFICES ASSUME NEW y \in Pair, secret'[y] # NoGrant
               PROVE  \/ Holds(y)' \/ y \in stray'
                      \/ \E s \in Task : Cares(task'[s], rows', y)
    BY DEF Kept
  <2>1. Holds(y) => Holds(y)' BY DEF Holds
  <2>2. CASE y = x BY <2>1, <2>2
  <2>3. CASE y # x
    <3>1. y \in Pair \ {x} BY <2>3
    <3>2. secret[y] # NoGrant BY <3>1
    <3>3. Holds(y) \/ y \in stray \/ \E s \in Task : Cares(task[s], rows, y)
      BY <3>2 DEF StrayInv, Kept
    <3>4. ASSUME NEW s \in Task, Cares(task[s], rows, y) PROVE Cares(task'[s], rows, y)
      <4>1. s # t => task'[s] = task[s] OBVIOUS
      <4> QED BY <3>1, <3>4, <4>1
    <3> QED BY <2>1, <3>1, <3>3, <3>4
  <2> QED BY <2>2, <2>3
<1>3. Gone'
  <2> SUFFICES ASSUME NEW s \in Task, NEW i \in Doomed(task'[s])
               PROVE  Known(task'[s], secret', stray', PairOf(rows[i]))
    BY DEF Gone
  <2> DEFINE y == PairOf(rows[i])
  <2>1. CASE s = t BY <2>1
  <2>2. CASE s # t
    <3>1. task'[s] = task[s] BY <2>2
    <3>2. Known(task[s], secret, stray, y) BY <3>1 DEF StrayInv, Gone
    <3>3. y \in Pair BY <3>1, DoomedRows
    <3>4. y = x => secret'[x] = NoGrant \/ x \in stray' BY <2>2, <3>1
    <3>5. y # x => secret'[y] = secret[y] /\ (y \in stray => y \in stray') BY <3>3
    <3> HIDE DEF y
    <3> QED BY <3>1, <3>2, <3>4, <3>5 DEF Known, y
  <2> QED BY <2>1, <2>2
<1> QED BY <1>1, <1>2, <1>3 DEF StrayInv

LEMMA PutKeeps ==
  ASSUME IInv, StrayInv, NEW t \in Task, PutStep(t)
  PROVE  StrayInv'
<1> DEFINE p == task[t].plan
           x == At(t)
           r == [task[t] EXCEPT !.plan = Tail(@)]
           q == Tail(p)
<1>1. /\ p # <<>> /\ Head(p).do = "put" /\ Becomes(t, r) /\ rows' = rows
      /\ secret' = [secret EXCEPT ![x] = task[t].val]
      /\ stray' = stray \cup {y \in {x} : (~Planned(t, "find") /\ ~Holds(x)) \/ Removing(t, x[1])}
  BY DEF PutStep, Todo
<1>2. task[t] \in Request BY DEF IInv, TasksFit
<1>3. /\ r.plan = q /\ r.op = task[t].op /\ r.row = task[t].row
      /\ r.left = task[t].left /\ r.purged = task[t].purged
  BY <1>2 DEF Request
<1>4. /\ p \in Seq(Part) /\ p[1].do = "put" /\ p[1] \in ToSet(p) /\ 1 \in 1 .. Len(p)
      /\ x = p[1].at /\ x \in Pair /\ Rest(p, 1, q)
  BY <1>1, PlanOf
<1>5. /\ task'[t] = IF q = <<>> THEN Idle ELSE r
      /\ \A s \in Task \ {t} : task'[s] = task[s]
  BY <1>1, <1>3, BecomesWhat
<1>6. /\ \A y \in Pair \ {x} : secret'[y] = secret[y] /\ (y \in stray => y \in stray')
      /\ Removing(t, x[1]) => x \in stray'
      /\ ~Planned(t, "find") /\ ~Holds(x) => x \in stray'
  BY <1>1, <1>4 DEF IInv, Typed
<1> HIDE DEF r, x, q
<1>7. Shaped(task[t], rows) BY DEF StrayInv, ShapeInv
<1>8. /\ ToSet(q) \subseteq ToSet(p) /\ q \in Seq(Part)
      /\ \A d \in ToSet(p) : d \in ToSet(q) \/ d = p[1]
      /\ \A j \in 1 .. Len(q) : j + 1 \in 1 .. Len(p) /\ q[j] = p[j + 1]
  BY <1>4, CutOne
<1>9. \A d \in ToSet(p) : d.do # "put" => d \in ToSet(q) BY <1>4, <1>8
<1>10. q # <<>> => Shaped(r, rows)
  <2>1. r.op \notin Connecting /\ r.left # {} => Does(q, "loop")
    <3>1. r.op \notin Connecting /\ r.left # {} => Does(p, "loop")
      BY <1>3, <1>7 DEF Shaped, Removes
    <3> QED BY <1>9, <3>1 DEF Does
  <2>2. r.purged \subseteq task[t].purged /\ 1 > 0 /\ 1 \in Nat BY <1>3
  <2> HIDE DEF p
  <2> QED BY <1>3, <1>4, <1>7, <2>1, <2>2, RestShaped DEF p
<1>11. Shaped(task'[t], rows) BY <1>5, <1>10, IdleShaped
<1>12. \A y : ~Cares(task[t], rows, y)
  <2>1. Does(p, "put") BY <1>4 DEF Does
  <2> QED BY <1>1, <2>1, NothingErased DEF Cares, Settles
<1>13. secret'[x] # NoGrant =>
         Holds(x) \/ x \in stray' \/ \E s \in Task : Cares(task'[s], rows, x)
  <2> SUFFICES ASSUME Planned(t, "find") PROVE Cares(task'[t], rows, x) BY <1>6
  <2>1. PICK k \in 1 .. Len(p) : p[k].do = "find" BY <1>4, StepsOf DEF Planned
  <2>2. p[k] \in ToSet(p) /\ Len(p) \in Nat
    <3>1. ToSet(p) = {p[i] : i \in 1 .. Len(p)} /\ Len(p) \in Nat BY <1>4, StepsOf
    <3> QED BY <3>1
  <2>3. task[t].op \in Connecting BY <2>1, <2>2, PlanOf DEF OtherParts
  <2>4. Attaches(task[t]) BY <1>7, <2>3 DEF Shaped
  <2>5. task[t].row = NoRow BY <2>1, <2>2, <2>4 DEF Attaches, Does
  <2>6. Linked(p) BY <1>1, Here, FitsHead
  <2>7. k + 3 \in 1 .. Len(p) /\ p[k + 3].do = "commit" BY <2>1, <2>2, <2>6 DEF Linked
  <2>8. p[k + 3] \in ToSet(p)
    <3>1. ToSet(p) = {p[i] : i \in 1 .. Len(p)} BY <1>4, StepsOf
    <3> QED BY <2>7, <3>1
  <2>9. PICK z \in Pair : About(p, z) BY <2>4 DEF Attaches
  <2>10. p[k + 3].at = x BY <1>4, <2>7, <2>8, <2>9 DEF About, Establishing
  <2>11. p[k + 3] \in ToSet(q) BY <1>9, <2>7, <2>8
  <2>12. Has(q, "commit", x) BY <2>7, <2>10, <2>11 DEF Has
  <2>13. ~Does(q, "put")
    <3>1. Ordered(p) BY <2>4 DEF Attaches
    <3>2. "put" \notin After("put") BY DEF After, Establishing
    <3>4. \A j \in 1 .. Len(q) : q[j].do \in After("put")
      <4> TAKE j \in 1 .. Len(q)
      <4>1. j + 1 \in 1 .. Len(p) /\ q[j] = p[j + 1] /\ 1 < j + 1 BY <1>8
      <4> QED BY <1>4, <3>1, <4>1 DEF Ordered
    <3>5. ToSet(q) = {q[j] : j \in 1 .. Len(q)} BY <1>8, StepsOf
    <3> QED BY <3>2, <3>4, <3>5 DEF Does
  <2>14. Cares(r, rows, x)
    BY <1>3, <2>3, <2>5, <2>12, <2>13 DEF Cares, Settles
  <2>15. q # <<>> BY <1>3, <2>14, SpentCares
  <2> QED BY <1>5, <2>14, <2>15
<1>14. Doomed(task'[t]) = {}
  <2>1. task[t].op \notin {"disconnect", "deleteAccount"}
    BY <1>4, <1>7 DEF Shaped, Removes, Does, Connecting
  <2>2. Doomed(r) = {} BY <1>3, <2>1 DEF Doomed
  <2> QED BY <1>5, <2>2, IdleShaped
<1>15. \A s \in Task \ {t} : \A i \in Doomed(task[s]) : PairOf(rows[i]) = x => x \in stray'
  <2> SUFFICES ASSUME NEW s \in Task \ {t}, NEW i \in Doomed(task[s]), PairOf(rows[i]) = x
               PROVE  x \in stray'
    OBVIOUS
  <2>1. x[1] = rows[i].addr BY DEF PairOf
  <2> QED BY <1>6, <2>1, Watched
<1>16. /\ x \in Pair /\ rows' = rows /\ \A s \in Task \ {t} : task'[s] = task[s]
       /\ \A y \in Pair \ {x} : secret'[y] = secret[y] /\ (y \in stray => y \in stray')
  BY <1>1, <1>4, <1>5, <1>6
<1>17. \A y \in Pair \ {x} : Cares(task[t], rows, y) => Cares(task'[t], rows, y) BY <1>12
<1>18. \A i \in Doomed(task'[t]) : Known(task'[t], secret', stray', PairOf(rows[i])) BY <1>14
<1>19. \A s \in Task \ {t} : \A i \in Doomed(task[s]) :
         PairOf(rows[i]) = x => secret'[x] = NoGrant \/ x \in stray'
  BY <1>15
<1> QED BY <1>11, <1>13, <1>16, <1>17, <1>18, <1>19, StoreTurn

LEMMA EraseKeeps ==
  ASSUME IInv, StrayInv, NEW t \in Task, EraseStep(t)
  PROVE  StrayInv'
<1> DEFINE p == task[t].plan
           x == At(t)
           r == [task[t] EXCEPT !.plan = Tail(@)]
           q == Tail(p)
<1>1. /\ p # <<>> /\ Head(p).do = "erase" /\ Becomes(t, r) /\ rows' = rows
      /\ \/ secret' = [secret EXCEPT ![x] = NoGrant] /\ stray' = stray \ {x}
         \/ secret' = secret /\ stray' = stray \cup {y \in {x} : secret[y] # NoGrant}
  BY DEF EraseStep, Todo, Advance
<1>2. task[t] \in Request BY DEF IInv, TasksFit
<1>3. /\ r.plan = q /\ r.op = task[t].op /\ r.row = task[t].row /\ r.seen = task[t].seen
      /\ r.left = task[t].left /\ r.purged = task[t].purged
  BY <1>2 DEF Request
<1>4. /\ p \in Seq(Part) /\ p[1].do = "erase" /\ p[1] \in ToSet(p) /\ 1 \in 1 .. Len(p)
      /\ x = p[1].at /\ x \in Pair /\ Rest(p, 1, q)
  BY <1>1, PlanOf
<1>5. /\ task'[t] = IF q = <<>> THEN Idle ELSE r
      /\ \A s \in Task \ {t} : task'[s] = task[s]
  BY <1>1, <1>3, BecomesWhat
<1>6. /\ \A y \in Pair \ {x} : secret'[y] = secret[y] /\ (y \in stray => y \in stray')
      /\ secret'[x] = NoGrant \/ x \in stray'
  BY <1>1, <1>4 DEF IInv, Typed
<1> HIDE DEF r, x, q
<1>7. Shaped(task[t], rows) BY DEF StrayInv, ShapeInv
<1>8. /\ ToSet(q) \subseteq ToSet(p) /\ q \in Seq(Part)
      /\ \A d \in ToSet(p) : d \in ToSet(q) \/ d = p[1]
      /\ \A j \in 1 .. Len(q) : j + 1 \in 1 .. Len(p) /\ q[j] = p[j + 1]
  BY <1>4, CutOne
<1>9. \A d \in ToSet(p) : d \in ToSet(q) \/ (d.do = "erase" /\ d.at = x) BY <1>4, <1>8
<1>10. q # <<>> => Shaped(r, rows)
  <2>1. r.op \notin Connecting /\ r.left # {} => Does(q, "loop")
    <3>1. r.op \notin Connecting /\ r.left # {} => Does(p, "loop")
      BY <1>3, <1>7 DEF Shaped, Removes
    <3> QED BY <1>9, <3>1 DEF Does
  <2>2. r.purged \subseteq task[t].purged /\ 1 > 0 /\ 1 \in Nat BY <1>3
  <2> HIDE DEF p
  <2> QED BY <1>3, <1>4, <1>7, <2>1, <2>2, RestShaped DEF p
<1>11. Shaped(task'[t], rows) BY <1>5, <1>10, IdleShaped
<1>12. \A y \in Pair \ {x} : Cares(task[t], rows, y) => Cares(task'[t], rows, y)
  <2> SUFFICES ASSUME NEW y \in Pair \ {x}, Cares(task[t], rows, y)
               PROVE  Cares(task'[t], rows, y)
    OBVIOUS
  <2>1. \A s : Has(p, s, y) => Has(q, s, y) BY <1>9 DEF Has
  <2>2. Does(q, "put") => Does(p, "put") BY <1>8 DEF Does
  <2>3. Cares(r, rows, y) BY <1>3, <2>1, <2>2 DEF Cares, Settles
  <2>4. q # <<>> BY <1>3, <2>3, SpentCares
  <2> QED BY <1>5, <2>3, <2>4
<1>13. \A i \in Doomed(task'[t]) : Known(task'[t], secret', stray', PairOf(rows[i]))
  <2> SUFFICES ASSUME NEW i \in Doomed(task'[t])
               PROVE  Known(task'[t], secret', stray', PairOf(rows[i]))
    OBVIOUS
  <2> DEFINE y == PairOf(rows[i])
  <2>1. task'[t] = r BY <1>5, IdleShaped
  <2>2. i \in Doomed(task[t]) BY <1>3, <2>1 DEF Doomed
  <2>3. Known(task[t], secret, stray, y) BY <2>2 DEF StrayInv, Gone
  <2>4. y \in Pair BY <2>2, DoomedRows
  <2> HIDE DEF y
  <2>5. CASE y = x BY <1>6, <2>1, <2>5 DEF Known, y
  <2>6. CASE y # x
    <3>1. secret'[y] = secret[y] /\ (y \in stray => y \in stray') BY <1>6, <2>4, <2>6
    <3>2. Ahead(p, y) => Ahead(q, y) \/ \E k \in 1 .. Len(p) : k <= 1 /\ p[k].at = y
      <4> HIDE DEF p
      <4> QED BY <1>4, CutShape
    <3>3. \A k \in 1 .. Len(p) : k <= 1 => p[k].at = x BY <1>4
    <3>4. Ahead(p, y) => Ahead(q, y) BY <2>6, <3>2, <3>3
    <3>5. Known(r, secret', stray', y) BY <1>3, <2>3, <3>1, <3>4 DEF Known
    <3> QED BY <2>1, <3>5 DEF y
  <2> QED BY <2>5, <2>6
<1> QED BY <1>1, <1>4, <1>5, <1>6, <1>11, <1>12, <1>13, StoreTurn

-----------------------------------------------------------------------------
\* Steps that record a mailbox.

\* The row m comes to life or moves to the provider of x; rows may be added.
LEMMA RowTurn ==
  ASSUME IInv, StrayInv, NEW t \in Task, NEW x \in Pair, NEW m, Grown(rows, rows'),
         \A i \in 1 .. Len(rows) : i # m => rows'[i] = rows[i],
         m \in 1 .. Len(rows) =>
           /\ rows[m].addr = x[1]
           /\ rows[m].live => rows'[m].live
           /\ \/ rows'[m].prov = rows[m].prov
              \/ /\ rows'[m].prov = x[2]
                 /\ \A q \in Providers \ {x[2]} : Cares(task'[t], rows', <<x[1], q>>),
         secret' = secret, stray \subseteq stray', Removing(t, x[1]) => x \in stray',
         \A s \in Task \ {t} : task'[s] = task[s],
         Shaped(task'[t], rows'), Doomed(task'[t]) = {},
         \A y \in Pair : Cares(task[t], rows, y) =>
           Cares(task'[t], rows', y) \/ Holds(y)' \/ y \in stray'
  PROVE  StrayInv'
<1>1. /\ rows \in Seq(Mailbox) /\ DOMAIN rows = 1 .. Len(rows) /\ Len(rows) \in Nat
      /\ DOMAIN rows' = 1 .. Len(rows') /\ Len(rows') \in Nat /\ Len(rows) <= Len(rows')
      /\ \A i \in 1 .. Len(rows) : rows'[i].addr = rows[i].addr
      /\ \A i \in 1 .. Len(rows) : rows[i] \in Mailbox
  BY LenProperties, ElementOfSeq DEF IInv, Typed, Grown
<1>2. ShapeInv'
  <2> SUFFICES ASSUME NEW s \in Task PROVE Shaped(task'[s], rows') BY DEF ShapeInv
  <2>1. Shaped(task[s], rows) BY DEF StrayInv, ShapeInv
  <2>2. Shaped(task[s], rows') BY <1>1, <2>1, ShapedGrown
  <2>3. s # t => task'[s] = task[s] OBVIOUS
  <2> QED BY <2>2, <2>3
<1>3. ASSUME NEW i \in 1 .. Len(rows), rows'[i].prov # rows[i].prov
      PROVE  /\ i = m /\ rows[i].addr = x[1] /\ rows'[i].prov = x[2]
             /\ Cares(task'[t], rows', PairOf(rows[i]))
  <2>1. i = m BY <1>3
  <2>2. /\ rows[i].addr = x[1] /\ rows'[i].prov = x[2]
        /\ \A q \in Providers \ {x[2]} : Cares(task'[t], rows', <<x[1], q>>)
    BY <1>3, <2>1
  <2>3. rows[i].prov \in Providers \ {x[2]} BY <1>1, <1>3, <2>2 DEF Mailbox
  <2> QED BY <2>1, <2>2, <2>3 DEF PairOf
<1>4. Kept'
  <2> SUFFICES ASSUME NEW y \in Pair, secret'[y] # NoGrant
               PROVE  \/ Holds(y)' \/ y \in stray'
                      \/ \E s \in Task : Cares(task'[s], rows', y)
    BY DEF Kept
  <2>1. Holds(y) \/ y \in stray \/ \E s \in Task : Cares(task[s], rows, y)
    BY DEF StrayInv, Kept
  <2>2. CASE Holds(y)
    <3>1. PICK i \in 1 .. Len(rows) : rows[i].live /\ PairOf(rows[i]) = y
      BY <1>1, <2>2 DEF Holds, PairOf
    <3>2. CASE rows'[i].prov = rows[i].prov
      <4>1. rows'[i].live /\ PairOf(rows'[i]) = y BY <1>1, <3>1, <3>2 DEF PairOf
      <4>2. i \in DOMAIN rows' BY <1>1
      <4> QED BY <4>1, <4>2 DEF Holds, PairOf
    <3>3. CASE rows'[i].prov # rows[i].prov BY <1>3, <3>1, <3>3
    <3> QED BY <3>2, <3>3
  <2>3. ASSUME NEW s \in Task, Cares(task[s], rows, y)
        PROVE  \/ Holds(y)' \/ y \in stray'
               \/ \E z \in Task : Cares(task'[z], rows', y)
    <3>1. CASE s = t BY <2>3, <3>1
    <3>2. CASE s # t
      <4> DEFINE n == task[s].row
      <4>1. task'[s] = task[s] BY <3>2
      <4>2. task[s].op \in Connecting BY <2>3 DEF Cares
      <4>3. CASE n \in 1 .. Len(rows) /\ rows'[n].prov # rows[n].prov
        <5>1. CASE rows[n].prov = y[2] /\ Has(task[s].plan, "commit", y)
          <6>1. PICK a \in Address :
                  Plan(task[s].plan, ConnectParts, {a}) /\ Aimed(task[s], rows, a)
            BY <4>2 DEF IInv, TasksFit, Fits
          <6>2. PICK d \in ToSet(task[s].plan) : d.at = y BY <5>1 DEF Has
          <6>3. d.at[1] = a
            <7>1. ToSet(task[s].plan) = {task[s].plan[k] : k \in 1 .. Len(task[s].plan)}
              BY PlanOf, StepsOf
            <7> QED BY <6>1, <6>2, <7>1 DEF Plan
          <6>4. rows[n].addr = y[1] BY <4>3, <6>1, <6>2, <6>3 DEF Aimed, NoRow
          <6>5. y = <<y[1], y[2]>> BY DEF Pair
          <6>6. PairOf(rows[n]) = y BY <5>1, <6>4, <6>5 DEF PairOf
          <6> QED BY <1>3, <4>3, <6>6
        <5>2. CASE ~(rows[n].prov = y[2] /\ Has(task[s].plan, "commit", y))
          BY <2>3, <4>1, <5>2 DEF Cares, Settles
        <5> QED BY <5>1, <5>2
      <4>4. CASE ~(n \in 1 .. Len(rows) /\ rows'[n].prov # rows[n].prov)
        <5>1. n \in Nat /\ n <= Len(rows) BY DEF IInv, TasksFit, Fits, Request
        <5>2. n # NoRow => rows'[n].prov = rows[n].prov BY <1>1, <4>4, <5>1 DEF NoRow
        <5> QED BY <2>3, <4>1, <5>2 DEF Cares, Settles
      <4> QED BY <4>3, <4>4
    <3> QED BY <3>1, <3>2
  <2> QED BY <2>1, <2>2, <2>3
<1>5. Gone'
  <2> SUFFICES ASSUME NEW s \in Task, NEW i \in Doomed(task'[s])
               PROVE  Known(task'[s], secret', stray', PairOf(rows'[i]))
    BY DEF Gone
  <2>1. s # t OBVIOUS
  <2>2. task'[s] = task[s] /\ s \in Task \ {t} BY <2>1
  <2>3. i \in 1 .. Len(rows) BY <2>2, DoomedRows
  <2>4. CASE rows'[i].prov = rows[i].prov
    <3>1. PairOf(rows'[i]) = PairOf(rows[i]) BY <1>1, <2>3, <2>4 DEF PairOf
    <3>2. Known(task[s], secret, stray, PairOf(rows[i])) BY <2>2 DEF StrayInv, Gone
    <3> QED BY <2>2, <3>1, <3>2 DEF Known
  <2>5. CASE rows'[i].prov # rows[i].prov
    <3>1. rows[i].addr = x[1] /\ rows'[i].prov = x[2] BY <1>3, <2>3, <2>5
    <3>2. x = <<x[1], x[2]>> BY DEF Pair
    <3>3. PairOf(rows'[i]) = x BY <1>1, <2>3, <3>1, <3>2 DEF PairOf
    <3>4. Removing(t, x[1]) BY <2>2, <3>1, Watched
    <3> QED BY <3>3, <3>4 DEF Known
  <2> QED BY <2>4, <2>5
<1> QED BY <1>2, <1>4, <1>5 DEF StrayInv

LEMMA RowsTyped ==
  ASSUME IInv
  PROVE  /\ rows \in Seq(Mailbox) /\ DOMAIN rows = 1 .. Len(rows) /\ Len(rows) \in Nat
         /\ rows \in [DOMAIN rows -> Mailbox]
         /\ \A i \in 1 .. Len(rows) : rows[i] \in Mailbox
BY LenProperties, ElementOfSeq DEF IInv, Typed

\* A mailbox moves to another provider, and the others of its address go.
LEMMA SwitchKeeps ==
  ASSUME IInv, StrayInv, NEW t \in Task, SwitchStep(t)
  PROVE  StrayInv'
<1> DEFINE p == task[t].plan
           x == At(t)
           r == [task[t] EXCEPT !.plan = Tail(@)]
           q == Tail(p)
           m == task[t].row
<1>1. /\ p # <<>> /\ Head(p).do = "switch" /\ Becomes(t, r) /\ secret' = secret
      /\ rows' = [rows EXCEPT ![m].prov = x[2]]
      /\ stray' = stray \cup {y \in {x} : Removing(t, y[1]) \/ ~rows[m].live}
  BY DEF SwitchStep, Todo, Advance
<1>2. task[t] \in Request BY DEF IInv, TasksFit
<1>3. /\ r.plan = q /\ r.op = task[t].op /\ r.row = m /\ r.seen = task[t].seen
      /\ r.left = task[t].left /\ r.purged = task[t].purged
  BY <1>2 DEF Request
<1>4. /\ p \in Seq(Part) /\ p[1].do = "switch" /\ p[1] \in ToSet(p) /\ 1 \in 1 .. Len(p)
      /\ x = p[1].at /\ x \in Pair /\ Rest(p, 1, q)
  BY <1>1, PlanOf
<1>5. /\ task'[t] = IF q = <<>> THEN Idle ELSE r
      /\ \A s \in Task \ {t} : task'[s] = task[s]
  BY <1>1, <1>3, BecomesWhat
<1>6. task[t].op \in Connecting /\ Aimed(task[t], rows, x[1])
  BY <1>1, Connects DEF ConnectParts, OtherParts
<1>7. Shaped(task[t], rows) /\ Attaches(task[t])
  BY <1>6 DEF StrayInv, ShapeInv, Shaped
<1>8. m # NoRow BY <1>4, <1>7 DEF Attaches, Does
<1>9. m \in 1 .. Len(rows) /\ rows[m].addr = x[1]
  <2>1. m \in Nat /\ m <= Len(rows) BY DEF IInv, TasksFit, Fits, Request
  <2> QED BY <1>6, <1>8, <2>1, RowsTyped DEF Aimed, NoRow
<1>10. /\ Len(rows) \in Nat
       /\ \A i \in 1 .. Len(rows) : i # m => rows'[i] = rows[i]
       /\ rows'[m].live = rows[m].live /\ rows'[m].prov = x[2] /\ rows'[m].addr = x[1]
  BY <1>1, <1>9, RowsTyped DEF Mailbox
<1>11. Grown(rows, rows') BY SwitchCalm DEF Calm
<1>12. Removing(t, x[1]) \/ ~rows[m].live => x \in stray' BY <1>1
<1>13. stray \subseteq stray' BY <1>1
<1> HIDE DEF r, x, q, m
<1>14. /\ ToSet(q) \subseteq ToSet(p)
       /\ \A d \in ToSet(p) : d \in ToSet(q) \/ d = p[1]
  BY <1>4, CutOne
<1>15. Shaped(task'[t], rows')
  <2>1. q # <<>> => Shaped(r, rows)
    <3>1. r.purged \subseteq task[t].purged /\ 1 > 0 /\ 1 \in Nat BY <1>3
    <3> HIDE DEF p
    <3> QED BY <1>3, <1>4, <1>6, <1>7, <3>1, RestShaped DEF p, m
  <2>2. Shaped(task'[t], rows) BY <1>5, <2>1, IdleShaped
  <2> QED BY <1>11, <2>2, RowsTyped, ShapedGrown
<1>16. Doomed(task'[t]) = {}
  <2>1. Doomed(r) = {} BY <1>3, <1>6 DEF Doomed, Connecting
  <2> QED BY <1>5, <2>1, IdleShaped
<1>17. ASSUME NEW y, Has(p, "erase", y) PROVE Cares(task'[t], rows', y)
  <2>1. Has(q, "erase", y) BY <1>4, <1>14, <1>17 DEF Has
  <2>2. Cares(r, rows', y) BY <1>3, <1>6, <2>1 DEF Cares
  <2>3. q # <<>> BY <1>3, <2>2, SpentCares
  <2> QED BY <1>5, <2>2, <2>3
<1>18. \A z \in Providers \ {x[2]} : Cares(task'[t], rows', <<x[1], z>>)
  <2>1. Cleans(p) BY <1>7 DEF Attaches
  <2>2. \A z \in Providers \ {x[2]} : Has(p, "erase", <<x[1], z>>)
    BY <1>1, <1>4, <2>1 DEF Cleans
  <2> QED BY <1>17, <2>2
<1>19. ASSUME NEW y \in Pair, Cares(task[t], rows, y)
       PROVE  Cares(task'[t], rows', y) \/ Holds(y)' \/ y \in stray'
  <2>1. CASE Has(p, "erase", y) BY <1>17, <2>1
  <2>2. CASE ~Has(p, "erase", y)
    <3>1. Has(p, "switch", y) \/ Has(p, "commit", y) BY <1>19, <2>2 DEF Cares, Settles
    <3>2. PICK z \in Pair : About(p, z) BY <1>7 DEF Attaches
    <3>3. y = x
      <4>1. y = z BY <3>1, <3>2 DEF Has, About, Establishing
      <4>2. x = z BY <1>4, <3>2 DEF About
      <4> QED BY <4>1, <4>2
    <3>4. CASE rows[m].live
      <4>1. rows'[m].live /\ <<rows'[m].addr, rows'[m].prov>> = x
        <5>1. x = <<x[1], x[2]>> BY <1>4 DEF Pair
        <5> QED BY <1>10, <3>4, <5>1
      <4>2. m \in DOMAIN rows'
        <5>1. rows' \in Seq(Mailbox) /\ Len(rows) <= Len(rows') BY <1>11 DEF Grown
        <5>2. DOMAIN rows' = 1 .. Len(rows') /\ Len(rows') \in Nat BY <5>1, LenProperties
        <5> QED BY <1>9, <1>10, <5>1, <5>2
      <4> QED BY <3>3, <4>1, <4>2 DEF Holds
    <3>5. CASE ~rows[m].live BY <1>12, <3>3, <3>5
    <3> QED BY <3>4, <3>5
  <2> QED BY <2>1, <2>2
<1>20. /\ \A i \in 1 .. Len(rows) : i # m => rows'[i] = rows[i]
       /\ m \in 1 .. Len(rows) =>
            /\ rows[m].addr = x[1]
            /\ rows[m].live => rows'[m].live
            /\ \/ rows'[m].prov = rows[m].prov
               \/ /\ rows'[m].prov = x[2]
                  /\ \A z \in Providers \ {x[2]} : Cares(task'[t], rows', <<x[1], z>>)
  BY <1>9, <1>10, <1>18
<1>21. /\ x \in Pair /\ secret' = secret /\ stray \subseteq stray'
       /\ Removing(t, x[1]) => x \in stray'
       /\ \A s \in Task \ {t} : task'[s] = task[s]
  BY <1>1, <1>4, <1>5, <1>12, <1>13
<1>22. \A y \in Pair : Cares(task[t], rows, y) =>
         Cares(task'[t], rows', y) \/ Holds(y)' \/ y \in stray'
  BY <1>19
<1> QED BY <1>11, <1>15, <1>16, <1>20, <1>21, <1>22, RowTurn

\* A commit that records its mailbox goes on to erase the others' credentials.
LEMMA Established ==
  ASSUME IInv, StrayInv, NEW t \in Task, Todo(t, "commit"),
         NEW x, x = At(t), Grown(rows, rows'),
         NEW r, r = [task[t] EXCEPT !.plan = EraseOthers(x) \o Tail(@)], Becomes(t, r)
  PROVE  /\ \A s \in Task \ {t} : task'[s] = task[s]
         /\ Shaped(task'[t], rows') /\ Doomed(task'[t]) = {}
         /\ \A z \in Providers \ {x[2]} : Cares(task'[t], rows', <<x[1], z>>)
         /\ \A y \in Pair : Cares(task[t], rows, y) =>
              y = x /\ (task[t].row = NoRow \/ task[t].seen # x[2] \/ rows[task[t].row].prov = x[2])
<1> DEFINE p == task[t].plan
           q == Tail(p)
           w == EraseOthers(x) \o q
<1>1. p # <<>> /\ Head(p).do = "commit" BY DEF Todo
<1>2. task[t] \in Request BY DEF IInv, TasksFit
<1>3. r.plan = w /\ r.op = task[t].op /\ r.row = task[t].row
  BY <1>2 DEF Request
<1>4. /\ p \in Seq(Part) /\ p[1].do = "commit" /\ p[1] \in ToSet(p) /\ 1 \in 1 .. Len(p)
      /\ x = p[1].at /\ x \in Pair /\ Rest(p, 1, q)
  BY <1>1, PlanOf
<1>5. /\ task'[t] = IF w = <<>> THEN Idle ELSE r
      /\ \A s \in Task \ {t} : task'[s] = task[s]
  <2>1. /\ task'[t] = IF r.plan = <<>> THEN Idle ELSE r
        /\ \A s \in Task \ {t} : task'[s] = task[s]
    BY BecomesWhat
  <2> QED BY <1>3, <2>1
<1> HIDE DEF q
<1>6. task[t].op \in Connecting BY <1>4, PlanOf DEF OtherParts
<1>7. Attaches(task[t]) BY <1>6 DEF StrayInv, ShapeInv, Shaped
<1>8. Ordered(p) /\ About(p, x)
  BY <1>4, <1>7 DEF Attaches, About, Establishing
<1>9. q \in Seq(Part) /\ \A k \in 1 .. Len(q) : k + 1 \in 1 .. Len(p) /\ q[k] = p[k + 1]
  BY <1>4, CutOne
<1>10. Ordered(q) /\ About(q, x) BY <1>4, <1>8, CutShape
<1>11. \A d \in ToSet(q) : d.do \in {"put", "fill"}
  <2>1. \A k \in 1 .. Len(q) : q[k].do \in After("commit")
    <3> TAKE k \in 1 .. Len(q)
    <3>1. k + 1 \in 1 .. Len(p) /\ q[k] = p[k + 1] /\ 1 < k + 1 BY <1>9
    <3> QED BY <1>4, <1>8, <3>1 DEF Ordered
  <2>2. ToSet(q) = {q[k] : k \in 1 .. Len(q)} BY <1>9, StepsOf
  <2>3. After("commit") = {"put", "fill"} BY DEF After
  <2> QED BY <2>1, <2>2, <2>3
<1>12. /\ w \in Seq(Part) /\ Ordered(w) /\ About(w, x)
       /\ \A d \in ToSet(w) : d.do \in {"drop", "erase", "put", "fill"}
       /\ \A z \in Providers \ {x[2]} : Has(w, "erase", <<x[1], z>>)
  BY <1>4, <1>9, <1>10, <1>11, Cleanup
<1> HIDE DEF w
<1>13. Cleans(w) BY <1>12, StepsOf DEF Cleans
<1>14. Shaped(r, rows')
  <2>1. ~Does(w, "find") /\ ~Does(w, "switch") BY <1>12 DEF Does
  <2> QED BY <1>3, <1>4, <1>6, <1>12, <1>13, <2>1 DEF Shaped, Attaches
<1>15. Shaped(task'[t], rows') BY <1>5, <1>14, IdleShaped
<1>16. Doomed(task'[t]) = {}
  <2>1. Doomed(r) = {} BY <1>3, <1>6 DEF Doomed, Connecting
  <2> QED BY <1>5, <2>1, IdleShaped
<1>17. \A z \in Providers \ {x[2]} : Cares(task'[t], rows', <<x[1], z>>)
  <2> TAKE z \in Providers \ {x[2]}
  <2>1. Cares(r, rows', <<x[1], z>>) BY <1>3, <1>6, <1>12 DEF Cares
  <2>2. w # <<>> BY <1>3, <2>1, SpentCares
  <2> QED BY <1>5, <2>1, <2>2
<1>18. ASSUME NEW y \in Pair, Cares(task[t], rows, y)
       PROVE  y = x /\ (task[t].row = NoRow \/ task[t].seen # x[2] \/ rows[task[t].row].prov = x[2])
  <2>1. Head(p).do \in Establishing BY <1>1 DEF Establishing
  <2>2. y = x BY <1>1, <1>18, <2>1, RefusedCares
  <2>3. ~Has(p, "erase", y) /\ ~Has(p, "switch", y) BY <1>1, <1>6, <2>1, NothingErased
  <2> QED BY <1>18, <2>2, <2>3 DEF Cares, Settles
<1> QED BY <1>5, <1>15, <1>16, <1>17, <1>18

\* A commit records its mailbox, or gives way to one that is there.
LEMMA CommitSettles ==
  ASSUME IInv, StrayInv, NEW t \in Task, CommitStep(t)
  PROVE  StrayInv'
<1>0. PICK x, m : x = At(t) /\ m = task[t].row OBVIOUS
<1> DEFINE new == [user |-> task[t].user, addr |-> x[1], prov |-> x[2], live |-> TRUE]
           next == [task[t] EXCEPT !.plan = EraseOthers(x) \o Tail(@)]
<1>1. /\ task[t].plan # <<>> /\ Head(task[t].plan).do = "commit" /\ Todo(t, "commit")
      /\ secret' = secret
  BY DEF CommitStep, Todo
<1>2. /\ task[t].user \in User /\ x \in Pair /\ x[1] \in Address /\ Aimed(task[t], rows, x[1])
  BY <1>0, <1>1, Connects DEF ConnectParts, OtherParts
<1>3. x[2] \in Providers /\ x = <<x[1], x[2]>> BY <1>2 DEF Pair
<1>4. /\ rows \in Seq(Mailbox) /\ rows \in [DOMAIN rows -> Mailbox]
      /\ DOMAIN rows = 1 .. Len(rows) /\ Len(rows) \in Nat
  BY RowsTyped
<1>5. m \in Nat /\ m <= Len(rows) BY <1>0 DEF IInv, TasksFit, Fits, Request
<1>10. next = [task[t] EXCEPT !.plan = EraseOthers(x) \o Tail(@)] OBVIOUS
<1>6. CASE m = NoRow /\ rows' = Append(rows, new) /\ Becomes(t, next)
           /\ stray' = stray \cup {y \in {x} : Removing(t, y[1])}
  <2>1. new \in Mailbox BY <1>2, <1>3 DEF Mailbox
  <2> DEFINE n == Len(rows) + 1
  <2>2. /\ rows' \in Seq(Mailbox) /\ Len(rows') = n
        /\ \A j \in 1 .. Len(rows) : rows'[j] = rows[j]
        /\ rows'[n] = new
    BY <1>4, <1>6, <2>1, AppendProperties
  <2>3. n \in DOMAIN rows' BY <1>4, <2>2, LenProperties
  <2>4. Grown(rows, rows') BY <1>4, <2>2 DEF Grown
  <2>5. /\ \A s \in Task \ {t} : task'[s] = task[s]
        /\ Shaped(task'[t], rows') /\ Doomed(task'[t]) = {}
        /\ \A y \in Pair : Cares(task[t], rows, y) => y = x
    <3> HIDE DEF next
    <3> QED BY <1>0, <1>1, <1>6, <1>10, <2>4, Established
  <2>6. Holds(x)'
    <3>1. rows'[n].live /\ <<rows'[n].addr, rows'[n].prov>> = x BY <1>3, <2>2
    <3> HIDE DEF n
    <3> QED BY <2>3, <3>1 DEF Holds
  <2>7. \A y \in Pair : Cares(task[t], rows, y) => Holds(y)' BY <2>5, <2>6
  <2>8. stray \subseteq stray' /\ (Removing(t, x[1]) => x \in stray') BY <1>6
  <2> HIDE DEF n, new, next
  <2>9. m \notin 1 .. Len(rows) BY <1>6 DEF NoRow
  <2> QED BY <1>1, <1>2, <2>2, <2>4, <2>5, <2>7, <2>8, <2>9, RowTurn
<1>7. CASE m # NoRow /\ Becomes(t, next)
           /\ rows' = [rows EXCEPT ![m].live = TRUE,
                         ![m].prov = IF x[2] = task[t].seen THEN @ ELSE x[2]]
           /\ stray' = stray \cup {y \in {x} : Removing(t, y[1])}
  <2>1. m \in 1 .. Len(rows) BY <1>4, <1>5, <1>7 DEF NoRow
  <2>2. rows[m].addr = x[1] BY <1>2, <1>0, <1>7 DEF Aimed
  <2>3. /\ rows' \in [DOMAIN rows -> Mailbox]
        /\ \A i \in DOMAIN rows :
             /\ rows'[i].user = rows[i].user /\ rows'[i].addr = rows[i].addr
             /\ i # m => rows'[i] = rows[i]
        /\ rows'[m].live
        /\ rows'[m].prov = IF x[2] = task[t].seen THEN rows[m].prov ELSE x[2]
    BY <1>3, <1>4, <1>7, <2>1 DEF Mailbox
  <2>4. Grown(rows, rows') BY <1>4, <2>3, Rewritten
  <2>5. /\ \A s \in Task \ {t} : task'[s] = task[s]
        /\ Shaped(task'[t], rows') /\ Doomed(task'[t]) = {}
        /\ \A z \in Providers \ {x[2]} : Cares(task'[t], rows', <<x[1], z>>)
        /\ \A y \in Pair : Cares(task[t], rows, y) =>
             y = x /\ (task[t].seen # x[2] \/ rows[m].prov = x[2])
    <3>1. Becomes(t, next) /\ task[t].row # NoRow BY <1>0, <1>7
    <3> HIDE DEF next
    <3>2. /\ \A s \in Task \ {t} : task'[s] = task[s]
          /\ Shaped(task'[t], rows') /\ Doomed(task'[t]) = {}
          /\ \A z \in Providers \ {x[2]} : Cares(task'[t], rows', <<x[1], z>>)
          /\ \A y \in Pair : Cares(task[t], rows, y) =>
               y = x /\ (task[t].row = NoRow \/ task[t].seen # x[2]
                            \/ rows[task[t].row].prov = x[2])
      <4>1. x = At(t) /\ Todo(t, "commit") BY <1>0, <1>1
      <4> QED BY <1>10, <2>4, <3>1, <4>1, Established, Zenon
    <3> QED BY <1>0, <3>1, <3>2
  <2>6. ASSUME NEW y \in Pair, Cares(task[t], rows, y) PROVE Holds(y)'
    <3>1. y = x /\ rows'[m].prov = x[2] BY <2>3, <2>5, <2>6
    <3>2. m \in DOMAIN rows' BY <1>4, <2>1, <2>3
    <3>3. rows'[m].live /\ <<rows'[m].addr, rows'[m].prov>> = y
      BY <1>3, <1>4, <2>1, <2>2, <2>3, <3>1
    <3> QED BY <3>2, <3>3 DEF Holds
  <2>7. stray \subseteq stray' /\ (Removing(t, x[1]) => x \in stray') BY <1>7
  <2>8. /\ \A i \in 1 .. Len(rows) : i # m => rows'[i] = rows[i]
        /\ m \in 1 .. Len(rows) =>
             /\ rows[m].addr = x[1]
             /\ rows[m].live => rows'[m].live
             /\ \/ rows'[m].prov = rows[m].prov
                \/ /\ rows'[m].prov = x[2]
                   /\ \A z \in Providers \ {x[2]} : Cares(task'[t], rows', <<x[1], z>>)
    BY <1>4, <2>2, <2>3, <2>5
  <2>9. \A y \in Pair : Cares(task[t], rows, y) =>
          Cares(task'[t], rows', y) \/ Holds(y)' \/ y \in stray'
    BY <2>6
  <2> HIDE DEF next
  <2> QED BY <1>1, <1>2, <2>4, <2>5, <2>7, <2>8, <2>9, RowTurn
<1>8. CASE rows' = rows /\ Drop(t)
  <2>1. Head(task[t].plan).do \in Establishing BY <1>1 DEF Establishing
  <2> QED BY <1>1, <1>8, <2>1, DropSmooth, SmoothKeeps
<1>9. CASE rows' = rows /\ Advance(t) /\ stray' = stray \cup {y \in {x} : ~Holds(y)}
  BY <1>0, <1>1, <1>9, TakenSmooth, SmoothKeeps
<1> QED BY <1>0, <1>6, <1>7, <1>8, <1>9 DEF CommitStep

-----------------------------------------------------------------------------
\* Steps that remove mailboxes.

\* Whatever t removes has been erased, or is known to be stray.
LEMMA RemovedKeeps ==
  ASSUME IInv, StrayInv, NEW t \in Task, task[t].plan # <<>>,
         Head(task[t].plan).do \in Final,
         NEW r, Becomes(t, r), r.plan = Tail(task[t].plan), r.op = task[t].op,
         r.row = task[t].row, r.left = task[t].left, r.purged \subseteq task[t].purged,
         secret' = secret, stray' = stray, Grown(rows, rows'),
         \A i \in 1 .. Len(rows) : rows'[i].prov = rows[i].prov,
         \A i \in 1 .. Len(rows) : rows[i].live => rows'[i].live \/ i \in Doomed(task[t])
  PROVE  StrayInv'
<1> DEFINE p == task[t].plan
           q == r.plan
<1>1. /\ p \in Seq(Part) /\ p[1].do \in Final /\ p[1] \in ToSet(p) /\ 1 \in 1 .. Len(p)
      /\ Rest(p, 1, q)
  BY PlanOf
<1>2. task[t].op \notin Connecting BY <1>1, PlanOf DEF Final, ConnectParts
<1>3. Shaped(task[t], rows) /\ Removes(task[t], rows)
  BY <1>2 DEF StrayInv, ShapeInv, Shaped
<1>4. \A j \in 2 .. Len(p) : p[j].do \notin Final \cup {"loop"}
  <2>1. \A j \in 1 + 1 .. Len(p) : p[j].do \notin Final \cup {"loop"}
    BY <1>1, <1>3 DEF Removes, Ends
  <2> QED BY <2>1
<1>5. \A x : ~Ahead(p, x)
  <2> SUFFICES ASSUME NEW j \in 1 .. Len(p), NEW k \in 1 .. Len(p), j < k
               PROVE  p[k].do \notin Final
    BY DEF Ahead
  <2>1. k \in 2 .. Len(p) OBVIOUS
  <2> QED BY <1>4, <2>1
<1>6. ~Does(p, "loop")
  <2>1. \A j \in 1 .. Len(p) : j = 1 \/ j \in 2 .. Len(p) OBVIOUS
  <2>2. \A j \in 1 .. Len(p) : p[j].do # "loop" BY <1>1, <1>4, <2>1 DEF Final
  <2>3. ToSet(p) = {p[j] : j \in 1 .. Len(p)} BY <1>1, StepsOf
  <2> QED BY <2>2, <2>3 DEF Does
<1>7. task[t].left = {} BY <1>3, <1>6 DEF Removes
<1>8. \A i \in Doomed(task[t]) : secret[PairOf(rows[i])] = NoGrant \/ PairOf(rows[i]) \in stray
  BY <1>5, <1>7 DEF StrayInv, Gone, Known
<1>9. /\ task'[t] = IF q = <<>> THEN Idle ELSE r
      /\ \A s \in Task \ {t} : task'[s] = task[s]
  BY BecomesWhat
<1>10. /\ rows \in Seq(Mailbox) /\ DOMAIN rows = 1 .. Len(rows) /\ Len(rows) \in Nat
       /\ DOMAIN rows' = 1 .. Len(rows') /\ Len(rows') \in Nat /\ Len(rows) <= Len(rows')
       /\ \A i \in 1 .. Len(rows) : PairOf(rows'[i]) = PairOf(rows[i])
  BY RowsTyped, LenProperties DEF Grown, PairOf
<1>11. Shaped(task'[t], rows)
  <2>1. q # <<>> => Shaped(r, rows)
    <3>1. 1 > 0 /\ 1 \in Nat OBVIOUS
    <3> HIDE DEF p
    <3> QED BY <1>1, <1>3, <1>7, <3>1, RestShaped DEF p
  <2> QED BY <1>9, <2>1, IdleShaped
<1>12. ShapeInv'
  <2> SUFFICES ASSUME NEW s \in Task PROVE Shaped(task'[s], rows') BY DEF ShapeInv
  <2>1. Shaped(task'[s], rows) BY <1>9, <1>11 DEF StrayInv, ShapeInv
  <2> QED BY <1>10, <2>1, ShapedGrown
<1>13. Kept'
  <2> SUFFICES ASSUME NEW y \in Pair, secret'[y] # NoGrant
               PROVE  \/ Holds(y)' \/ y \in stray'
                      \/ \E s \in Task : Cares(task'[s], rows', y)
    BY DEF Kept
  <2>1. Holds(y) \/ y \in stray \/ \E s \in Task : Cares(task[s], rows, y)
    BY DEF StrayInv, Kept
  <2>2. ASSUME NEW i \in 1 .. Len(rows), rows[i].live, PairOf(rows[i]) = y
        PROVE  Holds(y)' \/ y \in stray'
    <3>1. CASE i \in Doomed(task[t]) BY <1>8, <2>2, <3>1
    <3>2. CASE rows'[i].live
      <4>1. i \in DOMAIN rows' /\ PairOf(rows'[i]) = y BY <1>10, <2>2
      <4> QED BY <3>2, <4>1 DEF Holds, PairOf
    <3> QED BY <2>2, <3>1, <3>2
  <2>3. Holds(y) => Holds(y)' \/ y \in stray'
    BY <1>10, <2>2 DEF Holds, PairOf
  <2>4. ASSUME NEW s \in Task, Cares(task[s], rows, y) PROVE Cares(task'[s], rows', y)
    <3>1. s # t BY <1>2, <2>4 DEF Cares
    <3> QED BY <1>9, <2>4, <3>1, CaresSame
  <2> QED BY <2>1, <2>3, <2>4
<1>14. Gone'
  <2> SUFFICES ASSUME NEW s \in Task, NEW i \in Doomed(task'[s])
               PROVE  Known(task'[s], secret', stray', PairOf(rows'[i]))
    BY DEF Gone
  <2>1. CASE s = t
    <3>1. task'[t] = r BY <1>9, <2>1, IdleShaped
    <3>2. i \in Doomed(task[t]) BY <2>1, <3>1 DEF Doomed
    <3> QED BY <1>8, <1>10, <3>2, DoomedRows DEF Known
  <2>2. CASE s # t
    <3>1. task'[s] = task[s] BY <1>9, <2>2
    <3>2. Known(task[s], secret, stray, PairOf(rows[i])) BY <3>1 DEF StrayInv, Gone
    <3>3. PairOf(rows'[i]) = PairOf(rows[i]) BY <1>10, <3>1, DoomedRows
    <3> QED BY <3>1, <3>2, <3>3
  <2> QED BY <2>1, <2>2
<1> QED BY <1>12, <1>13, <1>14 DEF StrayInv

LEMMA TombstoneKeeps ==
  ASSUME IInv, StrayInv, NEW t \in Task, TombstoneStep(t)
  PROVE  StrayInv'
<1> DEFINE r == [task[t] EXCEPT !.plan = Tail(@)]
           p == task[t].plan
<1>1. /\ p # <<>> /\ Head(p).do = "tombstone" /\ Becomes(t, r)
      /\ rows' = [rows EXCEPT ![task[t].row].live = FALSE]
      /\ secret' = secret /\ stray' = stray
  BY DEF TombstoneStep, Todo, Advance
<1>2. task[t] \in Request BY DEF IInv, TasksFit
<1>3. /\ r.plan = Tail(p) /\ r.op = task[t].op /\ r.row = task[t].row
      /\ r.left = task[t].left /\ r.purged = task[t].purged
  BY <1>2 DEF Request
<1> HIDE DEF r
<1>4. p[1] \in ToSet(p) /\ p[1].do = "tombstone" BY <1>1, PlanOf
<1>5. task[t].op \notin Connecting BY <1>4, PlanOf DEF ConnectParts
<1>6. task[t].op = "disconnect" BY <1>4, <1>5 DEF StrayInv, ShapeInv, Shaped, Removes, Does
<1>7. Doomed(task[t]) = {task[t].row} BY <1>6 DEF Doomed
<1>8. Grown(rows, rows') BY TombstoneCalm DEF Calm
<1>9. /\ \A i \in 1 .. Len(rows) : rows'[i].prov = rows[i].prov
      /\ \A i \in 1 .. Len(rows) : rows[i].live => rows'[i].live \/ i \in Doomed(task[t])
  BY <1>1, <1>7, RowsTyped DEF Mailbox
<1>10. Head(p).do \in Final BY <1>1 DEF Final
<1> QED BY <1>1, <1>3, <1>8, <1>9, <1>10, RemovedKeeps

LEMMA SeverKeeps ==
  ASSUME IInv, StrayInv, NEW t \in Task, SeverStep(t)
  PROVE  StrayInv'
<1> DEFINE r == [task[t] EXCEPT !.purged = {}, !.plan = Tail(@)]
           p == task[t].plan
<1>1. /\ p # <<>> /\ Head(p).do = "sever" /\ Becomes(t, r)
      /\ rows' = Marked(task[t].purged)
      /\ secret' = secret /\ stray' = stray
  BY DEF SeverStep, Todo
<1>2. task[t] \in Request BY DEF IInv, TasksFit
<1>3. /\ r.plan = Tail(p) /\ r.op = task[t].op /\ r.row = task[t].row
      /\ r.left = task[t].left /\ r.purged \subseteq task[t].purged
  BY <1>2 DEF Request
<1> HIDE DEF r
<1>4. p[1] \in ToSet(p) /\ p[1].do = "sever" BY <1>1, PlanOf
<1>5. task[t].op \notin Connecting BY <1>4, PlanOf DEF ConnectParts
<1>6. task[t].op = "deleteAccount" BY <1>4, <1>5 DEF StrayInv, ShapeInv, Shaped, Removes, Does
<1>7. Doomed(task[t]) = task[t].purged BY <1>6 DEF Doomed
<1>8. Grown(rows, rows') BY SeverCalm DEF Calm
<1>9. /\ \A i \in 1 .. Len(rows) : rows'[i].prov = rows[i].prov
      /\ \A i \in 1 .. Len(rows) : rows[i].live => rows'[i].live \/ i \in Doomed(task[t])
  BY <1>1, <1>7, RowsTyped DEF Mailbox, Marked
<1>10. Head(p).do \in Final BY <1>1 DEF Final
<1> QED BY <1>1, <1>3, <1>8, <1>9, <1>10, RemovedKeeps

-----------------------------------------------------------------------------
\* The inductive invariant.

LEMMA IdleKeeps ==
  ASSUME StrayInv, task' = [t \in Task |-> Idle], rows' = rows,
         secret' = secret, stray \subseteq stray',
         \A x \in Pair : \A t \in Task :
           Cares(task[t], rows, x) /\ secret[x] # NoGrant => x \in stray'
  PROVE  StrayInv'
<1>1. ShapeInv' BY IdleShaped DEF ShapeInv
<1>2. Gone' BY IdleShaped DEF Gone
<1>3. Kept'
  <2> SUFFICES ASSUME NEW x \in Pair, secret[x] # NoGrant PROVE Holds(x)' \/ x \in stray'
    BY DEF Kept
  <2>1. Holds(x) => Holds(x)' BY DEF Holds
  <2> QED BY <2>1 DEF StrayInv, Kept
<1> QED BY <1>1, <1>2, <1>3 DEF StrayInv

\* A crash: every pair somebody cares for is a way to lose a mailbox.
LEMMA CrashStray ==
  ASSUME IInv, StrayInv, Crash
  PROVE  StrayInv'
<1> DEFINE Losing == {"account", "find", "claim", "admit", "commit", "switch", "erase"}
           lost(x) == \E t \in Task :
             /\ task[t].op \in Connecting
             /\ \E k \in DOMAIN task[t].plan :
                  task[t].plan[k].at = x /\ task[t].plan[k].do \in Losing
<1>1. /\ task' = [t \in Task |-> Idle] /\ rows' = rows /\ secret' = secret
      /\ stray' = stray \cup {x \in Pair : lost(x) /\ secret[x] # NoGrant}
  BY DEF Crash
<1>2. ASSUME NEW x \in Pair, NEW t \in Task, Cares(task[t], rows, x) PROVE lost(x)
  <2> DEFINE p == task[t].plan
  <2>1. PICK d \in ToSet(p) : d.do \in {"switch", "commit", "erase"} /\ d.at = x
    BY <1>2 DEF Cares, Settles, Has
  <2>2. ToSet(p) = {p[k] : k \in DOMAIN p} BY DEF ToSet
  <2>3. PICK k \in DOMAIN p : p[k] = d BY <2>2
  <2> QED BY <1>2, <2>1, <2>3 DEF Cares
<1> HIDE DEF lost
<1>3. \A x \in Pair : \A t \in Task :
        Cares(task[t], rows, x) /\ secret[x] # NoGrant => x \in stray'
  BY <1>1, <1>2
<1> QED BY <1>1, <1>3, IdleKeeps

LEMMA InitStray ==
  ASSUME Init
  PROVE  StrayInv
<1>1. /\ task = [t \in Task |-> Idle] /\ secret = [x \in Pair |-> NoGrant]
  BY DEF Init
<1>2. ShapeInv BY <1>1, IdleShaped DEF ShapeInv
<1>3. Gone BY <1>1, IdleShaped DEF Gone
<1>4. Kept BY <1>1 DEF Kept
<1> QED BY <1>2, <1>3, <1>4 DEF StrayInv

LEMMA NextStray ==
  ASSUME IInv, TruthInv, StrayInv, [Next]_vars
  PROVE  StrayInv'
<1>1. ASSUME NEW t \in Task, Requests(t) PROVE StrayInv' BY <1>1, RequestSmooth, SmoothKeeps
<1>2. ASSUME NEW t \in Task, Step(t) PROVE StrayInv'
  <2>1. CASE AccountStep(t) \/ DropStep(t) \/ FillStep(t) BY <2>1, PlainSmooth, SmoothKeeps
  <2>2. CASE PutStep(t) BY <2>2, PutKeeps
  <2>3. CASE ReadStep(t) BY <2>3, ReadSmooth, SmoothKeeps DEF TruthInv
  <2>4. CASE EraseStep(t) BY <2>4, EraseKeeps
  <2>5. CASE FindStep(t) BY <2>5, FindSmooth, SmoothKeeps
  <2>6. CASE SwitchStep(t) BY <2>6, SwitchKeeps
  <2>7. CASE ClaimStep(t) \/ AdmitStep(t) BY <2>7, ClaimSmooth, SmoothKeeps
  <2>8. CASE CommitStep(t) BY <2>8, CommitSettles
  <2>9. CASE TombstoneStep(t) BY <2>9, TombstoneKeeps
  <2>10. CASE LoopStep(t) BY <2>10, LoopSmooth, SmoothKeeps
  <2>11. CASE SeverStep(t) BY <2>11, SeverKeeps
  <2> QED BY <1>2, <2>1, <2>2, <2>3, <2>4, <2>5, <2>6, <2>7, <2>8, <2>9, <2>10, <2>11
      DEF Step
<1>3. ASSUME NEW t \in Task, PutFails(t) PROVE StrayInv'
  BY <1>3, PutFailsSmooth, SmoothKeeps
<1>4. ASSUME NEW t \in Task, ReadFails(t) PROVE StrayInv'
  BY <1>4, ReadFailsSmooth, SmoothKeeps
<1>5. CASE Crash BY <1>5, CrashStray
<1>6. CASE UNCHANGED vars
  <2>1. task' = task /\ rows' = rows /\ secret' = secret /\ stray' = stray
    BY <1>6 DEF vars, stores
  <2> QED BY <2>1 DEF StrayInv, ShapeInv, Kept, Gone, Holds
<1> QED BY <1>1, <1>2, <1>3, <1>4, <1>5, <1>6 DEF Next

\* Once no request is at work on an address, nobody cares for its credentials.
LEMMA Explained ==
  ASSUME StrayInv
  PROVE  StrayIsExplained
<1> SUFFICES ASSUME NEW x \in Pair, Quiet(x[1]), secret[x] # NoGrant, ~Holds(x)
             PROVE  x \in stray
  BY DEF StrayIsExplained
<1>1. ASSUME NEW t \in Task, Cares(task[t], rows, x) PROVE FALSE
  <2> DEFINE p == task[t].plan
  <2>1. PICK d \in ToSet(p) : d.at = x BY <1>1 DEF Cares, Settles, Has
  <2>2. ToSet(p) = {p[k] : k \in DOMAIN p} BY DEF ToSet
  <2> QED BY <2>1, <2>2 DEF Quiet
<1> QED BY <1>1 DEF StrayInv, Kept

\* For any users, addresses, providers and number of requests in flight, with
\* the store's calls failing and the process dying anywhere: a credential that
\* outlives its mailbox on an address nobody is at work on is one the store
\* failed to delete, or that a request which was refused, died, connects nothing
\* or met a removal had stored.  Disconnecting and deleting leave none behind
\* by themselves (StrayIsExplained).
THEOREM StrayExplained == Spec => []StrayIsExplained
<1>1. Init => IInv /\ TruthInv /\ StrayInv BY InitInv, TruthInit, InitStray
<1>2. (IInv /\ TruthInv /\ StrayInv) /\ [Next]_vars => (IInv /\ TruthInv /\ StrayInv)'
  BY NextKeeps, NextTruth, NextStray
<1>3. StrayInv => StrayIsExplained BY Explained
<1> QED BY <1>1, <1>2, <1>3, PTL DEF Spec
=============================================================================
