-------------------------- MODULE CredentialsProofs --------------------------
(***************************************************************************)
(* Proofs about Credentials, for any users, addresses, providers, limits   *)
(* and number of requests in flight.  What makes them go is the shape of a *)
(* plan, which every step only cuts from the left and extends on the left. *)
(***************************************************************************)
EXTENDS Credentials, FiniteSetTheorems, SequenceTheorems, TLAPS

ConnectParts == {"account", "put", "fill", "find", "claim", "admit", "commit",
                 "switch", "drop", "erase"}
OtherParts == {"put", "fill", "read", "inspect", "backstop", "drop", "erase",
               "tombstone", "loop", "sever"}
Parts == ConnectParts \cup OtherParts
Part == [do : Parts, at : Pair]

\* A find is followed by its commit, and a commit that is not due yet by its
\* admit.
Linked(p) == \A k \in 1 .. Len(p) :
  /\ p[k].do = "find" => k + 3 <= Len(p) /\ p[k + 3].do = "commit"
  /\ p[k].do = "commit" /\ k > 1 => p[k - 1].do = "admit"

\* A plan of steps D on the addresses A.
Plan(p, D, A) ==
  /\ p \in Seq(Part)
  /\ Linked(p)
  /\ \A k \in 1 .. Len(p) : p[k].do \in D /\ p[k].at[1] \in A

Opens(p) == p # <<>> => p[1].do # "commit"

Fresh(p, D, A) == Plan(p, D, A) /\ Opens(p)

Mailbox == [user : User, addr : Address, prov : Providers, live : BOOLEAN]
Values == Grant \cup {NoGrant}

Request ==
  [op : Operation \cup {"none"}, user : User \cup {Nobody}, row : Nat, seen : Providers,
   val : Values, got : Values, left : SUBSET [id : Nat, at : Pair],
   purged : SUBSET Nat, plan : Seq(Part)]

\* The row a request has found is its user's, and of the address a.
Aimed(r, rs, a) ==
  r.row # NoRow => rs[r.row].user = r.user /\ rs[r.row].addr = a

\* A request fits the rows rs; one that connects works on one address.
Fits(r, rs) ==
  /\ r \in Request
  /\ r.row <= Len(rs)
  /\ r.op \in Connecting =>
       /\ r.user \in User
       /\ \E a \in Address : Plan(r.plan, ConnectParts, {a}) /\ Aimed(r, rs, a)
  /\ r.op \notin Connecting => Plan(r.plan, OtherParts, Address)

\* Rows keep their user and their address.
Grown(rs, rs2) ==
  /\ rs2 \in Seq(Mailbox)
  /\ Len(rs) <= Len(rs2)
  /\ \A i \in 1 .. Len(rs) : rs2[i].user = rs[i].user /\ rs2[i].addr = rs[i].addr

Typed ==
  /\ rows \in Seq(Mailbox)
  /\ account \in [User -> {"none", "live", "deleted"}]
  /\ secret \in [Pair -> Values] /\ cache \in [Pair -> Values]
  /\ lock \in [User -> Task \cup {Nobody}]
  /\ raced \subseteq Pair /\ stray \subseteq Pair
  /\ asked \in 0 .. MaxRequests

TasksFit ==
  /\ task \in [Task -> Request]
  /\ \A t \in Task : Fits(task[t], rows)

\* A request at its commit holds the lock on its user, with room for one more.
LockInv == \A t \in Task : Todo(t, "commit") =>
  /\ lock[task[t].user] = t
  /\ Cardinality(LiveRows(task[t].user)) < Limit[task[t].user]

IInv == Typed /\ TasksFit /\ LockInv /\ CapKept /\ OneHolder

\* Request t moves, and no other.
Moves(t) ==
  /\ task' \in [Task -> Request]
  /\ Fits(task'[t], rows')
  /\ \A s \in Task \ {t} : task'[s] = task[s]

\* A step of t that is not due to commit now, and takes no other's lock.
Calm(t) ==
  /\ Typed'
  /\ Moves(t) /\ Opens(task'[t].plan)
  /\ Grown(rows, rows')
  /\ \A u \in User : lock[u] \in Task \ {t} => lock'[u] = lock[u]

\* No row comes to life.
Shrinks == \A i \in DOMAIN rows' : rows'[i].live => i \in DOMAIN rows /\ rows[i].live

-----------------------------------------------------------------------------
\* Plans.

\* The sequence of one step.
LEMMA OneStep ==
  ASSUME NEW s \in Parts, NEW x \in Pair
  PROVE  /\ Do(s, x) \in Seq(Part) /\ Len(Do(s, x)) = 1
         /\ Do(s, x)[1].do = s /\ Do(s, x)[1].at = x
<1>1. [do |-> s, at |-> x] \in Part BY DEF Part
<1>2. Do(s, x) = <<[do |-> s, at |-> x]>> BY DEF Do
<1> QED BY <1>1, <1>2

\* A sequence and one step more.
LEMMA ThenStep ==
  ASSUME NEW p \in Seq(Part), NEW s \in Parts, NEW x \in Pair
  PROVE  /\ p \o Do(s, x) \in Seq(Part)
         /\ Len(p \o Do(s, x)) = Len(p) + 1
         /\ \A i \in 1 .. Len(p) : (p \o Do(s, x))[i] = p[i]
         /\ (p \o Do(s, x))[Len(p) + 1].do = s
         /\ (p \o Do(s, x))[Len(p) + 1].at = x
<1> DEFINE d == Do(s, x)
           q == p \o d
<1>1. d \in Seq(Part) /\ Len(d) = 1 /\ d[1].do = s /\ d[1].at = x BY OneStep
<1>2. Len(p) \in Nat BY LenProperties
<1> HIDE DEF d
<1>3. /\ q \in Seq(Part) /\ Len(q) = Len(p) + 1
      /\ \A i \in 1 .. Len(p) + 1 : q[i] = IF i <= Len(p) THEN p[i] ELSE d[i - Len(p)]
  BY <1>1, <1>2, ConcatProperties
<1> HIDE DEF q
<1>4. q[Len(p) + 1] = d[1] /\ \A i \in 1 .. Len(p) : q[i] = p[i] BY <1>2, <1>3
<1> QED BY <1>1, <1>3, <1>4 DEF q, d

\* One step that is neither a find nor a commit is a plan.
LEMMA SinglePlan ==
  ASSUME NEW D, NEW A, NEW s \in D, D \subseteq Parts, s \notin {"find", "commit"},
         NEW x \in Pair, x[1] \in A
  PROVE  Fresh(Do(s, x), D, A)
<1>1. /\ Do(s, x) \in Seq(Part) /\ Len(Do(s, x)) = 1
      /\ Do(s, x)[1].do = s /\ Do(s, x)[1].at = x
  BY OneStep
<1> QED BY <1>1 DEF Fresh, Plan, Linked, Opens

\* Plans join.
LEMMA JoinedPlan ==
  ASSUME NEW D, NEW A, NEW p, NEW q, Fresh(p, D, A), Fresh(q, D, A)
  PROVE  Fresh(p \o q, D, A)
<1>1. p \in Seq(Part) /\ q \in Seq(Part) BY DEF Fresh, Plan
<1>2. /\ p \o q \in Seq(Part)
      /\ Len(p \o q) = Len(p) + Len(q)
      /\ \A i \in 1 .. Len(p) + Len(q) :
           (p \o q)[i] = IF i <= Len(p) THEN p[i] ELSE q[i - Len(p)]
  BY <1>1, ConcatProperties
<1>3. Len(p) \in Nat /\ Len(q) \in Nat BY <1>1, LenProperties
<1>4. ASSUME NEW k \in 1 .. Len(p \o q)
      PROVE  \/ k \in 1 .. Len(p) /\ (p \o q)[k] = p[k]
             \/ k - Len(p) \in 1 .. Len(q) /\ (p \o q)[k] = q[k - Len(p)]
  BY <1>2, <1>3
<1>5. \A k \in 1 .. Len(p \o q) : (p \o q)[k].do \in D /\ (p \o q)[k].at[1] \in A
  BY <1>4 DEF Fresh, Plan
<1>6. Linked(p \o q)
  <2> SUFFICES ASSUME NEW k \in 1 .. Len(p \o q)
               PROVE  /\ (p \o q)[k].do = "find" =>
                           k + 3 <= Len(p \o q) /\ (p \o q)[k + 3].do = "commit"
                      /\ (p \o q)[k].do = "commit" /\ k > 1 =>
                           (p \o q)[k - 1].do = "admit"
    BY DEF Linked
  <2>1. CASE k <= Len(p)
    <3>1. k \in 1 .. Len(p) /\ (p \o q)[k] = p[k] BY <2>1, <1>2, <1>3
    <3>2. p[k].do = "find" => k + 3 <= Len(p) /\ p[k + 3].do = "commit"
      BY <3>1 DEF Fresh, Plan, Linked
    <3>3. p[k].do = "commit" /\ k > 1 => p[k - 1].do = "admit"
      BY <3>1 DEF Fresh, Plan, Linked
    <3>4. k + 3 <= Len(p) => (p \o q)[k + 3] = p[k + 3] BY <1>2, <1>3
    <3>5. k > 1 => (p \o q)[k - 1] = p[k - 1] BY <1>2, <1>3, <2>1
    <3> QED BY <3>1, <3>2, <3>3, <3>4, <3>5, <1>2, <1>3
  <2>2. CASE k > Len(p)
    <3> DEFINE j == k - Len(p)
    <3>1. j \in 1 .. Len(q) /\ (p \o q)[k] = q[j] BY <2>2, <1>2, <1>3
    <3>2. q[j].do = "find" => j + 3 <= Len(q) /\ q[j + 3].do = "commit"
      BY <3>1 DEF Fresh, Plan, Linked
    <3>3. q[j].do = "commit" /\ j > 1 => q[j - 1].do = "admit"
      BY <3>1 DEF Fresh, Plan, Linked
    <3>4. j + 3 <= Len(q) => (p \o q)[k + 3] = q[j + 3] BY <1>2, <1>3, <2>2
    <3>5. j > 1 => (p \o q)[k - 1] = q[j - 1] BY <1>2, <1>3, <2>2
    <3>6. q[1].do # "commit" BY <3>1, <1>3, <1>1, EmptySeq DEF Fresh, Opens
    <3>7. j = 1 \/ j > 1 BY <3>1
    <3> QED BY <3>1, <3>2, <3>3, <3>4, <3>5, <3>6, <3>7, <1>2, <1>3
  <2> QED BY <2>1, <2>2, <1>3
<1>7. Opens(p \o q)
  <2>1. CASE p = <<>>
    BY <2>1, <1>1, ConcatEmptySeq DEF Fresh
  <2>2. CASE p # <<>>
    <3>1. (p \o q)[1] = p[1] BY <2>2, <1>1, <1>2, <1>3, EmptySeq
    <3> QED BY <3>1, <2>2 DEF Fresh, Opens
  <2> QED BY <2>1, <2>2
<1> QED BY <1>2, <1>5, <1>6, <1>7 DEF Fresh, Plan

\* What is left of a plan after n of its steps is a plan.
LEMMA CutPlan ==
  ASSUME NEW D, NEW A, NEW p, Plan(p, D, A), NEW n \in Nat
  PROVE  LET q == SubSeq(p, n + 1, Len(p)) IN
         /\ Plan(q, D, A)
         /\ n \in 1 .. Len(p) /\ p[n].do # "admit" => Opens(q)
         /\ n >= Len(p) => Opens(q)
<1> DEFINE q == SubSeq(p, n + 1, Len(p))
<1>1. p \in Seq(Part) /\ Len(p) \in Nat BY LenProperties DEF Plan
<1>2. \A i \in n + 1 .. Len(p) : p[i] \in Part BY <1>1, ElementOfSeq
<1>3. /\ q \in Seq(Part)
      /\ Len(q) = IF n + 1 <= Len(p) THEN Len(p) - n ELSE 0
      /\ \A i \in 1 .. Len(p) - n : q[i] = p[n + i]
  <2>1. /\ q \in Seq(Part)
        /\ Len(q) = IF n + 1 <= Len(p) THEN Len(p) - (n + 1) + 1 ELSE 0
        /\ \A i \in 1 .. Len(p) - (n + 1) + 1 : q[i] = p[n + 1 + i - 1]
    BY <1>1, <1>2, SubSeqProperties
  <2> QED BY <2>1, <1>1
<1>4. \A k \in 1 .. Len(q) : k + n \in 1 .. Len(p) /\ q[k] = p[k + n] BY <1>1, <1>3
<1>5. Linked(q)
  <2> SUFFICES ASSUME NEW k \in 1 .. Len(q)
               PROVE  /\ q[k].do = "find" => k + 3 <= Len(q) /\ q[k + 3].do = "commit"
                      /\ q[k].do = "commit" /\ k > 1 => q[k - 1].do = "admit"
    BY DEF Linked
  <2> DEFINE j == k + n
  <2>1. j \in 1 .. Len(p) /\ q[k] = p[j] BY <1>4
  <2>2. p[j].do = "find" => j + 3 <= Len(p) /\ p[j + 3].do = "commit" BY <2>1 DEF Plan, Linked
  <2>3. p[j].do = "commit" /\ j > 1 => p[j - 1].do = "admit" BY <2>1 DEF Plan, Linked
  <2>4. j + 3 <= Len(p) => k + 3 <= Len(q) /\ q[k + 3] = p[j + 3] BY <1>1, <1>3
  <2>5. k > 1 => q[k - 1] = p[j - 1] BY <1>1, <1>3
  <2> QED BY <2>1, <2>2, <2>3, <2>4, <2>5
<1>6. \A k \in 1 .. Len(q) : q[k].do \in D /\ q[k].at[1] \in A BY <1>4 DEF Plan
<1>7. ASSUME n \in 1 .. Len(p), p[n].do # "admit" PROVE Opens(q)
  <2> SUFFICES ASSUME q # <<>> PROVE q[1].do # "commit" BY DEF Opens
  <2>1. Len(q) >= 1 BY <1>3, EmptySeq
  <2>2. n + 1 \in 1 .. Len(p) /\ q[1] = p[n + 1] BY <2>1, <1>1, <1>3
  <2>3. p[n + 1].do = "commit" /\ n + 1 > 1 => p[n + 1 - 1].do = "admit"
    BY <2>2 DEF Plan, Linked
  <2> QED BY <2>2, <2>3, <1>7
<1>8. ASSUME n >= Len(p) PROVE Opens(q)
  <2>1. Len(q) = 0 BY <1>8, <1>1, <1>3
  <2>2. q = <<>> BY <2>1, <1>3, EmptySeq
  <2> QED BY <2>2 DEF Opens
<1> QED BY <1>3, <1>5, <1>6, <1>7, <1>8 DEF Plan

LEMMA TailPlan ==
  ASSUME NEW D, NEW A, NEW p, Plan(p, D, A), p # <<>>
  PROVE  /\ Plan(Tail(p), D, A)
         /\ Head(p) = p[1] /\ p[1] \in Part /\ p[1].do \in D /\ p[1].at[1] \in A
         /\ Head(p).do # "admit" => Opens(Tail(p))
<1>1. p \in Seq(Part) BY DEF Plan
<1>2. Len(p) \in Nat \ {0} BY <1>1, EmptySeq
<1>3. Tail(p) = SubSeq(p, 1 + 1, Len(p))
  <2>1. Tail(p) = SubSeq(p, 2, Len(p)) BY <1>1, TailIsSubSeq
  <2> QED BY <2>1
<1>4. Head(p) = p[1] OBVIOUS
<1>5. p[1] \in Part BY <1>1, <1>2, ElementOfSeq
<1>6. /\ Plan(Tail(p), D, A)
      /\ 1 \in 1 .. Len(p) /\ p[1].do # "admit" => Opens(Tail(p))
  BY <1>3, CutPlan
<1> QED BY <1>2, <1>4, <1>5, <1>6 DEF Plan

\* The four steps of ensure_connection.
LEMMA EnsurePlan ==
  ASSUME NEW x \in Pair, NEW A, x[1] \in A
  PROVE  Fresh(Ensure(x), ConnectParts, A)
<1> DEFINE one == Do("find", x)
           two == one \o Do("claim", x)
           three == two \o Do("admit", x)
           four == three \o Do("commit", x)
<1>0. \A d \in {"find", "claim", "admit", "commit"} : d \in Parts
  BY DEF Parts, ConnectParts
<1>1. one \in Seq(Part) /\ Len(one) = 1 /\ one[1].do = "find" /\ one[1].at = x
  BY OneStep, <1>0
<1> HIDE DEF one
<1>2. /\ two \in Seq(Part) /\ Len(two) = 2
      /\ two[1] = one[1] /\ two[2].do = "claim" /\ two[2].at = x
  BY <1>0, <1>1, ThenStep
<1> HIDE DEF two
<1>3. /\ three \in Seq(Part) /\ Len(three) = 3
      /\ three[1] = two[1] /\ three[2] = two[2]
      /\ three[3].do = "admit" /\ three[3].at = x
  <2>1. "admit" \in Parts BY <1>0
  <2>2. /\ three \in Seq(Part) /\ Len(three) = Len(two) + 1
        /\ \A i \in 1 .. Len(two) : three[i] = two[i]
        /\ three[Len(two) + 1].do = "admit" /\ three[Len(two) + 1].at = x
    <3>1. two \in Seq(Part) BY <1>2
    <3> QED BY <2>1, <3>1, ThenStep
  <2> QED BY <2>2, <1>2
<1> HIDE DEF three
<1>4. /\ four \in Seq(Part) /\ Len(four) = 4
      /\ four[1] = three[1] /\ four[2] = three[2] /\ four[3] = three[3]
      /\ four[4].do = "commit" /\ four[4].at = x
  <2>1. "commit" \in Parts BY <1>0
  <2>2. /\ four \in Seq(Part) /\ Len(four) = Len(three) + 1
        /\ \A i \in 1 .. Len(three) : four[i] = three[i]
        /\ four[Len(three) + 1].do = "commit" /\ four[Len(three) + 1].at = x
    <3>1. three \in Seq(Part) BY <1>3
    <3> QED BY <2>1, <3>1, ThenStep
  <2> QED BY <2>2, <1>3
<1>5. Ensure(x) = four BY DEF four, three, two, one, Ensure
<1> HIDE DEF four
<1>6. /\ four[1].do = "find" /\ four[2].do = "claim"
      /\ four[3].do = "admit" /\ four[4].do = "commit"
      /\ \A k \in 1 .. 4 : four[k].at = x
  BY <1>1, <1>2, <1>3, <1>4
<1>7. Linked(four)
  BY <1>4, <1>6 DEF Linked
<1>8. \A k \in 1 .. 4 : four[k].do \in ConnectParts /\ four[k].at[1] \in A
  BY <1>6 DEF ConnectParts
<1>9. Opens(four) BY <1>6 DEF Opens
<1> QED BY <1>4, <1>5, <1>7, <1>8, <1>9 DEF Fresh, Plan

Both == {"put", "fill", "drop", "erase"}

\* The store's two calls are plans of a connecting request and of any other.
LEMMA StoreErasePlan ==
  ASSUME NEW x \in Pair, NEW A, x[1] \in A, NEW D, Both \subseteq D, D \subseteq Parts
  PROVE  Fresh(Store(x), D, A) /\ Fresh(Erase(x), D, A)
<1>1. Fresh(Do("put", x), D, A) /\ Fresh(Do("fill", x), D, A)
  BY SinglePlan DEF Both
<1>2. Fresh(Do("drop", x), D, A) /\ Fresh(Do("erase", x), D, A)
  BY SinglePlan DEF Both
<1> QED BY <1>1, <1>2, JoinedPlan DEF Store, Erase

LEMMA EraseAllPlan ==
  ASSUME NEW a \in Address, NEW P \in SUBSET Providers, NEW A, a \in A,
         NEW D, Both \subseteq D, D \subseteq Parts
  PROVE  Fresh(EraseAll(a, P), D, A)
<1>1. IsFiniteSet(Providers)
  BY CredentialsAssumption, FS_Singleton, FS_Union DEF Providers
<1>2. IsFiniteSet(P) BY <1>1, FS_Subset
<1> DEFINE n == Cardinality(P)
           f == SetToSeq(P)
<1>3. n \in Nat /\ \E g \in [1 .. n -> P] : IsInjective(g)
  BY <1>2, FS_CardinalityType DEF ExistsBijection, Bijection, Injection
<1>4. f \in [1 .. n -> P]
  BY <1>3 DEF SetToSeq
<1> HIDE DEF f, n
<1> DEFINE q == [k \in 1 .. 2 * n |->
                   [do |-> IF k % 2 = 1 THEN "drop" ELSE "erase",
                    at |-> <<a, f[(k + 1) \div 2]>>]]
<1>5. EraseAll(a, P) = q BY DEF EraseAll, f, n
<1>6. \A k \in 1 .. 2 * n : (k + 1) \div 2 \in 1 .. n BY <1>3
<1>7. \A k \in 1 .. 2 * n :
        /\ q[k].do \in {"drop", "erase"} /\ q[k].at[1] = a
        /\ q[k] \in Part
  <2> TAKE k \in 1 .. 2 * n
  <2>1. f[(k + 1) \div 2] \in Providers BY <1>4, <1>6
  <2>2. <<a, f[(k + 1) \div 2]>> \in Pair BY <2>1 DEF Pair
  <2>3. q[k] = [do |-> IF k % 2 = 1 THEN "drop" ELSE "erase",
                at |-> <<a, f[(k + 1) \div 2]>>]
    OBVIOUS
  <2>4. q[k].do \in {"drop", "erase"} /\ q[k].at = <<a, f[(k + 1) \div 2]>>
    BY <2>3
  <2>5. q[k] = [do |-> q[k].do, at |-> q[k].at] BY <2>3
  <2> HIDE DEF q
  <2>6. [do |-> q[k].do, at |-> q[k].at] \in Part
    <3>1. q[k].do \in Parts BY <2>4 DEF Both
    <3>2. q[k].at \in Pair BY <2>2, <2>4
    <3> QED BY <3>1, <3>2 DEF Part
  <2>7. q[k].at[1] = a BY <2>4
  <2> QED BY <2>4, <2>5, <2>6, <2>7
<1>8. 2 * n \in Nat BY <1>3
<1>9. q \in [1 .. 2 * n -> Part] BY <1>7
<1>10. q \in Seq(Part) /\ Len(q) = 2 * n
  <2>1. DOMAIN q = 1 .. 2 * n OBVIOUS
  <2> HIDE DEF q
  <2>2. q \in Seq(Part) BY <1>8, <1>9, SeqDef
  <2> QED BY <2>1, <2>2, <1>8, LenProperties
<1>11. \A k \in 1 .. Len(q) : q[k].do \in {"drop", "erase"} BY <1>7, <1>10
<1> HIDE DEF q
<1>12. Linked(q) BY <1>11 DEF Linked
<1>13. Opens(q)
  BY <1>10, <1>11, EmptySeq DEF Opens
<1> QED BY <1>5, <1>7, <1>10, <1>12, <1>13 DEF Fresh, Plan, Both

\* The plans of the requests that connect a mailbox.
LEMMA ConnectPlans ==
  ASSUME NEW x \in Pair
  PROVE  /\ Fresh(SignInPlan(x), ConnectParts, {x[1]})
         /\ Fresh(Store(x) \o Do("account", x) \o Ensure(x), ConnectParts, {x[1]})
         /\ Fresh(Ensure(x) \o Store(x), ConnectParts, {x[1]})
         /\ Fresh(Store(x) \o Ensure(x), ConnectParts, {x[1]})
<1>1. ConnectParts \subseteq Parts /\ Both \subseteq ConnectParts
  BY DEF Parts, ConnectParts, Both
<1>2. Fresh(Store(x), ConnectParts, {x[1]}) BY <1>1, StoreErasePlan
<1>3. Fresh(Ensure(x), ConnectParts, {x[1]}) BY EnsurePlan
<1>4. "account" \in ConnectParts BY DEF ConnectParts
<1>5. Fresh(Do("account", x), ConnectParts, {x[1]}) BY <1>1, <1>4, SinglePlan
<1>6. Fresh(Do("account", x) \o Store(x), ConnectParts, {x[1]}) BY <1>2, <1>5, JoinedPlan
<1>7. Fresh(SignInPlan(x), ConnectParts, {x[1]})
  BY <1>6, <1>3, JoinedPlan DEF SignInPlan
<1>8. Fresh(Store(x) \o Do("account", x), ConnectParts, {x[1]}) BY <1>2, <1>5, JoinedPlan
<1>9. Fresh(Store(x) \o Do("account", x) \o Ensure(x), ConnectParts, {x[1]})
  BY <1>8, <1>3, JoinedPlan
<1> QED BY <1>2, <1>3, <1>7, <1>9, JoinedPlan

\* The plans of the others.
LEMMA OtherPlans ==
  ASSUME NEW x \in Pair
  PROVE  /\ Fresh(DisconnectPlan(x), OtherParts, Address)
         /\ Fresh(Do("read", x) \o Do("fill", x) \o Store(x), OtherParts, Address)
         /\ Fresh(Do("read", x) \o Do("fill", x) \o <<>>, OtherParts, Address)
         /\ Fresh(Store(x), OtherParts, Address)
         /\ Fresh(PurgePlan(x), OtherParts, Address)
<1>1. OtherParts \subseteq Parts /\ Both \subseteq OtherParts
  BY DEF Parts, OtherParts, Both
<1>2. x[1] \in Address BY DEF Pair
<1>3. Fresh(Store(x), OtherParts, Address) /\ Fresh(Erase(x), OtherParts, Address)
  BY <1>1, <1>2, StoreErasePlan
<1>4. \A s \in OtherParts \ {"find", "commit"} : Fresh(Do(s, x), OtherParts, Address)
  BY <1>1, <1>2, SinglePlan
<1>5. /\ Fresh(Do("read", x), OtherParts, Address)
      /\ Fresh(Do("fill", x), OtherParts, Address)
      /\ Fresh(Do("tombstone", x), OtherParts, Address)
      /\ Fresh(Do("inspect", x), OtherParts, Address)
  BY <1>4 DEF OtherParts
<1>6. Fresh(DisconnectPlan(x), OtherParts, Address)
  BY <1>3, <1>5, JoinedPlan DEF DisconnectPlan
<1>7. Fresh(Do("read", x) \o Do("fill", x), OtherParts, Address) BY <1>5, JoinedPlan
<1>8. Fresh(Do("read", x) \o Do("fill", x) \o Store(x), OtherParts, Address)
  BY <1>7, <1>3, JoinedPlan
<1>9. Do("read", x) \o Do("fill", x) \o <<>> = Do("read", x) \o Do("fill", x)
  <2>1. Do("read", x) \o Do("fill", x) \in Seq(Part) BY <1>7 DEF Fresh, Plan
  <2> QED BY <2>1, ConcatEmptySeq
<1>10. Fresh(Do("inspect", x) \o Do("fill", x), OtherParts, Address) BY <1>5, JoinedPlan
<1>11. Fresh(EraseAll(x[1], Providers), OtherParts, Address)
  BY <1>1, <1>2, EraseAllPlan
<1>12. Fresh(PurgePlan(x), OtherParts, Address)
  BY <1>10, <1>11, JoinedPlan DEF PurgePlan
<1> QED BY <1>3, <1>6, <1>7, <1>8, <1>9, <1>12

LEMMA DeletePlans ==
  ASSUME NEW u \in User
  PROVE  Fresh(DeletePlan(u), OtherParts, Address)
<1> DEFINE home == <<Home[u], "google">>
<1>1. Home[u] \in Address BY CredentialsAssumption
<1>2. home \in Pair BY <1>1 DEF Pair, Providers
<1>3. home[1] \in Address BY <1>1
<1>4. DeletePlan(u) =
        Do("loop", home) \o Do("sever", home)
          \o Do("backstop", home) \o Do("fill", home) \o EraseAll(Home[u], Providers)
  BY DEF DeletePlan
<1> HIDE DEF home
<1>5. OtherParts \subseteq Parts /\ Both \subseteq OtherParts
  BY DEF Parts, OtherParts, Both
<1>6. \A s \in OtherParts \ {"find", "commit"} : Fresh(Do(s, home), OtherParts, Address)
  BY <1>2, <1>3, <1>5, SinglePlan
<1>7. /\ Fresh(Do("loop", home), OtherParts, Address)
      /\ Fresh(Do("sever", home), OtherParts, Address)
      /\ Fresh(Do("backstop", home), OtherParts, Address)
      /\ Fresh(Do("fill", home), OtherParts, Address)
  BY <1>6 DEF OtherParts
<1>8. Fresh(EraseAll(Home[u], Providers), OtherParts, Address)
  BY <1>1, <1>5, EraseAllPlan
<1>9. Fresh(Do("loop", home) \o Do("sever", home), OtherParts, Address)
  BY <1>7, JoinedPlan
<1>10. Fresh(Do("loop", home) \o Do("sever", home) \o Do("backstop", home),
             OtherParts, Address)
  BY <1>7, <1>9, JoinedPlan
<1>11. Fresh(Do("loop", home) \o Do("sever", home) \o Do("backstop", home)
               \o Do("fill", home), OtherParts, Address)
  BY <1>7, <1>10, JoinedPlan
<1> QED BY <1>4, <1>8, <1>11, JoinedPlan

LEMMA EraseOthersPlan ==
  ASSUME NEW x \in Pair
  PROVE  Fresh(EraseOthers(x), ConnectParts, {x[1]})
<1>1. ConnectParts \subseteq Parts /\ Both \subseteq ConnectParts
  BY DEF Parts, ConnectParts, Both
<1>2. x[1] \in Address BY DEF Pair
<1> QED BY <1>1, <1>2, EraseAllPlan DEF EraseOthers

-----------------------------------------------------------------------------
\* Requests.

LEMMA WithPlan ==
  ASSUME NEW r \in Request, NEW p \in Seq(Part)
  PROVE  /\ [r EXCEPT !.plan = p] \in Request
         /\ [r EXCEPT !.plan = p].plan = p
         /\ [r EXCEPT !.plan = p].op = r.op
         /\ [r EXCEPT !.plan = p].user = r.user
         /\ [r EXCEPT !.plan = p].row = r.row
BY DEF Request

\* A request still fits when the rows have grown.
LEMMA FitsGrown ==
  ASSUME NEW r, NEW rs \in Seq(Mailbox), NEW rs2, Fits(r, rs), Grown(rs, rs2)
  PROVE  Fits(r, rs2)
<1>1. Len(rs) \in Nat /\ Len(rs2) \in Nat BY LenProperties DEF Grown
<1>2. r.row \in Nat /\ r.row <= Len(rs) BY DEF Fits, Request
<1>3. r.row <= Len(rs2) BY <1>1, <1>2 DEF Grown
<1>4. \A a : Aimed(r, rs, a) => Aimed(r, rs2, a)
  BY <1>1, <1>2 DEF Aimed, Grown, NoRow
<1> QED BY <1>3, <1>4 DEF Fits

LEMMA IdleFits ==
  ASSUME NEW rs \in Seq(Mailbox)
  PROVE  Fits(Idle, rs) /\ Opens(Idle.plan)
<1>1. Len(rs) \in Nat BY LenProperties
<1>2. Idle \in Request
  BY DEF Idle, Request, Values, NoGrant, NoRow, Providers
<1>3. Idle.plan = <<>> /\ Idle.op = "none" /\ Idle.row = 0 BY DEF Idle, NoRow
<1>4. "none" \notin Connecting BY DEF Connecting
<1>5. Len(<<>>) = 0 /\ <<>> \in Seq(Part) BY EmptySeq
<1>6. Plan(<<>>, OtherParts, Address) BY <1>5 DEF Plan, Linked
<1> QED BY <1>1, <1>2, <1>3, <1>4, <1>6 DEF Fits, Opens

\* A request whose plan is cut still fits.
LEMMA FitsCut ==
  ASSUME NEW rs \in Seq(Mailbox), NEW r, Fits(r, rs), NEW n \in Nat,
         NEW q \in Request, q.op = r.op, q.user = r.user, q.row = r.row,
         q.plan = SubSeq(r.plan, n + 1, Len(r.plan))
  PROVE  Fits(q, rs)
<1>1. ASSUME NEW D, NEW A, Plan(r.plan, D, A) PROVE Plan(q.plan, D, A)
  BY <1>1, CutPlan
<1>2. \A a : Aimed(r, rs, a) => Aimed(q, rs, a) BY DEF Aimed
<1> QED BY <1>1, <1>2 DEF Fits

LEMMA FitsTail ==
  ASSUME NEW rs \in Seq(Mailbox), NEW r, Fits(r, rs), r.plan # <<>>,
         NEW q \in Request, q.op = r.op, q.user = r.user, q.row = r.row,
         q.plan = Tail(r.plan)
  PROVE  Fits(q, rs)
<1>1. ASSUME NEW D, NEW A, Plan(r.plan, D, A) PROVE Plan(q.plan, D, A)
  BY <1>1, TailPlan
<1>2. \A a : Aimed(r, rs, a) => Aimed(q, rs, a) BY DEF Aimed
<1> QED BY <1>1, <1>2 DEF Fits

\* The step a request is at.
LEMMA FitsHead ==
  ASSUME NEW rs, NEW r, Fits(r, rs), r.plan # <<>>
  PROVE  /\ r.plan \in Seq(Part) /\ Linked(r.plan)
         /\ Head(r.plan) = r.plan[1] /\ Head(r.plan) \in Part
         /\ Head(r.plan).at \in Pair
         /\ Tail(r.plan) \in Seq(Part)
         /\ Head(r.plan).do # "admit" => Opens(Tail(r.plan))
         /\ Head(r.plan).do \in ConnectParts \ OtherParts => r.op \in Connecting
         /\ Head(r.plan).do \in OtherParts \ ConnectParts => r.op \notin Connecting
<1>1. PICK D, A : Plan(r.plan, D, A) /\ D \in {ConnectParts, OtherParts}
                  /\ (r.op \in Connecting <=> D = ConnectParts)
  <2>1. "find" \in ConnectParts /\ "find" \notin OtherParts
    BY DEF ConnectParts, OtherParts
  <2> QED BY <2>1 DEF Fits
<1>2. /\ Plan(Tail(r.plan), D, A)
      /\ Head(r.plan) = r.plan[1] /\ r.plan[1] \in Part /\ r.plan[1].do \in D
      /\ Head(r.plan).do # "admit" => Opens(Tail(r.plan))
  BY <1>1, TailPlan
<1>3. Head(r.plan).at \in Pair BY <1>2 DEF Part
<1> QED BY <1>1, <1>2, <1>3 DEF Plan

\* Only a request that connects has a commit in its plan.
LEMMA OtherOpens ==
  ASSUME NEW rs, NEW r, Fits(r, rs), r.op \notin Connecting
  PROVE  Opens(r.plan)
<1>1. Plan(r.plan, OtherParts, Address) BY DEF Fits
<1> SUFFICES ASSUME r.plan # <<>> PROVE r.plan[1].do # "commit" BY DEF Opens
<1>2. 1 \in 1 .. Len(r.plan) BY <1>1, EmptySeq DEF Plan
<1>3. r.plan[1].do \in OtherParts BY <1>1, <1>2 DEF Plan
<1> QED BY <1>3 DEF OtherParts

LEMMA GrownSame ==
  ASSUME NEW rs \in Seq(Mailbox)
  PROVE  Grown(rs, rs)
<1>1. Len(rs) \in Nat BY LenProperties
<1> QED BY <1>1 DEF Grown

LEMMA Became ==
  ASSUME TasksFit, rows \in Seq(Mailbox), NEW t \in Task,
         NEW r, Fits(r, rows), Becomes(t, r), Grown(rows, rows')
  PROVE  Moves(t) /\ (Opens(r.plan) => Opens(task'[t].plan))
<1>1. Fits(r, rows') /\ r \in Request BY FitsGrown DEF Fits
<1>2. rows' \in Seq(Mailbox) BY DEF Grown
<1>3. Fits(Idle, rows') /\ Opens(Idle.plan) /\ Idle \in Request
  BY <1>2, IdleFits DEF Fits
<1>4. task' = [task EXCEPT ![t] = IF r.plan = <<>> THEN Idle ELSE r] BY DEF Becomes
<1>5. task'[t] = Idle \/ task'[t] = r BY <1>4 DEF TasksFit
<1>6. task' \in [Task -> Request] BY <1>1, <1>3, <1>4 DEF TasksFit
<1>7. \A s \in Task \ {t} : task'[s] = task[s] BY <1>4 DEF TasksFit
<1> QED BY <1>1, <1>3, <1>5, <1>6, <1>7 DEF Moves

LEMMA Advanced ==
  ASSUME TasksFit, rows \in Seq(Mailbox), NEW t \in Task, task[t].plan # <<>>,
         Advance(t), Grown(rows, rows')
  PROVE  Moves(t) /\ (Head(task[t].plan).do # "admit" => Opens(task'[t].plan))
<1> DEFINE r == [task[t] EXCEPT !.plan = Tail(@)]
<1>1. Fits(task[t], rows) /\ task[t] \in Request BY DEF TasksFit
<1>2. Tail(task[t].plan) \in Seq(Part)
      /\ (Head(task[t].plan).do # "admit" => Opens(Tail(task[t].plan)))
  BY <1>1, FitsHead
<1>3. /\ r \in Request /\ r.op = task[t].op /\ r.user = task[t].user
      /\ r.row = task[t].row /\ r.plan = Tail(task[t].plan)
  BY <1>1, <1>2, WithPlan
<1>4. Becomes(t, r) BY DEF Advance
<1> HIDE DEF r
<1>5. Fits(r, rows) BY <1>1, <1>3, FitsTail
<1> QED BY <1>2, <1>3, <1>4, <1>5, Became

LEMMA Ended ==
  ASSUME TasksFit, NEW t \in Task, End(t), rows' \in Seq(Mailbox)
  PROVE  Moves(t) /\ Opens(task'[t].plan)
<1>1. Fits(Idle, rows') /\ Opens(Idle.plan) /\ Idle \in Request
  BY IdleFits DEF Fits
<1> QED BY <1>1 DEF End, Moves, TasksFit

LEMMA Released ==
  ASSUME Typed, NEW t \in Task, Release(t)
  PROVE  /\ lock' \in [User -> Task \cup {Nobody}]
         /\ \A u \in User : lock[u] \in Task \ {t} => lock'[u] = lock[u]
BY DEF Release, Typed

\* Where no row comes to life, the caps, the holders and the locks stand.
LEMMA ShrinkKeeps ==
  ASSUME IInv, NEW t \in Task, Calm(t), Shrinks
  PROVE  LockInv' /\ CapKept' /\ OneHolder'
<1>1. /\ rows \in Seq(Mailbox) /\ rows' \in Seq(Mailbox)
      /\ Len(rows) \in Nat /\ Len(rows') \in Nat
      /\ DOMAIN rows = 1 .. Len(rows) /\ DOMAIN rows' = 1 .. Len(rows')
  BY LenProperties DEF IInv, Typed, Calm, Grown
<1>2. \A i \in DOMAIN rows' : rows'[i].live =>
        /\ i \in DOMAIN rows /\ rows[i].live
        /\ rows'[i].user = rows[i].user /\ rows'[i].addr = rows[i].addr
  BY <1>1 DEF Calm, Grown, Shrinks
<1>3. \A u : LiveRows(u)' \subseteq LiveRows(u)
  BY <1>2 DEF LiveRows
<1>4. \A u : IsFiniteSet(LiveRows(u)) /\ IsFiniteSet(LiveRows(u)')
             /\ Cardinality(LiveRows(u)) \in Nat /\ Cardinality(LiveRows(u)') \in Nat
             /\ Cardinality(LiveRows(u)') <= Cardinality(LiveRows(u))
  <2> TAKE u
  <2>1. LiveRows(u) \subseteq 1 .. Len(rows) BY <1>1 DEF LiveRows
  <2>2. IsFiniteSet(1 .. Len(rows)) BY <1>1, FS_Interval
  <2>3. IsFiniteSet(LiveRows(u)) BY <2>1, <2>2, FS_Subset
  <2>4. LiveRows(u)' \in SUBSET LiveRows(u) BY <1>3
  <2> QED BY <2>3, <2>4, FS_Subset, FS_CardinalityType
<1>5. Limit \in [User -> Nat] BY CredentialsAssumption
<1>6. CapKept'
  BY <1>4, <1>5 DEF IInv, CapKept
<1>7. OneHolder'
  BY <1>2 DEF IInv, OneHolder
<1>8. LockInv'
  <2> SUFFICES ASSUME NEW s \in Task, Todo(s, "commit")'
               PROVE  /\ (lock[task[s].user] = s)'
                      /\ (Cardinality(LiveRows(task[s].user)) < Limit[task[s].user])'
    BY DEF LockInv
  <2>1. s # t
    <3> SUFFICES ASSUME s = t PROVE FALSE OBVIOUS
    <3>1. task'[t].plan # <<>> /\ Head(task'[t].plan).do = "commit" BY DEF Todo
    <3>2. Head(task'[t].plan) = task'[t].plan[1]
      BY <3>1, FitsHead DEF Calm, Moves
    <3> QED BY <3>1, <3>2 DEF Calm, Opens
  <2>2. task'[s] = task[s] BY <2>1 DEF Calm, Moves
  <2>3. Todo(s, "commit") BY <2>2 DEF Todo
  <2>4. lock[task[s].user] = s /\ Cardinality(LiveRows(task[s].user)) < Limit[task[s].user]
    BY <2>3 DEF IInv, LockInv
  <2>5. task[s].user \in User
    <3>1. Fits(task[s], rows) BY DEF IInv, TasksFit
    <3>2. "commit" \in ConnectParts \ OtherParts BY DEF ConnectParts, OtherParts
    <3>3. task[s].op \in Connecting BY <2>3, <3>1, <3>2, FitsHead DEF Todo
    <3> QED BY <3>1, <3>3 DEF Fits
  <2>6. lock'[task[s].user] = s BY <2>1, <2>4, <2>5 DEF Calm
  <2>7. PICK u \in User : u = task[s].user BY <2>5
  <2>8. Cardinality(LiveRows(u)') < Limit[u]
    BY <1>4, <1>5, <2>4, <2>7
  <2>9. (LiveRows(task[s].user))' = LiveRows(u)'
    BY <2>2, <2>7 DEF LiveRows
  <2> QED BY <2>2, <2>6, <2>7, <2>8, <2>9
<1> QED BY <1>6, <1>7, <1>8

\* Whoever moves, the others still fit.
LEMMA CalmFits ==
  ASSUME IInv, NEW t \in Task, Moves(t), Grown(rows, rows')
  PROVE  TasksFit'
<1>1. \A s \in Task \ {t} : Fits(task[s], rows') /\ task'[s] = task[s]
  BY FitsGrown DEF IInv, TasksFit, Typed, Moves
<1> QED BY <1>1 DEF Moves, TasksFit

\* Rows of which only the provider and the life changed.
LEMMA Rewritten ==
  ASSUME NEW rs \in Seq(Mailbox), NEW rs2 \in [DOMAIN rs -> Mailbox],
         \A i \in DOMAIN rs : rs2[i].user = rs[i].user /\ rs2[i].addr = rs[i].addr
  PROVE  Grown(rs, rs2)
<1>1. DOMAIN rs = 1 .. Len(rs) /\ Len(rs) \in Nat BY LenProperties
<1>2. rs2 \in [1 .. Len(rs) -> Mailbox] BY <1>1
<1>3. rs2 \in Seq(Mailbox) BY <1>1, <1>2, SeqDef
<1>4. DOMAIN rs2 = 1 .. Len(rs) BY <1>2
<1>5. Len(rs2) = Len(rs) BY <1>1, <1>3, <1>4, LenProperties
<1> QED BY <1>1, <1>3, <1>5 DEF Grown

-----------------------------------------------------------------------------
\* Steps.

LEMMA Here ==
  ASSUME IInv, NEW t \in Task, task[t].plan # <<>>
  PROVE  /\ task[t] \in Request /\ Fits(task[t], rows) /\ At(t) \in Pair
         /\ Head(task[t].plan) = task[t].plan[1]
         /\ Tail(task[t].plan) \in Seq(Part)
         /\ Head(task[t].plan).do # "admit" => Opens(Tail(task[t].plan))
<1>1. task[t] \in Request /\ Fits(task[t], rows) BY DEF IInv, TasksFit
<1> QED BY <1>1, FitsHead DEF At

\* A step that leaves the rows alone and advances.
LEMMA QuietAdvance ==
  ASSUME IInv, NEW t \in Task, Typed', rows' = rows, lock' = lock, Advance(t),
         task[t].plan # <<>>, Head(task[t].plan).do # "admit"
  PROVE  Calm(t) /\ Shrinks
<1>1. Grown(rows, rows') BY GrownSame DEF IInv, Typed
<1>2. Moves(t) /\ Opens(task'[t].plan) BY <1>1, Advanced DEF IInv, Typed
<1> QED BY <1>1, <1>2 DEF Calm, Shrinks

\* A step that leaves the rows alone and makes its record r.
LEMMA QuietBecomes ==
  ASSUME IInv, NEW t \in Task, Typed', rows' = rows, lock' = lock,
         NEW r, Becomes(t, r), Fits(r, rows), Opens(r.plan)
  PROVE  Calm(t) /\ Shrinks
<1>1. Grown(rows, rows') BY GrownSame DEF IInv, Typed
<1>2. Moves(t) /\ Opens(task'[t].plan) BY <1>1, Became DEF IInv, Typed
<1> QED BY <1>1, <1>2 DEF Calm, Shrinks

LEMMA QuietEnd ==
  ASSUME IInv, NEW t \in Task, Typed', rows' = rows, End(t), lock' = lock \/ Release(t)
  PROVE  Calm(t) /\ Shrinks
<1>1. Grown(rows, rows') /\ rows' \in Seq(Mailbox) BY GrownSame DEF IInv, Typed
<1>2. Moves(t) /\ Opens(task'[t].plan) BY <1>1, Ended DEF IInv
<1>3. \A u \in User : lock[u] \in Task \ {t} => lock'[u] = lock[u]
  BY Released DEF IInv
<1> QED BY <1>1, <1>2, <1>3 DEF Calm, Shrinks

LEMMA AccountCalm ==
  ASSUME IInv, NEW t \in Task, AccountStep(t)
  PROVE  Calm(t) /\ Shrinks
<1>1. task[t].plan # <<>> /\ Head(task[t].plan).do # "admit" BY DEF AccountStep, Todo
<1>2. Typed' BY DEF AccountStep, IInv, Typed
<1> QED BY <1>1, <1>2, QuietAdvance DEF AccountStep

LEMMA PutCalm ==
  ASSUME IInv, NEW t \in Task, PutStep(t)
  PROVE  Calm(t) /\ Shrinks
<1>1. task[t].plan # <<>> /\ Head(task[t].plan).do # "admit" BY DEF PutStep, Todo
<1>2. At(t) \in Pair /\ task[t].val \in Values BY <1>1, Here DEF Request
<1>3. Typed' BY <1>2 DEF PutStep, IInv, Typed
<1>4. Advance(t) BY DEF PutStep, Advance
<1> QED BY <1>1, <1>3, <1>4, QuietAdvance DEF PutStep

LEMMA PutFailsCalm ==
  ASSUME IInv, NEW t \in Task, PutFails(t)
  PROVE  Calm(t) /\ Shrinks
<1>1. lock' \in [User -> Task \cup {Nobody}] BY Released DEF PutFails, IInv
<1>2. Typed' BY <1>1 DEF PutFails, stores, IInv, Typed
<1> QED BY <1>2, QuietEnd DEF PutFails, stores

LEMMA FillCalm ==
  ASSUME IInv, NEW t \in Task, FillStep(t)
  PROVE  Calm(t) /\ Shrinks
<1>1. task[t].plan # <<>> /\ Head(task[t].plan).do # "admit" BY DEF FillStep, Todo
<1>2. At(t) \in Pair /\ task[t] \in Request /\ task[t].got \in Values
  BY <1>1, Here DEF Request
<1>3. Typed' BY <1>2 DEF FillStep, IInv, Typed
<1> DEFINE r == [task[t] EXCEPT !.got = task[t].val, !.plan = Tail(@)]
<1>4. /\ r \in Request /\ r.op = task[t].op /\ r.user = task[t].user
      /\ r.row = task[t].row /\ r.plan = Tail(task[t].plan)
  BY <1>1, <1>2, Here DEF Request
<1>5. Becomes(t, r) BY DEF FillStep
<1> HIDE DEF r
<1>6. Fits(r, rows) /\ Opens(r.plan)
  BY <1>1, <1>4, Here, FitsTail DEF IInv, Typed
<1> QED BY <1>3, <1>5, <1>6, QuietBecomes DEF FillStep

\* What is skipped in the plan of a request that connects nothing.
LEMMA SkipFits ==
  ASSUME IInv, NEW t \in Task, task[t].op \notin Connecting, NEW n \in Nat,
         NEW r \in Request, r.op = task[t].op, r.user = task[t].user,
         r.row = task[t].row, r.plan = Skip(t, n)
  PROVE  Fits(r, rows) /\ Opens(r.plan)
<1>1. Fits(task[t], rows) BY DEF IInv, TasksFit
<1>2. Fits(r, rows) BY <1>1, FitsCut DEF Skip, IInv, Typed
<1> QED BY <1>2, OtherOpens

LEMMA SkipSeq ==
  ASSUME IInv, NEW t \in Task, NEW n \in Nat
  PROVE  Skip(t, n) \in Seq(Part)
<1>1. PICK D, A : Plan(task[t].plan, D, A)
  BY DEF IInv, TasksFit, Fits
<1> QED BY <1>1, CutPlan DEF Skip, Plan

LEMMA ReadCalm ==
  ASSUME IInv, NEW t \in Task, ReadStep(t)
  PROVE  Calm(t) /\ Shrinks
<1>1. /\ task[t].plan # <<>>
      /\ Head(task[t].plan).do \in {"read", "inspect", "backstop"}
  BY DEF ReadStep, Todo
<1>2. /\ At(t) \in Pair /\ task[t] \in Request /\ Fits(task[t], rows)
      /\ Tail(task[t].plan) \in Seq(Part)
      /\ Opens(Tail(task[t].plan))
  BY <1>1, Here
<1>3. task[t].op \notin Connecting
  BY <1>1, <1>2, FitsHead DEF ConnectParts, OtherParts
<1>4. Typed' BY DEF ReadStep, stores, IInv, Typed
<1>5. CASE Becomes(t, [task[t] EXCEPT !.got = secret[At(t)], !.plan = Tail(@)])
  <2> DEFINE r == [task[t] EXCEPT !.got = secret[At(t)], !.plan = Tail(@)]
  <2>1. secret[At(t)] \in Values BY <1>2 DEF IInv, Typed
  <2>2. /\ r \in Request /\ r.op = task[t].op /\ r.user = task[t].user
        /\ r.row = task[t].row /\ r.plan = Tail(task[t].plan)
    BY <1>2, <2>1 DEF Request
  <2>3. Becomes(t, r) BY <1>5
  <2> HIDE DEF r
  <2>4. Fits(r, rows) BY <1>1, <1>2, <2>2, FitsTail DEF IInv, Typed
  <2> QED BY <1>2, <1>4, <2>2, <2>3, <2>4, QuietBecomes DEF ReadStep, stores
<1>6. CASE Becomes(t, [task[t] EXCEPT !.plan = Skip(t, 2)])
  <2> DEFINE r == [task[t] EXCEPT !.plan = Skip(t, 2)]
  <2>1. /\ r \in Request /\ r.op = task[t].op /\ r.user = task[t].user
        /\ r.row = task[t].row /\ r.plan = Skip(t, 2)
    BY <1>2, SkipSeq, WithPlan
  <2>2. Becomes(t, r) BY <1>6
  <2> HIDE DEF r
  <2>3. Fits(r, rows) /\ Opens(r.plan) BY <1>3, <2>1, SkipFits
  <2> QED BY <1>4, <2>2, <2>3, QuietBecomes DEF ReadStep, stores
<1>7. CASE End(t)
  BY <1>4, <1>7, QuietEnd DEF ReadStep, stores
<1> QED BY <1>5, <1>6, <1>7 DEF ReadStep

LEMMA ReadFailsCalm ==
  ASSUME IInv, NEW t \in Task, ReadFails(t)
  PROVE  Calm(t) /\ Shrinks
<1>1. Typed' BY DEF ReadFails, stores, IInv, Typed
<1>2. CASE End(t)
  BY <1>1, <1>2, QuietEnd DEF ReadFails, stores
<1>3. CASE Todo(t, "inspect") /\
           Becomes(t, [task[t] EXCEPT
                        !.plan = Skip(t, 2 + 2 * Cardinality(Providers)),
                        !.purged = {i \in @ : rows[i].addr # At(t)[1]}])
  <2> DEFINE n == 2 + 2 * Cardinality(Providers)
             r == [task[t] EXCEPT
                    !.plan = Skip(t, n),
                    !.purged = {i \in @ : rows[i].addr # At(t)[1]}]
  <2>1. task[t].plan # <<>> /\ Head(task[t].plan).do = "inspect" BY <1>3 DEF Todo
  <2>2. task[t] \in Request /\ Fits(task[t], rows) BY <2>1, Here
  <2>3. task[t].op \notin Connecting
    BY <2>1, <2>2, FitsHead DEF ConnectParts, OtherParts
  <2>4. n \in Nat
    <3>1. IsFiniteSet(Providers)
      BY CredentialsAssumption, FS_Singleton, FS_Union DEF Providers
    <3> QED BY <3>1, FS_CardinalityType
  <2>5. Becomes(t, r) BY <1>3
  <2> HIDE DEF n
  <2>6. Skip(t, n) \in Seq(Part) BY <2>4, SkipSeq
  <2>7. /\ r \in Request /\ r.op = task[t].op /\ r.user = task[t].user
        /\ r.row = task[t].row /\ r.plan = Skip(t, n)
    BY <2>2, <2>6 DEF Request
  <2> HIDE DEF r
  <2>8. Fits(r, rows) /\ Opens(r.plan) BY <2>3, <2>4, <2>7, SkipFits
  <2> QED BY <1>1, <2>5, <2>8, QuietBecomes DEF ReadFails, stores
<1> QED BY <1>2, <1>3 DEF ReadFails

LEMMA DropCalm ==
  ASSUME IInv, NEW t \in Task, DropStep(t)
  PROVE  Calm(t) /\ Shrinks
<1>1. task[t].plan # <<>> /\ Head(task[t].plan).do # "admit" BY DEF DropStep, Todo
<1>2. Typed' BY DEF DropStep, CacheWithout, IInv, Typed, Values
<1> QED BY <1>1, <1>2, QuietAdvance DEF DropStep

LEMMA EraseCalm ==
  ASSUME IInv, NEW t \in Task, EraseStep(t)
  PROVE  Calm(t) /\ Shrinks
<1>1. task[t].plan # <<>> /\ Head(task[t].plan).do # "admit" BY DEF EraseStep, Todo
<1>2. At(t) \in Pair BY <1>1, Here
<1>3. Typed' BY <1>2 DEF EraseStep, IInv, Typed, Values
<1> QED BY <1>1, <1>3, QuietAdvance DEF EraseStep

\* A connecting request, and the address its whole plan is about.
LEMMA Connects ==
  ASSUME IInv, NEW t \in Task, task[t].plan # <<>>,
         Head(task[t].plan).do \in ConnectParts \ OtherParts
  PROVE  LET a == At(t)[1] IN
         /\ task[t].op \in Connecting /\ task[t].user \in User
         /\ At(t) \in Pair /\ a \in Address
         /\ Plan(task[t].plan, ConnectParts, {a}) /\ Aimed(task[t], rows, a)
<1>1. Fits(task[t], rows) /\ At(t) \in Pair BY Here
<1>2. task[t].op \in Connecting BY <1>1, FitsHead
<1>3. PICK a \in Address : Plan(task[t].plan, ConnectParts, {a}) /\ Aimed(task[t], rows, a)
  BY <1>1, <1>2 DEF Fits
<1>4. Head(task[t].plan) = task[t].plan[1] /\ task[t].plan[1].at[1] \in {a}
  BY <1>3, TailPlan
<1>5. At(t)[1] = a BY <1>4 DEF At
<1> QED BY <1>1, <1>2, <1>3, <1>5 DEF Fits

\* The fourth step after a find is its commit: what follows opens.
LEMMA PastFind ==
  ASSUME IInv, NEW t \in Task, Todo(t, "find")
  PROVE  /\ Fresh(Skip(t, 4), ConnectParts, {At(t)[1]})
         /\ Skip(t, 4) \in Seq(Part)
<1>1. task[t].plan # <<>> /\ Head(task[t].plan).do = "find" BY DEF Todo
<1>2. "find" \in ConnectParts \ OtherParts BY DEF ConnectParts, OtherParts
<1>3. Plan(task[t].plan, ConnectParts, {At(t)[1]}) BY <1>1, <1>2, Connects
<1>4. /\ Len(task[t].plan) \in Nat \ {0}
      /\ task[t].plan[1].do = "find"
  BY <1>1, <1>3, EmptySeq, TailPlan DEF Plan
<1>5. 1 \in 1 .. Len(task[t].plan) BY <1>4
<1>6. 1 + 3 <= Len(task[t].plan) /\ task[t].plan[1 + 3].do = "commit"
  BY <1>3, <1>4, <1>5 DEF Plan, Linked
<1>7. 4 \in 1 .. Len(task[t].plan) /\ task[t].plan[4].do # "admit" BY <1>4, <1>6
<1>8. /\ Plan(SubSeq(task[t].plan, 4 + 1, Len(task[t].plan)), ConnectParts, {At(t)[1]})
      /\ Opens(SubSeq(task[t].plan, 4 + 1, Len(task[t].plan)))
  BY <1>3, <1>7, CutPlan
<1> QED BY <1>8 DEF Skip, Fresh, Plan

LEMMA FindCalm ==
  ASSUME IInv, NEW t \in Task, FindStep(t)
  PROVE  Calm(t) /\ Shrinks
<1> DEFINE x == At(t)
           u == task[t].user
           mine == {i \in DOMAIN rows : rows[i].user = u /\ rows[i].addr = x[1]}
<1>1. /\ task[t].plan # <<>> /\ Head(task[t].plan).do = "find" /\ Todo(t, "find")
  BY DEF FindStep, Todo
<1>2. "find" \in ConnectParts \ OtherParts BY DEF ConnectParts, OtherParts
<1>3. /\ task[t].op \in Connecting /\ u \in User /\ x \in Pair /\ x[1] \in Address
      /\ Plan(task[t].plan, ConnectParts, {x[1]})
  BY <1>1, <1>2, Connects
<1>4. /\ task[t] \in Request /\ Fits(task[t], rows)
      /\ Tail(task[t].plan) \in Seq(Part) /\ Opens(Tail(task[t].plan))
  BY <1>1, Here
<1>5. Typed' BY DEF FindStep, stores, IInv, Typed
<1>6. rows' = rows /\ lock' = lock BY DEF FindStep, stores
<1>7. rows \in Seq(Mailbox) /\ DOMAIN rows = 1 .. Len(rows) /\ Len(rows) \in Nat
  BY LenProperties DEF IInv, Typed
<1>8. CASE Advance(t)
  BY <1>1, <1>5, <1>6, <1>8, QuietAdvance
<1>9. ASSUME NEW i \in mine,
             Becomes(t, [task[t] EXCEPT !.row = i, !.seen = rows[i].prov, !.plan = Tail(@)])
      PROVE  Calm(t) /\ Shrinks
  <2> DEFINE r == [task[t] EXCEPT !.row = i, !.seen = rows[i].prov, !.plan = Tail(@)]
  <2>1. i \in Nat /\ i <= Len(rows) /\ rows[i].prov \in Providers
    <3>1. i \in 1 .. Len(rows) BY <1>7
    <3>2. rows[i] \in Mailbox BY <1>7, <3>1, ElementOfSeq
    <3> QED BY <1>7, <3>1, <3>2 DEF Mailbox
  <2>2. /\ r \in Request /\ r.op = task[t].op /\ r.user = u
        /\ r.row = i /\ r.plan = Tail(task[t].plan)
    BY <1>4, <2>1 DEF Request
  <2>3. Becomes(t, r) BY <1>9
  <2> HIDE DEF r
  <2>4. Plan(r.plan, ConnectParts, {x[1]}) BY <1>1, <1>3, <2>2, TailPlan
  <2>5. Aimed(r, rows, x[1]) BY <2>2 DEF Aimed
  <2>6. Fits(r, rows) BY <1>3, <2>1, <2>2, <2>4, <2>5 DEF Fits
  <2> QED BY <1>4, <1>5, <1>6, <2>2, <2>3, <2>6, QuietBecomes
<1>10. ASSUME NEW i \in mine,
              Becomes(t, [task[t] EXCEPT !.row = i, !.plan =
                 IF rows[i].prov = x[2] THEN Skip(t, 4)
                 ELSE Do("switch", x) \o EraseOthers(x) \o Skip(t, 4)])
       PROVE  Calm(t) /\ Shrinks
  <2> DEFINE long == Do("switch", x) \o EraseOthers(x) \o Skip(t, 4)
             q == IF rows[i].prov = x[2] THEN Skip(t, 4) ELSE long
             r == [task[t] EXCEPT !.row = i, !.plan = q]
  <2>1. Fresh(Skip(t, 4), ConnectParts, {x[1]}) BY <1>1, PastFind
  <2>2. Fresh(long, ConnectParts, {x[1]})
    <3>1. "switch" \in ConnectParts /\ ConnectParts \subseteq Parts
      BY DEF ConnectParts, Parts
    <3>2. Fresh(Do("switch", x), ConnectParts, {x[1]}) BY <1>3, <3>1, SinglePlan
    <3>3. Fresh(EraseOthers(x), ConnectParts, {x[1]}) BY <1>3, EraseOthersPlan
    <3>4. Fresh(Do("switch", x) \o EraseOthers(x), ConnectParts, {x[1]})
      BY <3>2, <3>3, JoinedPlan
    <3> QED BY <3>4, <2>1, JoinedPlan
  <2>3. Becomes(t, r) BY <1>10
  <2> HIDE DEF long
  <2>4. Fresh(q, ConnectParts, {x[1]}) BY <2>1, <2>2
  <2> HIDE DEF q
  <2>5. q \in Seq(Part) BY <2>4 DEF Fresh, Plan
  <2>6. i \in Nat /\ i <= Len(rows) BY <1>7
  <2>7. /\ r \in Request /\ r.op = task[t].op /\ r.user = u
        /\ r.row = i /\ r.plan = q
    BY <1>4, <2>5, <2>6 DEF Request
  <2> HIDE DEF r
  <2>8. Aimed(r, rows, x[1]) BY <2>7 DEF Aimed
  <2>9. Fits(r, rows) /\ Opens(r.plan)
    BY <1>3, <2>4, <2>6, <2>7, <2>8 DEF Fits, Fresh
  <2> QED BY <1>5, <1>6, <2>3, <2>9, QuietBecomes
<1> QED BY <1>8, <1>9, <1>10 DEF FindStep

\* A step that rewrites the rows, and advances.
LEMMA RowsAdvance ==
  ASSUME IInv, NEW t \in Task, Grown(rows, rows'), Shrinks, Typed', lock' = lock,
         \/ Advance(t)
         \/ Becomes(t, [task[t] EXCEPT !.purged = {}, !.plan = Tail(@)]),
         task[t].plan # <<>>, Head(task[t].plan).do # "admit"
  PROVE  Calm(t) /\ Shrinks
<1>1. CASE Advance(t)
  <2>1. Moves(t) /\ Opens(task'[t].plan) BY <1>1, Advanced DEF IInv, Typed
  <2> QED BY <2>1 DEF Calm
<1>2. CASE Becomes(t, [task[t] EXCEPT !.purged = {}, !.plan = Tail(@)])
  <2> DEFINE r == [task[t] EXCEPT !.purged = {}, !.plan = Tail(@)]
  <2>1. /\ r \in Request /\ r.op = task[t].op /\ r.user = task[t].user
        /\ r.row = task[t].row /\ r.plan = Tail(task[t].plan)
    BY Here DEF Request
  <2>2. Becomes(t, r) BY <1>2
  <2> HIDE DEF r
  <2>3. Fits(r, rows) BY <2>1, Here, FitsTail DEF IInv, Typed
  <2>4. Moves(t) /\ Opens(task'[t].plan)
    BY <2>1, <2>2, <2>3, Here, Became DEF IInv, Typed
  <2> QED BY <2>4 DEF Calm
<1> QED BY <1>1, <1>2

LEMMA SwitchCalm ==
  ASSUME IInv, NEW t \in Task, SwitchStep(t)
  PROVE  Calm(t) /\ Shrinks
<1>1. task[t].plan # <<>> /\ Head(task[t].plan).do # "admit" BY DEF SwitchStep, Todo
<1>2. At(t) \in Pair /\ At(t)[2] \in Providers BY <1>1, Here DEF Pair
<1>3. rows \in Seq(Mailbox) /\ rows \in [DOMAIN rows -> Mailbox]
  BY LenProperties DEF IInv, Typed
<1>4. /\ rows' \in [DOMAIN rows -> Mailbox]
      /\ \A i \in DOMAIN rows :
           /\ rows'[i].user = rows[i].user /\ rows'[i].addr = rows[i].addr
           /\ rows'[i].live = rows[i].live
  BY <1>2, <1>3 DEF SwitchStep, Mailbox
<1>5. Grown(rows, rows') /\ Shrinks BY <1>3, <1>4, Rewritten DEF Shrinks
<1>6. Typed' BY <1>2, <1>5 DEF SwitchStep, IInv, Typed, Grown
<1> QED BY <1>1, <1>5, <1>6, RowsAdvance DEF SwitchStep

LEMMA TombstoneCalm ==
  ASSUME IInv, NEW t \in Task, TombstoneStep(t)
  PROVE  Calm(t) /\ Shrinks
<1>1. task[t].plan # <<>> /\ Head(task[t].plan).do # "admit" BY DEF TombstoneStep, Todo
<1>2. rows \in Seq(Mailbox) /\ rows \in [DOMAIN rows -> Mailbox]
  BY LenProperties DEF IInv, Typed
<1>3. /\ rows' \in [DOMAIN rows -> Mailbox]
      /\ \A i \in DOMAIN rows :
           /\ rows'[i].user = rows[i].user /\ rows'[i].addr = rows[i].addr
           /\ rows'[i].live => rows[i].live
  BY <1>2 DEF TombstoneStep, Mailbox
<1>4. Grown(rows, rows') /\ Shrinks BY <1>2, <1>3, Rewritten DEF Shrinks
<1>5. Typed' BY <1>4 DEF TombstoneStep, IInv, Typed, Grown
<1> QED BY <1>1, <1>4, <1>5, RowsAdvance DEF TombstoneStep

LEMMA SeverCalm ==
  ASSUME IInv, NEW t \in Task, SeverStep(t)
  PROVE  Calm(t) /\ Shrinks
<1>1. task[t].plan # <<>> /\ Head(task[t].plan).do # "admit" BY DEF SeverStep, Todo
<1>2. rows \in Seq(Mailbox) /\ rows \in [DOMAIN rows -> Mailbox]
  BY LenProperties DEF IInv, Typed
<1>3. /\ rows' \in [DOMAIN rows -> Mailbox]
      /\ \A i \in DOMAIN rows :
           /\ rows'[i].user = rows[i].user /\ rows'[i].addr = rows[i].addr
           /\ rows'[i].live => rows[i].live
  BY <1>2 DEF SeverStep, Marked, Mailbox
<1>4. Grown(rows, rows') /\ Shrinks BY <1>2, <1>3, Rewritten DEF Shrinks
<1>5. Typed' BY <1>4 DEF SeverStep, IInv, Typed, Grown
<1> QED BY <1>1, <1>4, <1>5, RowsAdvance DEF SeverStep

\* A refused request.
LEMMA Dropped ==
  ASSUME IInv, NEW t \in Task, task[t].plan # <<>>, Drop(t),
         UNCHANGED <<stores, asked, mishaps, raced>>
  PROVE  Calm(t) /\ Shrinks
<1>1. At(t) \in Pair BY Here
<1>2. lock' \in [User -> Task \cup {Nobody}] BY Released DEF Drop, IInv
<1>3. Typed' BY <1>1, <1>2 DEF Drop, stores, IInv, Typed
<1> QED BY <1>3, QuietEnd DEF Drop, stores

LEMMA ClaimCalm ==
  ASSUME IInv, NEW t \in Task, ClaimStep(t)
  PROVE  Calm(t) /\ Shrinks
<1>1. task[t].plan # <<>> /\ Head(task[t].plan).do # "admit" BY DEF ClaimStep, Todo
<1>2. CASE Drop(t) BY <1>1, <1>2, Dropped DEF ClaimStep
<1>3. CASE Advance(t) /\ UNCHANGED <<lock, stray>>
  <2>1. Typed' BY <1>3 DEF ClaimStep, stores, IInv, Typed
  <2> QED BY <1>1, <1>3, <2>1, QuietAdvance DEF ClaimStep, stores
<1> QED BY <1>2, <1>3 DEF ClaimStep

LEMMA LoopCalm ==
  ASSUME IInv, NEW t \in Task, LoopStep(t)
  PROVE  Calm(t) /\ Shrinks
<1>1. task[t].plan # <<>> /\ Head(task[t].plan).do = "loop" BY DEF LoopStep, Todo
<1>2. Typed' BY DEF LoopStep, stores, IInv, Typed
<1>3. CASE Advance(t) BY <1>1, <1>2, <1>3, QuietAdvance DEF LoopStep, stores
<1>4. ASSUME NEW m \in task[t].left,
             Becomes(t, [task[t] EXCEPT !.left = @ \ {m}, !.plan = PurgePlan(m.at) \o @])
      PROVE  Calm(t) /\ Shrinks
  <2> DEFINE q == PurgePlan(m.at) \o task[t].plan
             r == [task[t] EXCEPT !.left = @ \ {m}, !.plan = PurgePlan(m.at) \o @]
  <2>1. task[t] \in Request /\ Fits(task[t], rows) BY <1>1, Here
  <2>2. m.at \in Pair BY <2>1 DEF Request
  <2>3. Fresh(PurgePlan(m.at), OtherParts, Address) BY <2>2, OtherPlans
  <2>4. task[t].op \notin Connecting
    BY <1>1, <2>1, FitsHead DEF ConnectParts, OtherParts
  <2>5. Fresh(task[t].plan, OtherParts, Address)
    BY <2>1, <2>4, OtherOpens DEF Fits, Fresh
  <2>6. Fresh(q, OtherParts, Address) BY <2>3, <2>5, JoinedPlan
  <2>7. q \in Seq(Part) BY <2>6 DEF Fresh, Plan
  <2>8. r = [task[t] EXCEPT !.left = @ \ {m}, !.plan = q] OBVIOUS
  <2> HIDE DEF q
  <2>9. /\ r \in Request /\ r.op = task[t].op /\ r.user = task[t].user
        /\ r.row = task[t].row /\ r.plan = q
    BY <2>1, <2>7, <2>8 DEF Request
  <2>10. Becomes(t, r) BY <1>4
  <2> HIDE DEF r
  <2>11. Fits(r, rows) /\ Opens(r.plan)
    BY <2>1, <2>4, <2>6, <2>9 DEF Fits, Fresh
  <2> QED BY <1>2, <2>10, <2>11, QuietBecomes DEF LoopStep, stores
<1> QED BY <1>3, <1>4 DEF LoopStep

\* What an invariant step concludes.
LEMMA CalmKeeps ==
  ASSUME IInv, NEW t \in Task, Calm(t) /\ Shrinks
  PROVE  IInv'
<1>1. LockInv' /\ CapKept' /\ OneHolder' BY ShrinkKeeps
<1>2. TasksFit' BY CalmFits DEF Calm
<1> QED BY <1>1, <1>2 DEF Calm, IInv

\* Whoever passes the count holds the lock, and the count still holds.
LEMMA AdmitKeeps ==
  ASSUME IInv, NEW t \in Task, AdmitStep(t)
  PROVE  IInv'
<1> DEFINE u == task[t].user
<1>1. task[t].plan # <<>> /\ Head(task[t].plan).do = "admit" BY DEF AdmitStep, Todo
<1>2. "admit" \in ConnectParts \ OtherParts BY DEF ConnectParts, OtherParts
<1>3. u \in User BY <1>1, <1>2, Connects
<1>4. lock[u] = Nobody BY DEF AdmitStep
<1>5. CASE Drop(t)
  <2>1. Calm(t) /\ Shrinks BY <1>1, <1>5, Dropped DEF AdmitStep
  <2> QED BY <2>1, CalmKeeps
<1>6. CASE /\ ~(Cardinality(LiveRows(u)) >= Limit[u])
           /\ TakeLock(t) /\ Advance(t) /\ UNCHANGED stray
  <2>1. rows' = rows BY DEF AdmitStep, stores
  <2>2. lock' = [lock EXCEPT ![u] = t] BY <1>6 DEF TakeLock
  <2>3. Typed' BY <1>3, <1>6, <2>2 DEF AdmitStep, stores, IInv, Typed
  <2>4. Grown(rows, rows') BY <2>1, GrownSame DEF IInv, Typed
  <2>5. Moves(t) BY <1>1, <1>6, <2>4, Advanced DEF IInv, Typed
  <2>6. TasksFit' BY <2>4, <2>5, CalmFits
  <2>7. CapKept' /\ OneHolder'
    BY <2>1 DEF IInv, CapKept, OneHolder, LiveRows
  <2>8. task'[t].plan # <<>> => task'[t].user = u
    <3> DEFINE r == [task[t] EXCEPT !.plan = Tail(@)]
    <3>1. task[t] \in Request /\ Tail(task[t].plan) \in Seq(Part) BY <1>1, Here
    <3>2. r.user = u BY <3>1, WithPlan
    <3>3. task' = [task EXCEPT ![t] = IF r.plan = <<>> THEN Idle ELSE r]
      BY <1>6 DEF Advance, Becomes
    <3> HIDE DEF r
    <3>4. task'[t] = Idle \/ task'[t] = r BY <3>3 DEF IInv, TasksFit
    <3> QED BY <3>2, <3>4 DEF Idle
  <2>9. Cardinality(LiveRows(u)) < Limit[u]
    <3>1. DOMAIN rows = 1 .. Len(rows) /\ Len(rows) \in Nat
      BY LenProperties DEF IInv, Typed
    <3>2. IsFiniteSet(1 .. Len(rows)) BY <3>1, FS_Interval
    <3>3. LiveRows(u) \in SUBSET (1 .. Len(rows)) BY <3>1 DEF LiveRows
    <3>4. Cardinality(LiveRows(u)) \in Nat BY <3>2, <3>3, FS_Subset, FS_CardinalityType
    <3>5. Limit[u] \in Nat BY <1>3, CredentialsAssumption
    <3> QED BY <1>6, <3>4, <3>5
  <2>10. LockInv'
    <3> SUFFICES ASSUME NEW s \in Task, Todo(s, "commit")'
                 PROVE  /\ (lock[task[s].user] = s)'
                        /\ (Cardinality(LiveRows(task[s].user)) < Limit[task[s].user])'
      BY DEF LockInv
    <3>1. CASE s = t
      <4>1. task'[s].user = u BY <2>8, <3>1 DEF Todo
      <4>2. (LiveRows(task[s].user))' = LiveRows(u)
        BY <2>1, <4>1 DEF LiveRows
      <4>3. lock'[u] = t BY <1>3, <2>2 DEF IInv, Typed
      <4> QED BY <2>9, <3>1, <4>1, <4>2, <4>3
    <3>2. CASE s # t
      <4>1. task'[s] = task[s] BY <2>5, <3>2 DEF Moves
      <4>2. Todo(s, "commit") BY <4>1 DEF Todo
      <4>3. /\ lock[task[s].user] = s
            /\ Cardinality(LiveRows(task[s].user)) < Limit[task[s].user]
        BY <4>2 DEF IInv, LockInv
      <4>4. task[s].user # u BY <1>4, <4>3, CredentialsAssumption DEF Nobody
      <4>5. lock'[task[s].user] = s
        <5>1. task[s].plan # <<>> /\ Head(task[s].plan).do = "commit" BY <4>2 DEF Todo
        <5>2. "commit" \in ConnectParts \ OtherParts BY DEF ConnectParts, OtherParts
        <5>3. task[s].user \in User BY <5>1, <5>2, Connects
        <5> QED BY <2>2, <4>3, <4>4, <5>3 DEF IInv, Typed
      <4>6. (LiveRows(task[s].user))' = LiveRows(task[s].user)
        BY <2>1, <4>1 DEF LiveRows
      <4> QED BY <4>1, <4>3, <4>5, <4>6
    <3> QED BY <3>1, <3>2
  <2> QED BY <2>3, <2>6, <2>7, <2>10 DEF IInv
<1> QED BY <1>5, <1>6 DEF AdmitStep

\* A row comes to life under its user's lock, on an address nobody holds.
LEMMA GrowthKeeps ==
  ASSUME IInv, NEW t \in Task, Todo(t, "commit"), Calm(t), NEW i \in DOMAIN rows',
         rows'[i].user = task[t].user, rows'[i].addr = At(t)[1],
         \A j \in DOMAIN rows' \ {i} : rows'[j].live =>
           j \in DOMAIN rows /\ rows[j].live /\ rows[j].addr # At(t)[1]
  PROVE  IInv'
<1>0. PICK u \in User : u = task[t].user
  <2>1. task[t].plan # <<>> /\ Head(task[t].plan).do = "commit" BY DEF Todo
  <2>2. "commit" \in ConnectParts \ OtherParts BY DEF ConnectParts, OtherParts
  <2> QED BY <2>1, <2>2, Connects
<1>1. /\ rows \in Seq(Mailbox) /\ rows' \in Seq(Mailbox)
      /\ Len(rows) \in Nat /\ Len(rows') \in Nat
      /\ DOMAIN rows = 1 .. Len(rows) /\ DOMAIN rows' = 1 .. Len(rows')
  BY LenProperties DEF IInv, Typed, Calm, Grown
<1>2. \A j \in DOMAIN rows' \ {i} : rows'[j].live =>
        /\ j \in DOMAIN rows /\ rows[j].live /\ rows[j].addr # At(t)[1]
        /\ rows'[j].user = rows[j].user /\ rows'[j].addr = rows[j].addr
  BY <1>1 DEF Calm, Grown
<1>3. lock[u] = t /\ Cardinality(LiveRows(u)) < Limit[u] BY <1>0 DEF IInv, LockInv
<1>4. Limit \in [User -> Nat] BY CredentialsAssumption
<1>6. \A v : IsFiniteSet(LiveRows(v)) /\ Cardinality(LiveRows(v)) \in Nat
  <2> TAKE v
  <2>1. LiveRows(v) \in SUBSET (1 .. Len(rows)) BY <1>1 DEF LiveRows
  <2>2. IsFiniteSet(1 .. Len(rows)) BY <1>1, FS_Interval
  <2> QED BY <2>1, <2>2, FS_Subset, FS_CardinalityType
<1>7. \A v \in User \ {u} : Cardinality(LiveRows(v)') <= Cardinality(LiveRows(v))
                            /\ Cardinality(LiveRows(v)') \in Nat
  <2> TAKE v \in User \ {u}
  <2>1. LiveRows(v)' \in SUBSET LiveRows(v) BY <1>0, <1>2 DEF LiveRows
  <2> QED BY <2>1, <1>6, FS_Subset, FS_CardinalityType
<1>8. Cardinality(LiveRows(u)') <= Limit[u]
  <2> DEFINE more == LiveRows(u) \cup {i}
  <2>1. LiveRows(u)' \in SUBSET more BY <1>0, <1>2 DEF LiveRows
  <2>2. IsFiniteSet(more) /\ Cardinality(more) <= Cardinality(LiveRows(u)) + 1
    <3>1. IsFiniteSet(LiveRows(u)) /\ Cardinality(LiveRows(u)) \in Nat BY <1>6
    <3>2. /\ IsFiniteSet(LiveRows(u) \cup {i})
          /\ Cardinality(LiveRows(u) \cup {i}) =
               IF i \in LiveRows(u) THEN Cardinality(LiveRows(u))
               ELSE Cardinality(LiveRows(u)) + 1
      BY <3>1, FS_AddElement
    <3> QED BY <3>1, <3>2
  <2>3. Cardinality(more) \in Nat BY <2>2, FS_CardinalityType
  <2> HIDE DEF more
  <2>4. /\ Cardinality(LiveRows(u)') <= Cardinality(more)
        /\ Cardinality(LiveRows(u)') \in Nat
    BY <2>1, <2>2, FS_Subset, FS_CardinalityType
  <2>5. Limit[u] \in Nat /\ Cardinality(LiveRows(u)) \in Nat BY <1>4, <1>6
  <2> QED BY <1>3, <2>2, <2>3, <2>4, <2>5
<1>9. CapKept'
  <2> SUFFICES ASSUME NEW v \in User PROVE (Cardinality(LiveRows(v)) <= Limit[v])'
    BY DEF CapKept
  <2>1. CASE v = u
    <3>1. LiveRows(v)' = LiveRows(u)' BY <2>1
    <3> QED BY <1>8, <2>1, <3>1
  <2>2. CASE v # u
    <3>1. Cardinality(LiveRows(v)) <= Limit[v] BY DEF IInv, CapKept
    <3> QED BY <1>4, <1>6, <1>7, <2>2, <3>1
  <2> QED BY <2>1, <2>2
<1>10. OneHolder'
  <2> SUFFICES ASSUME NEW j \in DOMAIN rows', NEW k \in DOMAIN rows',
                      rows'[j].live, rows'[k].live, rows'[j].addr = rows'[k].addr
               PROVE  j = k
    BY DEF OneHolder
  <2> QED BY <1>2 DEF IInv, OneHolder
<1>11. LockInv'
  <2> SUFFICES ASSUME NEW s \in Task, Todo(s, "commit")'
               PROVE  /\ (lock[task[s].user] = s)'
                      /\ (Cardinality(LiveRows(task[s].user)) < Limit[task[s].user])'
    BY DEF LockInv
  <2>1. s # t
    <3> SUFFICES ASSUME s = t PROVE FALSE OBVIOUS
    <3>1. task'[t].plan # <<>> /\ Head(task'[t].plan).do = "commit" BY DEF Todo
    <3>2. Head(task'[t].plan) = task'[t].plan[1]
      BY <3>1, FitsHead DEF Calm, Moves
    <3> QED BY <3>1, <3>2 DEF Calm, Opens
  <2>2. task'[s] = task[s] BY <2>1 DEF Calm, Moves
  <2>3. Todo(s, "commit") BY <2>2 DEF Todo
  <2>4. lock[task[s].user] = s /\ Cardinality(LiveRows(task[s].user)) < Limit[task[s].user]
    BY <2>3 DEF IInv, LockInv
  <2>5. task[s].user \in User
    <3>1. task[s].plan # <<>> /\ Head(task[s].plan).do = "commit" BY <2>3 DEF Todo
    <3>2. "commit" \in ConnectParts \ OtherParts BY DEF ConnectParts, OtherParts
    <3> QED BY <3>1, <3>2, Connects
  <2>6. task[s].user # u BY <1>3, <2>1, <2>4
  <2>7. lock'[task[s].user] = s BY <2>1, <2>4, <2>5 DEF Calm
  <2>8. PICK v \in User \ {u} : v = task[s].user BY <2>5, <2>6
  <2>9. Cardinality(LiveRows(v)') < Limit[v]
    BY <1>4, <1>6, <1>7, <2>4, <2>8
  <2>10. (LiveRows(task[s].user))' = LiveRows(v)' BY <2>2, <2>8 DEF LiveRows
  <2> QED BY <2>2, <2>7, <2>8, <2>9, <2>10
<1>12. TasksFit' BY CalmFits DEF Calm
<1> QED BY <1>9, <1>10, <1>11, <1>12 DEF Calm, IInv

\* A commit writes a row of its user's on its address, or gives way.
LEMMA CommitKeeps ==
  ASSUME IInv, NEW t \in Task, CommitStep(t)
  PROVE  IInv'
<1> DEFINE x == At(t)
           r == task[t].row
           new == [user |-> task[t].user, addr |-> x[1], prov |-> x[2], live |-> TRUE]
           q == EraseOthers(x) \o Tail(task[t].plan)
           next == [task[t] EXCEPT !.plan = EraseOthers(x) \o Tail(@)]
<1>1. /\ task[t].plan # <<>> /\ Head(task[t].plan).do = "commit" /\ Todo(t, "commit")
  BY DEF CommitStep, Todo
<1>2. "commit" \in ConnectParts \ OtherParts BY DEF ConnectParts, OtherParts
<1>3. /\ task[t].op \in Connecting /\ task[t].user \in User
      /\ x \in Pair /\ x[1] \in Address
      /\ Plan(task[t].plan, ConnectParts, {x[1]}) /\ Aimed(task[t], rows, x[1])
  BY <1>1, <1>2, Connects
<1>4. x[2] \in Providers BY <1>3 DEF Pair
<1>5. /\ task[t] \in Request /\ Fits(task[t], rows)
      /\ Tail(task[t].plan) \in Seq(Part) /\ Opens(Tail(task[t].plan))
  BY <1>1, Here
<1>6. /\ rows \in Seq(Mailbox) /\ rows \in [DOMAIN rows -> Mailbox]
      /\ DOMAIN rows = 1 .. Len(rows) /\ Len(rows) \in Nat
  BY LenProperties DEF IInv, Typed
<1>7. new \in Mailbox BY <1>3, <1>4 DEF Mailbox
<1>8. ASSUME Release(t), Becomes(t, next),
             stray' = stray \cup {y \in {x} : Removing(t, y[1])},
             Grown(rows, rows')
      PROVE  Calm(t)
  <2>1. lock' \in [User -> Task \cup {Nobody}] BY <1>8, Released DEF IInv
  <2>2. Typed' BY <1>3, <1>8, <2>1 DEF CommitStep, IInv, Typed, Grown
  <2>3. Fresh(Tail(task[t].plan), ConnectParts, {x[1]})
    BY <1>1, <1>3, <1>5, TailPlan DEF Fresh
  <2>4. Fresh(q, ConnectParts, {x[1]}) BY <1>3, <2>3, EraseOthersPlan, JoinedPlan
  <2>5. q \in Seq(Part) BY <2>4 DEF Fresh, Plan
  <2>6. next = [task[t] EXCEPT !.plan = q] OBVIOUS
  <2> HIDE DEF next, q
  <2>7. /\ next \in Request /\ next.op = task[t].op /\ next.user = task[t].user
        /\ next.row = task[t].row /\ next.plan = q
    BY <1>5, <2>5, <2>6, WithPlan
  <2>8. Aimed(next, rows, x[1]) BY <1>3, <2>7 DEF Aimed
  <2>9. Fits(next, rows) /\ Opens(next.plan)
    BY <1>3, <1>5, <2>4, <2>7, <2>8 DEF Fits, Fresh
  <2>10. Moves(t) /\ Opens(task'[t].plan)
    BY <1>8, <2>9, Became DEF IInv, Typed
  <2>11. \A u \in User : lock[u] \in Task \ {t} => lock'[u] = lock[u]
    BY <1>8, Released DEF IInv
  <2> QED BY <1>8, <2>2, <2>10, <2>11 DEF Calm
<1>9. CASE ~Taken(t) /\ r = NoRow /\ rows' = Append(rows, new) /\ Release(t)
           /\ Becomes(t, next) /\ stray' = stray \cup {y \in {x} : Removing(t, y[1])}
  <2>1. /\ rows' \in Seq(Mailbox) /\ Len(rows') = Len(rows) + 1
        /\ \A j \in 1 .. Len(rows) : rows'[j] = rows[j]
        /\ rows'[Len(rows) + 1] = new
    BY <1>6, <1>7, <1>9, AppendProperties
  <2>2. Grown(rows, rows') BY <1>6, <2>1 DEF Grown
  <2>3. Calm(t) BY <1>8, <1>9, <2>2
  <2> DEFINE i == Len(rows) + 1
  <2>4. DOMAIN rows' = 1 .. i /\ i \in DOMAIN rows' BY <1>6, <2>1, LenProperties
  <2>5. rows'[i].user = task[t].user /\ rows'[i].addr = x[1] BY <2>1
  <2>6. \A j \in DOMAIN rows : rows[j].live => rows[j].addr # x[1]
    <3>1. \A j \in DOMAIN rows : j # NoRow BY <1>6 DEF NoRow
    <3> QED BY <1>9, <3>1 DEF Taken, LiveOn
  <2>7. \A j \in DOMAIN rows' \ {i} : j \in DOMAIN rows /\ rows'[j] = rows[j]
    BY <1>6, <2>1, <2>4
  <2> HIDE DEF i
  <2> QED BY <1>1, <2>3, <2>4, <2>5, <2>6, <2>7, GrowthKeeps
<1>10. CASE ~Taken(t) /\ r # NoRow /\ Release(t) /\ Becomes(t, next)
            /\ rows' = [rows EXCEPT ![r].live = TRUE,
                          ![r].prov = IF x[2] = task[t].seen THEN @ ELSE x[2]]
            /\ stray' = stray \cup {y \in {x} : Removing(t, y[1])}
  <2>1. r \in DOMAIN rows
    BY <1>5, <1>6, <1>10 DEF Fits, Request, NoRow
  <2>2. rows[r].user = task[t].user /\ rows[r].addr = x[1]
    BY <1>3, <1>10 DEF Aimed
  <2>3. /\ rows' \in [DOMAIN rows -> Mailbox]
        /\ \A i \in DOMAIN rows :
             /\ rows'[i].user = rows[i].user /\ rows'[i].addr = rows[i].addr
             /\ i # r => rows'[i] = rows[i]
    <3>1. rows' = [rows EXCEPT ![r].live = TRUE,
                     ![r].prov = IF x[2] = task[t].seen THEN @ ELSE x[2]]
      BY <1>10
    <3>2. rows \in [DOMAIN rows -> Mailbox] BY <1>6
    <3> DEFINE v == IF x[2] = task[t].seen THEN rows[r].prov ELSE x[2]
    <3>3. v \in Providers BY <1>4, <2>1, <3>2 DEF Mailbox
    <3>4. rows' = [rows EXCEPT ![r].live = TRUE, ![r].prov = v] BY <3>1
    <3> HIDE DEF v
    <3> QED BY <2>1, <3>2, <3>3, <3>4 DEF Mailbox
  <2>4. Grown(rows, rows') BY <1>6, <2>3, Rewritten
  <2>5. Calm(t) BY <1>8, <1>10, <2>4
  <2>6. DOMAIN rows' = DOMAIN rows BY <2>3
  <2>7. \A j \in DOMAIN rows \ {r} : rows[j].live => rows[j].addr # x[1]
    BY <1>10 DEF Taken, LiveOn
  <2>8. r \in DOMAIN rows' /\ rows'[r].user = task[t].user /\ rows'[r].addr = x[1]
    BY <2>1, <2>2, <2>3, <2>6
  <2>9. \A j \in DOMAIN rows' \ {r} : rows'[j].live =>
          j \in DOMAIN rows /\ rows[j].live /\ rows[j].addr # x[1]
    BY <2>3, <2>6, <2>7
  <2> HIDE DEF r, x
  <2>10. rows'[r].addr = At(t)[1] /\ \A j \in DOMAIN rows' \ {r} : rows'[j].live =>
          j \in DOMAIN rows /\ rows[j].live /\ rows[j].addr # At(t)[1]
    BY <2>8, <2>9 DEF x
  <2> QED BY <1>1, <2>5, <2>8, <2>10, GrowthKeeps
<1>11. CASE Drop(t) /\ rows' = rows
  <2>1. Calm(t) /\ Shrinks
    BY <1>1, <1>11, Dropped DEF CommitStep, stores
  <2> QED BY <2>1, CalmKeeps
<1>12. CASE Release(t) /\ Advance(t) /\ rows' = rows
            /\ stray' = stray \cup {y \in {x} : ~Holds(y)}
  <2>1. lock' \in [User -> Task \cup {Nobody}] BY <1>12, Released DEF IInv
  <2>2. Typed' BY <1>3, <1>12, <2>1 DEF CommitStep, IInv, Typed
  <2>3. Grown(rows, rows') BY <1>12, GrownSame DEF IInv, Typed
  <2>4. Moves(t) /\ Opens(task'[t].plan)
    BY <1>1, <1>12, <2>3, Advanced DEF IInv, Typed
  <2>5. \A u \in User : lock[u] \in Task \ {t} => lock'[u] = lock[u]
    BY <1>12, Released DEF IInv
  <2>6. Calm(t) /\ Shrinks BY <1>12, <2>2, <2>3, <2>4, <2>5 DEF Calm, Shrinks
  <2> QED BY <2>6, CalmKeeps
<1> QED BY <1>9, <1>10, <1>11, <1>12 DEF CommitStep

\* A request that begins fits.
LEMMA BeginKeeps ==
  ASSUME IInv, NEW t \in Task, NEW op \in Operation, NEW u \in User,
         NEW r \in DOMAIN rows \cup {NoRow}, NEW plan, Begin(t, op, u, r, plan),
         op \in Connecting =>
           r = NoRow /\ \E a \in Address : Fresh(plan, ConnectParts, {a}),
         op \notin Connecting => Fresh(plan, OtherParts, Address)
  PROVE  IInv'
<1> DEFINE rec == [op |-> op, user |-> u, row |-> r, seen |-> "google", val |-> asked',
                   got |-> asked', plan |-> plan,
                   left |-> IF op = "deleteAccount" THEN Mailboxes(u) ELSE {},
                   purged |-> IF op = "deleteAccount" THEN LiveRows(u) ELSE {}]
<1>1. /\ rows \in Seq(Mailbox) /\ rows \in [DOMAIN rows -> Mailbox]
      /\ DOMAIN rows = 1 .. Len(rows) /\ Len(rows) \in Nat
  BY LenProperties DEF IInv, Typed
<1>2. asked' \in Values /\ asked' \in 0 .. MaxRequests
  BY CredentialsAssumption DEF Begin, IInv, Typed, Values, Grant, NoGrant
<1>3. plan \in Seq(Part) /\ Opens(plan) BY DEF Fresh, Plan
<1>4. LiveRows(u) \in SUBSET Nat BY <1>1 DEF LiveRows
<1>5. Mailboxes(u) \in SUBSET [id : Nat, at : Pair]
  <2> SUFFICES ASSUME NEW i \in LiveRows(u)
               PROVE  [id |-> i, at |-> <<rows[i].addr, rows[i].prov>>] \in [id : Nat, at : Pair]
    BY DEF Mailboxes
  <2>1. i \in DOMAIN rows /\ i \in Nat BY <1>1 DEF LiveRows
  <2>2. rows[i] \in Mailbox BY <1>1, <2>1
  <2>3. <<rows[i].addr, rows[i].prov>> \in Pair BY <2>2 DEF Mailbox, Pair
  <2> QED BY <2>1, <2>3
<1>6. r \in Nat /\ r <= Len(rows) BY <1>1 DEF NoRow
<1>7. task' = [task EXCEPT ![t] = rec] BY DEF Begin
<1>8. /\ rec.op = op /\ rec.user = u /\ rec.row = r /\ rec.plan = plan
      /\ rec \in Request
  <2>1. "google" \in Providers BY DEF Providers
  <2> QED BY <1>2, <1>3, <1>4, <1>5, <1>6, <2>1 DEF Request
<1> HIDE DEF rec
<1>9. Fits(rec, rows)
  <2>1. \A a : r = NoRow => Aimed(rec, rows, a) BY <1>8 DEF Aimed
  <2> QED BY <1>6, <1>8, <2>1 DEF Fits, Fresh
<1>10. Typed' BY <1>2 DEF Begin, stores, IInv, Typed
<1>11. rows' = rows /\ lock' = lock BY DEF Begin, stores
<1>12. Grown(rows, rows') BY <1>1, <1>11, GrownSame
<1>13. Moves(t) /\ Opens(task'[t].plan)
  <2>1. task'[t] = rec BY <1>7 DEF IInv, TasksFit
  <2>2. Fits(rec, rows') BY <1>9, <1>11
  <2> QED BY <1>3, <1>7, <1>8, <2>1, <2>2 DEF Moves, IInv, TasksFit
<1>14. Calm(t) /\ Shrinks BY <1>10, <1>11, <1>12, <1>13 DEF Calm, Shrinks
<1> QED BY <1>14, CalmKeeps

LEMMA RequestKeeps ==
  ASSUME IInv, NEW t \in Task, Requests(t)
  PROVE  IInv'
<1>1. PICK u \in User :
        \/ GoogleSignIn(t, u) \/ DeleteAccount(t, u) \/ WebCallback(t, u)
        \/ \E p \in Imap : ImapSignIn(t, u, p)
        \/ \E a \in Address : AddGoogle(t, u, a)
        \/ \E a \in Address, p \in Imap : AddImap(t, u, a, p)
        \/ \E i \in DOMAIN rows : Disconnect(t, u, i)
        \/ \E i \in DOMAIN rows, expired \in BOOLEAN : Sync(t, u, i, expired)
  BY DEF Requests
<1>2. Home[u] \in Address BY CredentialsAssumption
<1>3. \A a \in Address, p \in Providers : <<a, p>> \in Pair /\ <<a, p>>[1] = a BY DEF Pair
<1>4. "google" \in Providers /\ Imap \subseteq Providers BY DEF Providers
<1>5. /\ {"googleSignIn", "imapSignIn", "addGoogle", "addImap"} \subseteq Connecting
      /\ {"disconnect", "deleteAccount", "sync", "webCallback"} \cap Connecting = {}
  BY DEF Connecting
<1>6. /\ rows \in [DOMAIN rows -> Mailbox] BY LenProperties DEF IInv, Typed
<1>7. \A i \in DOMAIN rows : <<rows[i].addr, rows[i].prov>> \in Pair
  <2> TAKE i \in DOMAIN rows
  <2>1. rows[i] \in Mailbox BY <1>6
  <2> QED BY <2>1 DEF Mailbox, Pair
<1>8. <<Home[u], "google">> \in Pair /\ <<Home[u], "google">>[1] \in Address
  BY <1>2, <1>3, <1>4
<1>9. CASE GoogleSignIn(t, u)
  <2>1. Fresh(SignInPlan(<<Home[u], "google">>), ConnectParts, {<<Home[u], "google">>[1]})
    BY <1>8, ConnectPlans
  <2> QED BY <1>5, <1>8, <1>9, <2>1, BeginKeeps DEF GoogleSignIn, Operation
<1>10. CASE DeleteAccount(t, u)
  <2>1. Fresh(DeletePlan(u), OtherParts, Address) BY DeletePlans
  <2> QED BY <1>5, <1>10, <2>1, BeginKeeps DEF DeleteAccount, Operation
<1>11. CASE WebCallback(t, u)
  <2>1. Fresh(Store(<<Home[u], "google">>), OtherParts, Address) BY <1>8, OtherPlans
  <2> QED BY <1>5, <1>11, <2>1, BeginKeeps DEF WebCallback, Operation
<1>12. ASSUME NEW p \in Imap, ImapSignIn(t, u, p) PROVE IInv'
  <2> DEFINE x == <<Home[u], p>>
  <2>1. x \in Pair /\ x[1] \in Address BY <1>2, <1>3, <1>4
  <2>2. Begin(t, "imapSignIn", u, NoRow, Store(x) \o Do("account", x) \o Ensure(x))
    BY <1>12 DEF ImapSignIn
  <2> HIDE DEF x
  <2>3. Fresh(Store(x) \o Do("account", x) \o Ensure(x), ConnectParts, {x[1]})
    BY <2>1, ConnectPlans
  <2> QED BY <1>5, <2>1, <2>2, <2>3, BeginKeeps DEF Operation
<1>13. ASSUME NEW a \in Address, AddGoogle(t, u, a) PROVE IInv'
  <2> DEFINE x == <<a, "google">>
  <2>1. x \in Pair /\ x[1] \in Address BY <1>3, <1>4
  <2>2. Begin(t, "addGoogle", u, NoRow, Ensure(x) \o Store(x))
    BY <1>13 DEF AddGoogle
  <2> HIDE DEF x
  <2>3. Fresh(Ensure(x) \o Store(x), ConnectParts, {x[1]}) BY <2>1, ConnectPlans
  <2> QED BY <1>5, <2>1, <2>2, <2>3, BeginKeeps DEF Operation
<1>14. ASSUME NEW a \in Address, NEW p \in Imap, AddImap(t, u, a, p) PROVE IInv'
  <2> DEFINE x == <<a, p>>
  <2>1. x \in Pair /\ x[1] \in Address BY <1>3, <1>4
  <2>2. Begin(t, "addImap", u, NoRow, Store(x) \o Ensure(x))
    BY <1>14 DEF AddImap
  <2> HIDE DEF x
  <2>3. Fresh(Store(x) \o Ensure(x), ConnectParts, {x[1]}) BY <2>1, ConnectPlans
  <2> QED BY <1>5, <2>1, <2>2, <2>3, BeginKeeps DEF Operation
<1>15. ASSUME NEW i \in DOMAIN rows, Disconnect(t, u, i) PROVE IInv'
  <2> DEFINE x == <<rows[i].addr, rows[i].prov>>
  <2>1. x \in Pair BY <1>7
  <2>2. Begin(t, "disconnect", u, i, DisconnectPlan(x)) BY <1>15 DEF Disconnect
  <2> HIDE DEF x
  <2>3. Fresh(DisconnectPlan(x), OtherParts, Address) BY <2>1, OtherPlans
  <2> QED BY <1>5, <2>2, <2>3, BeginKeeps DEF Operation
<1>16. ASSUME NEW i \in DOMAIN rows, NEW expired \in BOOLEAN, Sync(t, u, i, expired)
       PROVE  IInv'
  <2> DEFINE x == <<rows[i].addr, rows[i].prov>>
             p == Do("read", x) \o Do("fill", x) \o IF expired THEN Store(x) ELSE <<>>
  <2>1. x \in Pair BY <1>7
  <2>2. Begin(t, "sync", u, i, p) BY <1>16 DEF Sync
  <2> HIDE DEF x
  <2>3. /\ Fresh(Do("read", x) \o Do("fill", x) \o Store(x), OtherParts, Address)
        /\ Fresh(Do("read", x) \o Do("fill", x) \o <<>>, OtherParts, Address)
    BY <2>1, OtherPlans
  <2>4. Fresh(p, OtherParts, Address) BY <2>3
  <2> HIDE DEF p
  <2> QED BY <1>5, <2>2, <2>4, BeginKeeps DEF Operation
<1> QED BY <1>1, <1>9, <1>10, <1>11, <1>12, <1>13, <1>14, <1>15, <1>16

LEMMA CrashKeeps ==
  ASSUME IInv, Crash
  PROVE  IInv'
<1>1. /\ task' = [t \in Task |-> Idle] /\ rows' = rows
      /\ stray' = stray \cup (stray' \ stray) /\ stray' \ stray \subseteq Pair
  BY DEF Crash
<1>2. lock' \in [User -> Task \cup {Nobody}] BY DEF Crash
<1>3. cache' \in [Pair -> Values] BY DEF Crash, Values
<1>4. Typed' BY <1>1, <1>2, <1>3 DEF Crash, IInv, Typed
<1>5. Fits(Idle, rows) /\ Idle \in Request BY IdleFits DEF IInv, Typed, Fits
<1>6. TasksFit' BY <1>1, <1>5 DEF TasksFit
<1>7. Idle.plan = <<>> BY DEF Idle
<1>8. LockInv' BY <1>1, <1>7 DEF LockInv, Todo
<1>9. CapKept' /\ OneHolder' BY <1>1 DEF IInv, CapKept, OneHolder, LiveRows
<1> QED BY <1>4, <1>6, <1>8, <1>9 DEF IInv

-----------------------------------------------------------------------------
\* The inductive invariant.

LEMMA InitInv ==
  ASSUME Init
  PROVE  IInv
<1>1. rows = <<>> /\ rows \in Seq(Mailbox) /\ Len(rows) = 0 /\ DOMAIN rows = {}
  <2>1. rows = <<>> BY DEF Init
  <2>2. rows \in Seq(Mailbox) /\ Len(rows) = 0 BY <2>1, EmptySeq
  <2> QED BY <2>1, <2>2, LenProperties
<1>2. Typed
  BY <1>1, CredentialsAssumption DEF Init, Typed, Values
<1>3. Fits(Idle, rows) /\ Idle \in Request BY <1>1, IdleFits DEF Fits
<1>4. task = [t \in Task |-> Idle] BY DEF Init
<1>5. TasksFit BY <1>3, <1>4 DEF TasksFit
<1>6. LockInv BY <1>4 DEF LockInv, Todo, Idle
<1>7. OneHolder BY <1>1 DEF OneHolder
<1>8. CapKept
  <2>1. \A u : LiveRows(u) = {} BY <1>1 DEF LiveRows
  <2> QED BY <2>1, FS_EmptySet, CredentialsAssumption DEF CapKept
<1> QED BY <1>2, <1>5, <1>6, <1>7, <1>8 DEF IInv

LEMMA StepKeeps ==
  ASSUME IInv, NEW t \in Task, Step(t)
  PROVE  IInv'
<1>1. CASE AccountStep(t) BY <1>1, AccountCalm, CalmKeeps
<1>2. CASE PutStep(t) BY <1>2, PutCalm, CalmKeeps
<1>3. CASE FillStep(t) BY <1>3, FillCalm, CalmKeeps
<1>4. CASE ReadStep(t) BY <1>4, ReadCalm, CalmKeeps
<1>5. CASE DropStep(t) BY <1>5, DropCalm, CalmKeeps
<1>6. CASE EraseStep(t) BY <1>6, EraseCalm, CalmKeeps
<1>7. CASE FindStep(t) BY <1>7, FindCalm, CalmKeeps
<1>8. CASE SwitchStep(t) BY <1>8, SwitchCalm, CalmKeeps
<1>9. CASE ClaimStep(t) BY <1>9, ClaimCalm, CalmKeeps
<1>10. CASE AdmitStep(t) BY <1>10, AdmitKeeps
<1>11. CASE CommitStep(t) BY <1>11, CommitKeeps
<1>12. CASE TombstoneStep(t) BY <1>12, TombstoneCalm, CalmKeeps
<1>13. CASE LoopStep(t) BY <1>13, LoopCalm, CalmKeeps
<1>14. CASE SeverStep(t) BY <1>14, SeverCalm, CalmKeeps
<1> QED BY <1>1, <1>2, <1>3, <1>4, <1>5, <1>6, <1>7, <1>8, <1>9, <1>10, <1>11, <1>12,
           <1>13, <1>14 DEF Step

LEMMA NextKeeps ==
  ASSUME IInv, [Next]_vars
  PROVE  IInv'
<1>1. ASSUME NEW t \in Task, Requests(t) PROVE IInv' BY <1>1, RequestKeeps
<1>2. ASSUME NEW t \in Task, Step(t) PROVE IInv' BY <1>2, StepKeeps
<1>3. ASSUME NEW t \in Task, PutFails(t) PROVE IInv' BY <1>3, PutFailsCalm, CalmKeeps
<1>4. ASSUME NEW t \in Task, ReadFails(t) PROVE IInv' BY <1>4, ReadFailsCalm, CalmKeeps
<1>5. CASE Crash BY <1>5, CrashKeeps
<1>6. CASE UNCHANGED vars
  <2>1. /\ rows' = rows /\ account' = account /\ secret' = secret /\ cache' = cache
        /\ lock' = lock /\ task' = task /\ asked' = asked
        /\ raced' = raced /\ stray' = stray
    BY <1>6 DEF vars, stores
  <2>2. Typed' BY <2>1 DEF IInv, Typed
  <2>3. TasksFit' BY <2>1 DEF IInv, TasksFit
  <2>4. LockInv' BY <2>1 DEF IInv, LockInv, Todo, LiveRows
  <2>5. CapKept' /\ OneHolder' BY <2>1 DEF IInv, CapKept, OneHolder, LiveRows
  <2> QED BY <2>2, <2>3, <2>4, <2>5 DEF IInv
<1> QED BY <1>1, <1>2, <1>3, <1>4, <1>5, <1>6 DEF Next

\* Every state satisfies the invariant.
THEOREM Invariance == Spec => []IInv
<1>1. Init => IInv BY InitInv
<1>2. IInv /\ [Next]_vars => IInv' BY NextKeeps
<1> QED BY <1>1, <1>2, PTL DEF Spec

\* The types of the state, for any users, addresses and providers: a request's
\* row always exists (TypeOK).
THEOREM TypeCorrect == Spec => []TypeOK
<1>1. IInv => TypeOK
  <2> SUFFICES ASSUME IInv PROVE TypeOK OBVIOUS
  <2>1. DOMAIN rows = 1 .. Len(rows) /\ Len(rows) \in Nat
    BY LenProperties DEF IInv, Typed
  <2>2. \A t \in Task : /\ task[t].row \in DOMAIN rows \cup {NoRow}
                        /\ task[t].op \in Operation \cup {"none"}
    <3> TAKE t \in Task
    <3>1. /\ task[t].row \in Nat /\ task[t].row <= Len(rows)
          /\ task[t].op \in Operation \cup {"none"}
      BY DEF IInv, TasksFit, Fits, Request
    <3> QED BY <2>1, <3>1 DEF NoRow
  <2> QED BY <2>2 DEF IInv, Typed, TypeOK, Mailbox, Values
<1> QED BY <1>1, Invariance, PTL

\* The cap of ensure_connection, for any limits and any number of requests at
\* once (CapKept): who is about to commit holds the lock on the user.
THEOREM CapHeld == Spec => []CapKept
<1>1. IInv => CapKept BY DEF IInv
<1> QED BY <1>1, Invariance, PTL

\* One account holds an address at a time (OneHolder), although the check for
\* another holder is made before the write that the unique index guards.
THEOREM HolderUnique == Spec => []OneHolder
<1>1. IInv => OneHolder BY DEF IInv
<1> QED BY <1>1, Invariance, PTL

=============================================================================
