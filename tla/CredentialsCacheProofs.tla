------------------------ MODULE CredentialsCacheProofs ------------------------
(***************************************************************************)
(* What the cache of the secret store answers, for any users, addresses,   *)
(* providers and number of requests in flight: CacheTellsTruth.  It rests  *)
(* on CredentialsProofs and on one more fact about plans: a call of the    *)
(* store is two steps of its plan that nothing comes between.              *)
(***************************************************************************)
EXTENDS CredentialsProofs

Fetching == {"put", "read", "inspect", "backstop"}
PurgeEnd == 1 + 2 * Cardinality(Providers)

\* A fetch is followed by its fill, an erase is preceded by its drop, and the
\* purge of a mailbox ends with an erase.
Tied(p) == \A k \in 1 .. Len(p) :
  /\ p[k].do \in Fetching =>
       k + 1 <= Len(p) /\ p[k + 1].do = "fill" /\ p[k + 1].at = p[k].at
  /\ p[k].do = "inspect" => k + PurgeEnd <= Len(p) /\ p[k + PurgeEnd].do = "erase"
  /\ p[k].do = "erase" /\ k > 1 => p[k - 1].do = "drop" /\ p[k - 1].at = p[k].at

Clean(p) == p # <<>> => p[1].do # "erase"

Whole(p) == p \in Seq(Part) /\ Tied(p) /\ Clean(p)

TiedInv == \A t \in Task : Tied(task[t].plan)

\* While an erase is due, its cached value is gone or known to be overtaken.
EraseKnown == \A t \in Task : Todo(t, "erase") =>
  cache[At(t)] = NoGrant \/ At(t) \in raced

TruthInv == TiedInv /\ EraseKnown /\ CacheTellsTruth

-----------------------------------------------------------------------------
\* Plans.

LEMMA PurgeEndNat == PurgeEnd \in Nat /\ PurgeEnd >= 3
<1>1. IsFiniteSet(Providers)
  BY CredentialsAssumption, FS_Singleton, FS_Union DEF Providers
<1>2. Providers # {} BY DEF Providers
<1>3. Cardinality(Providers) \in Nat /\ Cardinality(Providers) # 0
  BY <1>1, <1>2, FS_CardinalityType, FS_EmptySet
<1> QED BY <1>3 DEF PurgeEnd

LEMMA SingleWhole ==
  ASSUME NEW s \in Parts, s \notin Fetching, s # "erase", NEW x \in Pair
  PROVE  Whole(Do(s, x))
<1>1. /\ Do(s, x) \in Seq(Part) /\ Len(Do(s, x)) = 1
      /\ Do(s, x)[1].do = s /\ Do(s, x)[1].at = x
  BY OneStep
<1>2. "inspect" \in Fetching BY DEF Fetching
<1> QED BY <1>1, <1>2 DEF Whole, Tied, Clean

\* A call of the store: two steps on one pair.
LEMMA CallWhole ==
  ASSUME NEW x \in Pair, NEW s \in Parts, NEW s2 \in Parts, s # "inspect", s # "erase",
         s \in Fetching => s2 = "fill", s2 \notin Fetching,
         s2 = "erase" => s = "drop"
  PROVE  Whole(Do(s, x) \o Do(s2, x))
<1> DEFINE p == Do(s, x)
           q == p \o Do(s2, x)
<1>1. p \in Seq(Part) /\ Len(p) = 1 /\ p[1].do = s /\ p[1].at = x BY OneStep
<1> HIDE DEF p
<1>2. /\ q \in Seq(Part) /\ Len(q) = Len(p) + 1
      /\ \A i \in 1 .. Len(p) : q[i] = p[i]
      /\ q[Len(p) + 1].do = s2 /\ q[Len(p) + 1].at = x
  BY <1>1, ThenStep
<1>3. Len(q) = 2 /\ q[1].do = s /\ q[1].at = x /\ q[2].do = s2 /\ q[2].at = x
  BY <1>1, <1>2
<1> HIDE DEF q
<1>4. "inspect" \in Fetching BY DEF Fetching
<1>5. Tied(q)
  <2> SUFFICES ASSUME NEW k \in 1 .. Len(q)
               PROVE  /\ q[k].do \in Fetching =>
                           k + 1 <= Len(q) /\ q[k + 1].do = "fill" /\ q[k + 1].at = q[k].at
                      /\ q[k].do = "inspect" =>
                           k + PurgeEnd <= Len(q) /\ q[k + PurgeEnd].do = "erase"
                      /\ q[k].do = "erase" /\ k > 1 =>
                           q[k - 1].do = "drop" /\ q[k - 1].at = q[k].at
    BY DEF Tied
  <2>1. CASE k = 1 BY <1>3, <2>1
  <2>2. CASE k = 2 BY <1>3, <1>4, <2>2
  <2> QED BY <1>3, <2>1, <2>2
<1>6. Clean(q) BY <1>3 DEF Clean
<1>7. q = Do(s, x) \o Do(s2, x) BY DEF q, p
<1> QED BY <1>2, <1>5, <1>6, <1>7 DEF Whole

LEMMA JoinedWhole ==
  ASSUME NEW p, NEW q, Whole(p), Whole(q)
  PROVE  Whole(p \o q)
<1>1. p \in Seq(Part) /\ q \in Seq(Part) BY DEF Whole
<1>2. /\ p \o q \in Seq(Part)
      /\ Len(p \o q) = Len(p) + Len(q)
      /\ \A i \in 1 .. Len(p) + Len(q) :
           (p \o q)[i] = IF i <= Len(p) THEN p[i] ELSE q[i - Len(p)]
  BY <1>1, ConcatProperties
<1>3. Len(p) \in Nat /\ Len(q) \in Nat BY <1>1, LenProperties
<1> DEFINE j == p \o q
<1>4. Tied(j)
  <2> SUFFICES ASSUME NEW k \in 1 .. Len(j)
               PROVE  /\ j[k].do \in Fetching =>
                           k + 1 <= Len(j) /\ j[k + 1].do = "fill" /\ j[k + 1].at = j[k].at
                      /\ j[k].do = "inspect" =>
                           k + PurgeEnd <= Len(j) /\ j[k + PurgeEnd].do = "erase"
                      /\ j[k].do = "erase" /\ k > 1 =>
                           j[k - 1].do = "drop" /\ j[k - 1].at = j[k].at
    BY DEF Tied
  <2> HIDE DEF j
  <2>0. /\ Len(j) = Len(p) + Len(q)
        /\ \A i \in 1 .. Len(p) + Len(q) :
             j[i] = IF i <= Len(p) THEN p[i] ELSE q[i - Len(p)]
    BY <1>2 DEF j
  <2>1. CASE k <= Len(p)
    <3>1. k \in 1 .. Len(p) /\ j[k] = p[k] BY <2>0, <2>1, <1>3
    <3>2. /\ p[k].do \in Fetching =>
               k + 1 <= Len(p) /\ p[k + 1].do = "fill" /\ p[k + 1].at = p[k].at
          /\ p[k].do = "inspect" => k + PurgeEnd <= Len(p) /\ p[k + PurgeEnd].do = "erase"
          /\ p[k].do = "erase" /\ k > 1 => p[k - 1].do = "drop" /\ p[k - 1].at = p[k].at
      BY <3>1 DEF Whole, Tied
    <3>3. k + 1 <= Len(p) => j[k + 1] = p[k + 1] BY <2>0, <1>3
    <3>4. k + PurgeEnd <= Len(p) => j[k + PurgeEnd] = p[k + PurgeEnd]
      BY <2>0, <1>3, PurgeEndNat
    <3>5. k > 1 => j[k - 1] = p[k - 1] BY <2>0, <2>1, <1>3
    <3> QED BY <3>1, <3>2, <3>3, <3>4, <3>5, <2>0, <1>3, PurgeEndNat
  <2>2. CASE k > Len(p)
    <3> DEFINE i == k - Len(p)
    <3>1. i \in 1 .. Len(q) /\ j[k] = q[i] BY <2>0, <2>2, <1>3
    <3>2. /\ q[i].do \in Fetching =>
               i + 1 <= Len(q) /\ q[i + 1].do = "fill" /\ q[i + 1].at = q[i].at
          /\ q[i].do = "inspect" => i + PurgeEnd <= Len(q) /\ q[i + PurgeEnd].do = "erase"
          /\ q[i].do = "erase" /\ i > 1 => q[i - 1].do = "drop" /\ q[i - 1].at = q[i].at
      BY <3>1 DEF Whole, Tied
    <3>3. i + 1 <= Len(q) => k + 1 <= Len(j) /\ j[k + 1] = q[i + 1]
      BY <2>0, <1>3, <2>2
    <3>4. i + PurgeEnd <= Len(q) => k + PurgeEnd <= Len(j) /\ j[k + PurgeEnd] = q[i + PurgeEnd]
      BY <2>0, <1>3, <2>2, PurgeEndNat
    <3>5. i > 1 => j[k - 1] = q[i - 1] BY <2>0, <1>3, <2>2
    <3>6. q[1].do # "erase" BY <3>1, <1>3, <1>1, EmptySeq DEF Whole, Clean
    <3>7. i = 1 \/ i > 1 BY <3>1
    <3> HIDE DEF i
    <3> QED BY <3>1, <3>2, <3>3, <3>4, <3>5, <3>6, <3>7
  <2> QED BY <2>1, <2>2, <2>0, <1>3
<1>5. Clean(j)
  <2>1. CASE p = <<>>
    BY <2>1, <1>1, ConcatEmptySeq DEF Whole
  <2>2. CASE p # <<>>
    <3>1. j[1] = p[1] BY <2>2, <1>1, <1>2, <1>3, EmptySeq
    <3> QED BY <3>1, <2>2 DEF Whole, Clean
  <2> QED BY <2>1, <2>2
<1> QED BY <1>2, <1>4, <1>5 DEF Whole

LEMMA CutTied ==
  ASSUME NEW p \in Seq(Part), Tied(p), NEW n \in Nat
  PROVE  LET q == SubSeq(p, n + 1, Len(p)) IN
         /\ q \in Seq(Part) /\ Tied(q)
         /\ n \in 1 .. Len(p) /\ p[n].do # "drop" => Clean(q)
         /\ n < Len(p) => q # <<>> /\ q[1] = p[n + 1]
<1> DEFINE q == SubSeq(p, n + 1, Len(p))
<1>1. Len(p) \in Nat BY LenProperties
<1>2. \A i \in n + 1 .. Len(p) : p[i] \in Part BY <1>1, ElementOfSeq
<1>3. /\ q \in Seq(Part)
      /\ Len(q) = IF n + 1 <= Len(p) THEN Len(p) - n ELSE 0
      /\ \A i \in 1 .. Len(p) - n : q[i] = p[n + i]
  <2>1. /\ q \in Seq(Part)
        /\ Len(q) = IF n + 1 <= Len(p) THEN Len(p) - (n + 1) + 1 ELSE 0
        /\ \A i \in 1 .. Len(p) - (n + 1) + 1 : q[i] = p[n + 1 + i - 1]
    BY <1>1, <1>2, SubSeqProperties
  <2> QED BY <2>1, <1>1
<1> HIDE DEF q
<1>4. Tied(q)
  <2> SUFFICES ASSUME NEW k \in 1 .. Len(q)
               PROVE  /\ q[k].do \in Fetching =>
                           k + 1 <= Len(q) /\ q[k + 1].do = "fill" /\ q[k + 1].at = q[k].at
                      /\ q[k].do = "inspect" =>
                           k + PurgeEnd <= Len(q) /\ q[k + PurgeEnd].do = "erase"
                      /\ q[k].do = "erase" /\ k > 1 =>
                           q[k - 1].do = "drop" /\ q[k - 1].at = q[k].at
    BY DEF Tied
  <2> DEFINE j == k + n
  <2>1. j \in 1 .. Len(p) /\ q[k] = p[j] BY <1>1, <1>3
  <2>2. /\ p[j].do \in Fetching =>
             j + 1 <= Len(p) /\ p[j + 1].do = "fill" /\ p[j + 1].at = p[j].at
        /\ p[j].do = "inspect" => j + PurgeEnd <= Len(p) /\ p[j + PurgeEnd].do = "erase"
        /\ p[j].do = "erase" /\ j > 1 => p[j - 1].do = "drop" /\ p[j - 1].at = p[j].at
    BY <2>1 DEF Tied
  <2>3. j + 1 <= Len(p) => k + 1 <= Len(q) /\ q[k + 1] = p[j + 1] BY <1>1, <1>3
  <2>4. j + PurgeEnd <= Len(p) => k + PurgeEnd <= Len(q) /\ q[k + PurgeEnd] = p[j + PurgeEnd]
    BY <1>1, <1>3, PurgeEndNat
  <2>5. k > 1 => j > 1 /\ q[k - 1] = p[j - 1]
    <3> SUFFICES ASSUME k > 1 PROVE j > 1 /\ q[k - 1] = p[j - 1] OBVIOUS
    <3>1. k - 1 \in 1 .. Len(p) - n BY <1>1, <1>3
    <3>2. n + (k - 1) = j - 1 /\ j > 1 OBVIOUS
    <3> QED BY <3>1, <3>2, <1>3
  <2> HIDE DEF j
  <2> QED BY <2>1, <2>2, <2>3, <2>4, <2>5
<1>5. n < Len(p) => q # <<>> /\ q[1] = p[n + 1]
  <2> SUFFICES ASSUME n < Len(p) PROVE q # <<>> /\ q[1] = p[n + 1] OBVIOUS
  <2>1. Len(q) >= 1 /\ q[1] = p[n + 1] BY <1>1, <1>3
  <2> QED BY <2>1, EmptySeq
<1>6. ASSUME n \in 1 .. Len(p), p[n].do # "drop" PROVE Clean(q)
  <2> SUFFICES ASSUME q # <<>> PROVE q[1].do # "erase" BY DEF Clean
  <2>1. Len(q) >= 1 BY <1>3, EmptySeq
  <2>2. n + 1 \in 1 .. Len(p) /\ q[1] = p[n + 1] BY <2>1, <1>1, <1>3
  <2>3. p[n + 1].do = "erase" /\ n + 1 > 1 => p[n + 1 - 1].do = "drop"
    BY <2>2 DEF Tied
  <2> QED BY <2>2, <2>3, <1>6
<1> QED BY <1>3, <1>4, <1>5, <1>6 DEF q

LEMMA TailTied ==
  ASSUME NEW p \in Seq(Part), Tied(p), p # <<>>
  PROVE  /\ Tail(p) \in Seq(Part) /\ Tied(Tail(p)) /\ Head(p) = p[1]
         /\ Head(p).do # "drop" => Clean(Tail(p))
         /\ Head(p).do = "put" =>
              Tail(p) # <<>> /\ Tail(p)[1].do = "fill" /\ Tail(p)[1].at = Head(p).at
         /\ Tail(p) # <<>> /\ Tail(p)[1].do = "erase" => Tail(p)[1].at = Head(p).at
<1>1. Len(p) \in Nat \ {0} BY EmptySeq
<1>2. Tail(p) = SubSeq(p, 1 + 1, Len(p))
  <2>1. Tail(p) = SubSeq(p, 2, Len(p)) BY TailIsSubSeq
  <2> QED BY <2>1
<1>3. /\ Tail(p) \in Seq(Part) /\ Tied(Tail(p))
      /\ 1 \in 1 .. Len(p) /\ p[1].do # "drop" => Clean(Tail(p))
      /\ 1 < Len(p) => Tail(p) # <<>> /\ Tail(p)[1] = p[1 + 1]
  BY <1>2, CutTied
<1>4. Head(p) = p[1] OBVIOUS
<1>5. p[1].do = "put" => 1 + 1 <= Len(p) /\ p[1 + 1].do = "fill" /\ p[1 + 1].at = p[1].at
  BY <1>1 DEF Tied, Fetching
<1>6. ASSUME Tail(p) # <<>>, Tail(p)[1].do = "erase" PROVE Tail(p)[1].at = p[1].at
  <2>1. Len(Tail(p)) = Len(p) - 1 /\ Len(Tail(p)) # 0
    BY <1>3, <1>6, HeadTailProperties, EmptySeq
  <2>2. 1 < Len(p) BY <1>1, <2>1
  <2>3. 1 + 1 \in 1 .. Len(p) /\ Tail(p)[1] = p[1 + 1] BY <1>1, <1>3, <2>2
  <2>4. p[1 + 1].do = "erase" /\ 1 + 1 > 1 => p[1 + 1 - 1].at = p[1 + 1].at
    BY <2>3 DEF Tied
  <2> QED BY <1>6, <2>3, <2>4
<1> QED BY <1>1, <1>3, <1>4, <1>5, <1>6

\* The calls of the store.
LEMMA StoreCalls ==
  ASSUME NEW x \in Pair
  PROVE  /\ Whole(Store(x)) /\ Whole(Erase(x))
         /\ Whole(Do("read", x) \o Do("fill", x))
         /\ Whole(Do("backstop", x) \o Do("fill", x))
<1>1. {"put", "fill", "drop", "erase", "read", "backstop"} \subseteq Parts
  BY DEF Parts, ConnectParts, OtherParts
<1>2. "fill" \notin Fetching /\ "erase" \notin Fetching /\ "drop" \notin Fetching
  BY DEF Fetching
<1>3. Whole(Do("put", x) \o Do("fill", x)) BY <1>1, <1>2, CallWhole
<1>4. Whole(Do("drop", x) \o Do("erase", x)) BY <1>1, <1>2, CallWhole
<1>5. Whole(Do("read", x) \o Do("fill", x)) BY <1>1, <1>2, CallWhole
<1>6. Whole(Do("backstop", x) \o Do("fill", x)) BY <1>1, <1>2, CallWhole
<1> QED BY <1>3, <1>4, <1>5, <1>6 DEF Store, Erase

LEMMA EraseAllWhole ==
  ASSUME NEW a \in Address, NEW P \in SUBSET Providers
  PROVE  /\ Whole(EraseAll(a, P)) /\ Len(EraseAll(a, P)) = 2 * Cardinality(P)
         /\ Cardinality(P) > 0 =>
              EraseAll(a, P)[2 * Cardinality(P)].do = "erase"
<1>1. IsFiniteSet(Providers)
  BY CredentialsAssumption, FS_Singleton, FS_Union DEF Providers
<1>2. IsFiniteSet(P) BY <1>1, FS_Subset
<1> DEFINE n == Cardinality(P)
           f == SetToSeq(P)
           q == EraseAll(a, P)
<1>3. n \in Nat BY <1>2, FS_CardinalityType
<1>4. q \in Seq(Part)
  <2>1. Both \subseteq Parts /\ Parts \subseteq Parts
    BY DEF Both, Parts, ConnectParts
  <2>2. Fresh(q, Parts, Address) BY <2>1, EraseAllPlan
  <2> QED BY <2>2 DEF Fresh, Plan
<1> HIDE DEF f, n
<1>5. q = [k \in 1 .. 2 * n |->
             [do |-> IF k % 2 = 1 THEN "drop" ELSE "erase",
              at |-> <<a, f[(k + 1) \div 2]>>]]
  BY DEF EraseAll, f, n
<1> HIDE DEF q
<1>6. DOMAIN q = 1 .. 2 * n BY <1>5
<1>7. Len(q) = 2 * n BY <1>3, <1>4, <1>6, LenProperties
<1>8. \A k \in 1 .. 2 * n :
        /\ q[k].do = IF k % 2 = 1 THEN "drop" ELSE "erase"
        /\ q[k].at = <<a, f[(k + 1) \div 2]>>
  BY <1>5
<1>9. Tied(q)
  <2> SUFFICES ASSUME NEW k \in 1 .. 2 * n
               PROVE  /\ q[k].do \notin Fetching /\ q[k].do # "inspect"
                      /\ q[k].do = "erase" /\ k > 1 =>
                           q[k - 1].do = "drop" /\ q[k - 1].at = q[k].at
    BY <1>7 DEF Tied
  <2>1. q[k].do \notin Fetching /\ q[k].do # "inspect" BY <1>8 DEF Fetching
  <2>2. ASSUME q[k].do = "erase", k > 1
        PROVE  q[k - 1].do = "drop" /\ q[k - 1].at = q[k].at
    <3>1. k % 2 = 0 BY <1>3, <1>8, <2>2
    <3>2. /\ k - 1 \in 1 .. 2 * n /\ (k - 1) % 2 = 1
          /\ ((k - 1) + 1) \div 2 = (k + 1) \div 2
      BY <1>3, <2>2, <3>1
    <3>3. q[k - 1].do = "drop" BY <1>8, <3>2
    <3>4. q[k - 1].at = <<a, f[((k - 1) + 1) \div 2]>> BY <1>8, <3>2
    <3> QED BY <1>8, <3>2, <3>3, <3>4
  <2> QED BY <2>1, <2>2
<1>10. Clean(q)
  <2> SUFFICES ASSUME q # <<>> PROVE q[1].do # "erase" BY DEF Clean
  <2>1. 1 \in 1 .. 2 * n BY <1>3, <1>4, <1>7, EmptySeq
  <2> QED BY <1>8, <2>1
<1>11. n > 0 => q[2 * n].do = "erase" BY <1>3, <1>8
<1> QED BY <1>4, <1>7, <1>9, <1>10, <1>11 DEF Whole, n, q

\* The purge of one mailbox: a look at it, then the erasure of its pairs.
LEMMA PurgeWhole ==
  ASSUME NEW x \in Pair
  PROVE  Whole(PurgePlan(x))
<1> DEFINE w == EraseAll(x[1], Providers)
           n == 2 * Cardinality(Providers)
           one == Do("inspect", x)
           two == one \o Do("fill", x)
           p == two \o w
<1>1. x[1] \in Address BY DEF Pair
<1>2. Cardinality(Providers) \in Nat /\ Cardinality(Providers) > 0
  <2>1. IsFiniteSet(Providers)
    BY CredentialsAssumption, FS_Singleton, FS_Union DEF Providers
  <2>2. Cardinality(Providers) \in Nat BY <2>1, FS_CardinalityType
  <2>3. PurgeEnd >= 3 BY PurgeEndNat
  <2> QED BY <2>2, <2>3 DEF PurgeEnd
<1>3. Whole(w) /\ Len(w) = n /\ w[n].do = "erase" BY <1>1, <1>2, EraseAllWhole
<1>4. PurgeEnd = 1 + n /\ n \in Nat /\ n >= 2 BY <1>2 DEF PurgeEnd
<1>5. "inspect" \in Parts /\ "fill" \in Parts
  BY DEF Parts, ConnectParts, OtherParts
<1>6. one \in Seq(Part) /\ Len(one) = 1 /\ one[1].do = "inspect" /\ one[1].at = x
  BY <1>5, OneStep
<1> HIDE DEF one, w, n
<1>7. /\ two \in Seq(Part) /\ Len(two) = Len(one) + 1
      /\ \A i \in 1 .. Len(one) : two[i] = one[i]
      /\ two[Len(one) + 1].do = "fill" /\ two[Len(one) + 1].at = x
  BY <1>5, <1>6, ThenStep
<1>8. Len(two) = 2 /\ two[1] = one[1] /\ two[2].do = "fill" /\ two[2].at = x
  BY <1>6, <1>7
<1> HIDE DEF two
<1>9. w \in Seq(Part) /\ Tied(w) /\ Clean(w) BY <1>3 DEF Whole
<1>10. /\ p \in Seq(Part) /\ Len(p) = 2 + n
       /\ p[1] = two[1] /\ p[2] = two[2]
       /\ \A i \in 1 .. n : p[i + 2] = w[i]
  <2>1. /\ p \in Seq(Part) /\ Len(p) = Len(two) + Len(w)
        /\ \A i \in 1 .. Len(two) + Len(w) :
             p[i] = IF i <= Len(two) THEN two[i] ELSE w[i - Len(two)]
    BY <1>7, <1>9, ConcatProperties
  <2> HIDE DEF p
  <2>2. \A i \in 1 .. n : p[i + 2] = w[i]
    <3> TAKE i \in 1 .. n
    <3>1. i + 2 \in 1 .. Len(two) + Len(w) /\ ~(i + 2 <= Len(two)) /\ i + 2 - Len(two) = i
      BY <1>3, <1>4, <1>8
    <3> QED BY <2>1, <3>1
  <2> QED BY <2>1, <2>2, <1>3, <1>4, <1>8
<1> HIDE DEF p
<1>11. Tied(p)
  <2> SUFFICES ASSUME NEW k \in 1 .. Len(p)
               PROVE  /\ p[k].do \in Fetching =>
                           k + 1 <= Len(p) /\ p[k + 1].do = "fill" /\ p[k + 1].at = p[k].at
                      /\ p[k].do = "inspect" =>
                           k + PurgeEnd <= Len(p) /\ p[k + PurgeEnd].do = "erase"
                      /\ p[k].do = "erase" /\ k > 1 =>
                           p[k - 1].do = "drop" /\ p[k - 1].at = p[k].at
    BY DEF Tied
  <2>1. CASE k = 1
    <3>1. n \in 1 .. n /\ 1 + PurgeEnd = n + 2 BY <1>4
    <3>2. p[1 + PurgeEnd] = w[n] BY <1>10, <3>1
    <3> QED BY <1>3, <1>4, <1>6, <1>8, <1>10, <2>1, <3>1, <3>2
  <2>2. CASE k = 2 BY <1>8, <1>10, <2>2 DEF Fetching
  <2>3. CASE k > 2
    <3> DEFINE i == k - 2
    <3>1. i \in 1 .. n /\ p[k] = w[i]
      <4>1. i \in 1 .. n /\ k = i + 2 BY <1>4, <1>10, <2>3
      <4> QED BY <1>10, <4>1
    <3>2. /\ w[i].do \in Fetching =>
               i + 1 <= n /\ w[i + 1].do = "fill" /\ w[i + 1].at = w[i].at
          /\ w[i].do = "inspect" => i + PurgeEnd <= n
          /\ w[i].do = "erase" /\ i > 1 => w[i - 1].do = "drop" /\ w[i - 1].at = w[i].at
      BY <1>3, <1>9, <3>1 DEF Tied
    <3>3. i + 1 <= n => p[k + 1] = w[i + 1]
      <4> SUFFICES ASSUME i + 1 <= n PROVE p[k + 1] = w[i + 1] OBVIOUS
      <4>1. i + 1 \in 1 .. n /\ k + 1 = (i + 1) + 2 BY <1>4, <3>1
      <4> QED BY <1>10, <4>1
    <3>4. i > 1 => p[k - 1] = w[i - 1]
      <4> SUFFICES ASSUME i > 1 PROVE p[k - 1] = w[i - 1] OBVIOUS
      <4>1. i - 1 \in 1 .. n /\ k - 1 = (i - 1) + 2 BY <1>4, <3>1
      <4> QED BY <1>10, <4>1
    <3>5. i = 1 => w[i].do # "erase"
      <4>1. w # <<>> BY <1>3, <1>4, EmptySeq
      <4> QED BY <1>9, <4>1 DEF Clean
    <3>6. ~(i + PurgeEnd <= n) BY <1>4, <3>1
    <3>7. (i + 1 <= n => k + 1 <= Len(p)) /\ (k > 1 => i = 1 \/ i > 1) BY <1>4, <1>10, <3>1
    <3> HIDE DEF i
    <3> QED BY <3>1, <3>2, <3>3, <3>4, <3>5, <3>6, <3>7
  <2> QED BY <1>4, <1>10, <2>1, <2>2, <2>3
<1>12. Clean(p) BY <1>6, <1>8, <1>10 DEF Clean
<1>13. PurgePlan(x) = p BY DEF PurgePlan, p, two, one, w
<1> QED BY <1>10, <1>11, <1>12, <1>13 DEF Whole

\* Every request begins with a whole plan.
LEMMA RequestPlans ==
  ASSUME NEW x \in Pair
  PROVE  /\ Whole(SignInPlan(x))
         /\ Whole(Store(x) \o Do("account", x) \o Ensure(x))
         /\ Whole(Ensure(x) \o Store(x)) /\ Whole(Store(x) \o Ensure(x))
         /\ Whole(DisconnectPlan(x)) /\ Whole(Store(x))
         /\ Whole(Do("read", x) \o Do("fill", x) \o Store(x))
         /\ Whole(Do("read", x) \o Do("fill", x) \o <<>>)
<1>1. {"account", "find", "claim", "admit", "commit", "tombstone"} \subseteq Parts
  BY DEF Parts, ConnectParts, OtherParts
<1>2. {"account", "find", "claim", "admit", "commit", "tombstone"} \cap Fetching = {}
  BY DEF Fetching
<1>3. \A s \in {"account", "find", "claim", "admit", "commit", "tombstone"} :
        Whole(Do(s, x))
  <2> TAKE s \in {"account", "find", "claim", "admit", "commit", "tombstone"}
  <2>1. s \in Parts /\ s \notin Fetching /\ s # "erase" BY <1>1, <1>2
  <2> QED BY <2>1, SingleWhole
<1>4. /\ Whole(Do("account", x)) /\ Whole(Do("find", x)) /\ Whole(Do("claim", x))
      /\ Whole(Do("admit", x)) /\ Whole(Do("commit", x)) /\ Whole(Do("tombstone", x))
  BY <1>3
<1>5. /\ Whole(Store(x)) /\ Whole(Erase(x))
      /\ Whole(Do("read", x) \o Do("fill", x))
  BY StoreCalls
<1>6. Whole(Ensure(x))
  <2>1. Whole(Do("find", x) \o Do("claim", x)) BY <1>4, JoinedWhole
  <2>2. Whole(Do("find", x) \o Do("claim", x) \o Do("admit", x))
    BY <1>4, <2>1, JoinedWhole
  <2> QED BY <1>4, <2>2, JoinedWhole DEF Ensure
<1>7. Whole(SignInPlan(x))
  <2>1. Whole(Do("account", x) \o Store(x)) BY <1>4, <1>5, JoinedWhole
  <2> QED BY <1>6, <2>1, JoinedWhole DEF SignInPlan
<1>8. Whole(Store(x) \o Do("account", x) \o Ensure(x))
  <2>1. Whole(Store(x) \o Do("account", x)) BY <1>4, <1>5, JoinedWhole
  <2> QED BY <1>6, <2>1, JoinedWhole
<1>9. Whole(DisconnectPlan(x)) BY <1>4, <1>5, JoinedWhole DEF DisconnectPlan
<1>10. Do("read", x) \o Do("fill", x) \o <<>> = Do("read", x) \o Do("fill", x)
  BY <1>5, ConcatEmptySeq DEF Whole
<1> QED BY <1>5, <1>6, <1>7, <1>8, <1>9, <1>10, JoinedWhole

LEMMA DeleteWhole ==
  ASSUME NEW u \in User
  PROVE  Whole(DeletePlan(u))
<1> DEFINE home == <<Home[u], "google">>
           w == EraseAll(Home[u], Providers)
           call == Do("backstop", home) \o Do("fill", home)
           head == Do("loop", home) \o Do("sever", home)
<1>1. Home[u] \in Address BY CredentialsAssumption
<1>2. home \in Pair BY <1>1 DEF Pair, Providers
<1>3. DeletePlan(u) = head \o Do("backstop", home) \o Do("fill", home) \o w
  BY DEF DeletePlan
<1> HIDE DEF home
<1>4. "loop" \in Parts /\ "sever" \in Parts /\ "loop" \notin Fetching /\ "sever" \notin Fetching
  BY DEF Parts, OtherParts, Fetching
<1>5. Whole(Do("loop", home)) /\ Whole(Do("sever", home)) BY <1>2, <1>4, SingleWhole
<1>6. Whole(head) BY <1>5, JoinedWhole
<1>7. Whole(call) BY <1>2, StoreCalls
<1>8. Whole(w) BY <1>1, EraseAllWhole
<1>9. Whole(head \o call \o w) BY <1>6, <1>7, <1>8, JoinedWhole
<1>10. head \o call = head \o Do("backstop", home) \o Do("fill", home)
  <2>1. "backstop" \in Parts /\ "fill" \in Parts BY DEF Parts, ConnectParts, OtherParts
  <2> DEFINE a == Do("backstop", home)
             b == Do("fill", home)
  <2>2. a \in Seq(Part) /\ b \in Seq(Part) BY <1>2, <2>1, OneStep
  <2>3. head \in Seq(Part) BY <1>6 DEF Whole
  <2> HIDE DEF head, a, b
  <2>4. (head \o a) \o b = head \o (a \o b) BY <2>2, <2>3, ConcatAssociative
  <2> QED BY <2>4 DEF a, b
<1> HIDE DEF head, w, call
<1> QED BY <1>3, <1>9, <1>10

-----------------------------------------------------------------------------
\* Steps.  Every one of them but the store's own leaves secrets, cache and
\* history alone.

\* Request t moves on to a plan that is tied.
Hops(t) ==
  /\ Tied(task'[t].plan)
  /\ \A s \in Task \ {t} : task'[s] = task[s]

LEMMA IdleTied == Tied(Idle.plan) /\ Clean(Idle.plan)
<1>1. Idle.plan = <<>> BY DEF Idle
<1>2. Len(<<>>) = 0 BY EmptySeq
<1> QED BY <1>1, <1>2 DEF Tied, Clean

LEMMA Hopped ==
  ASSUME IInv, NEW t \in Task, NEW r, Becomes(t, r), Tied(r.plan)
  PROVE  /\ Hops(t) /\ (Clean(r.plan) => Clean(task'[t].plan))
         /\ task'[t] = IF r.plan = <<>> THEN Idle ELSE r
<1>1. task' = [task EXCEPT ![t] = IF r.plan = <<>> THEN Idle ELSE r] BY DEF Becomes
<1>2. /\ task'[t] = IF r.plan = <<>> THEN Idle ELSE r
      /\ \A s \in Task \ {t} : task'[s] = task[s]
  BY <1>1 DEF IInv, TasksFit
<1> QED BY <1>2, IdleTied DEF Hops

LEMMA HoppedOff ==
  ASSUME IInv, NEW t \in Task, End(t)
  PROVE  Hops(t) /\ Clean(task'[t].plan)
<1>1. task'[t] = Idle /\ \A s \in Task \ {t} : task'[s] = task[s]
  BY DEF End, IInv, TasksFit
<1> QED BY <1>1, IdleTied DEF Hops

LEMMA PlanSeq ==
  ASSUME IInv, NEW t \in Task
  PROVE  task[t].plan \in Seq(Part) /\ task[t] \in Request
BY DEF IInv, TasksFit, Request

LEMMA HoppedAhead ==
  ASSUME IInv, TiedInv, NEW t \in Task, Advance(t), task[t].plan # <<>>
  PROVE  /\ Hops(t)
         /\ Head(task[t].plan).do # "drop" => Clean(task'[t].plan)
<1> DEFINE r == [task[t] EXCEPT !.plan = Tail(@)]
<1>1. /\ task[t].plan \in Seq(Part) /\ Tied(task[t].plan) /\ task[t] \in Request
  BY PlanSeq DEF TiedInv
<1>2. /\ Tail(task[t].plan) \in Seq(Part) /\ Tied(Tail(task[t].plan))
      /\ Head(task[t].plan).do # "drop" => Clean(Tail(task[t].plan))
  BY <1>1, TailTied
<1>3. r.plan = Tail(task[t].plan) BY <1>1, <1>2, WithPlan
<1>4. Becomes(t, r) BY DEF Advance
<1> HIDE DEF r
<1> QED BY <1>2, <1>3, <1>4, Hopped

\* A step that touches neither store nor cache, and is no fill.
LEMMA Harmless ==
  ASSUME IInv, IInv', TruthInv, NEW t \in Task, Hops(t), Clean(task'[t].plan),
         ~Todo(t, "fill"), secret' = secret, cache' = cache, raced' = raced
  PROVE  TruthInv'
<1>0. task'[t].plan \in Seq(Part) BY DEF IInv, TasksFit, Request
<1>1. TiedInv' BY DEF TruthInv, TiedInv, Hops
<1>2. \A s \in Task \ {t} : task'[s] = task[s] BY DEF Hops
<1>3. EraseKnown'
  <2> SUFFICES ASSUME NEW s \in Task, Todo(s, "erase")'
               PROVE  (cache[At(s)] = NoGrant \/ At(s) \in raced)'
    BY DEF EraseKnown
  <2>1. s # t
    <3> SUFFICES ASSUME s = t PROVE FALSE OBVIOUS
    <3>1. task'[t].plan # <<>> /\ Head(task'[t].plan).do = "erase" BY DEF Todo
    <3>2. Head(task'[t].plan) = task'[t].plan[1] BY <1>0, <3>1
    <3> QED BY <3>1, <3>2 DEF Clean
  <2>2. task'[s] = task[s] BY <1>2, <2>1
  <2>3. Todo(s, "erase") /\ At(s)' = At(s) BY <2>2 DEF Todo, At
  <2>4. cache[At(s)] = NoGrant \/ At(s) \in raced BY <2>3 DEF TruthInv, EraseKnown
  <2> QED BY <2>3, <2>4
<1>4. CacheTellsTruth'
  <2> SUFFICES ASSUME NEW x \in Pair, x \notin raced',
                      \A s \in Task : ~(Todo(s, "fill") /\ At(s) = x)'
               PROVE  cache'[x] \in {NoGrant, secret'[x]}
    BY DEF CacheTellsTruth
  <2>1. \A s \in Task : ~(Todo(s, "fill") /\ At(s) = x)
    <3> TAKE s \in Task
    <3>1. CASE s = t BY <3>1
    <3>2. CASE s # t
      <4>1. task'[s] = task[s] BY <1>2, <3>2
      <4>2. ~(Todo(s, "fill") /\ At(s) = x)' OBVIOUS
      <4> QED BY <4>1, <4>2 DEF Todo, At
    <3> QED BY <3>1, <3>2
  <2> QED BY <2>1 DEF TruthInv, CacheTellsTruth
<1> QED BY <1>1, <1>3, <1>4 DEF TruthInv

\* The steps that only advance.
LEMMA PlainSteps ==
  ASSUME IInv, IInv', TruthInv, NEW t \in Task,
         \/ AccountStep(t) \/ SwitchStep(t) \/ TombstoneStep(t)
  PROVE  TruthInv'
<1>1. /\ Advance(t) /\ task[t].plan # <<>>
      /\ Head(task[t].plan).do \in {"account", "switch", "tombstone"}
      /\ secret' = secret /\ cache' = cache /\ raced' = raced
  BY DEF AccountStep, SwitchStep, TombstoneStep, Todo
<1>2. Hops(t) /\ Clean(task'[t].plan) BY <1>1, HoppedAhead DEF TruthInv
<1>3. ~Todo(t, "fill") BY <1>1 DEF Todo
<1> QED BY <1>1, <1>2, <1>3, Harmless

\* A request that ends early.
LEMMA EndingSteps ==
  ASSUME IInv, IInv', TruthInv, NEW t \in Task, End(t), ~Todo(t, "fill"),
         secret' = secret, cache' = cache, raced' = raced
  PROVE  TruthInv'
<1>1. Hops(t) /\ Clean(task'[t].plan) BY HoppedOff
<1> QED BY <1>1, Harmless

\* A step that makes the record r, of a tied plan.
LEMMA RecordSteps ==
  ASSUME IInv, IInv', TruthInv, NEW t \in Task, NEW r, Becomes(t, r),
         Tied(r.plan), Clean(r.plan), ~Todo(t, "fill"),
         secret' = secret, cache' = cache, raced' = raced
  PROVE  TruthInv'
<1>1. Hops(t) /\ Clean(task'[t].plan) BY Hopped
<1> QED BY <1>1, Harmless

LEMMA AdmissionSteps ==
  ASSUME IInv, IInv', TruthInv, NEW t \in Task, ClaimStep(t) \/ AdmitStep(t)
  PROVE  TruthInv'
<1>1. /\ task[t].plan # <<>> /\ Head(task[t].plan).do \in {"claim", "admit"}
      /\ secret' = secret /\ cache' = cache /\ raced' = raced
      /\ End(t) \/ Advance(t)
  BY DEF ClaimStep, AdmitStep, Drop, stores, Todo
<1>2. ~Todo(t, "fill") BY <1>1 DEF Todo
<1>3. CASE End(t) BY <1>1, <1>2, <1>3, EndingSteps
<1>4. CASE Advance(t)
  <2>1. Hops(t) /\ Clean(task'[t].plan) BY <1>1, <1>4, HoppedAhead DEF TruthInv
  <2> QED BY <1>1, <1>2, <2>1, Harmless
<1> QED BY <1>1, <1>3, <1>4

LEMMA CommitTruth ==
  ASSUME IInv, IInv', TruthInv, NEW t \in Task, CommitStep(t)
  PROVE  TruthInv'
<1> DEFINE x == At(t)
           q == EraseOthers(x) \o Tail(task[t].plan)
           r == [task[t] EXCEPT !.plan = EraseOthers(x) \o Tail(@)]
<1>1. /\ task[t].plan # <<>> /\ Head(task[t].plan).do = "commit"
      /\ secret' = secret /\ cache' = cache /\ raced' = raced
      /\ End(t) \/ Advance(t) \/ Becomes(t, r)
  BY DEF CommitStep, Drop, Todo
<1>2. ~Todo(t, "fill") BY <1>1 DEF Todo
<1>3. CASE End(t) BY <1>1, <1>2, <1>3, EndingSteps
<1>4. CASE Advance(t)
  <2>1. Hops(t) /\ Clean(task'[t].plan) BY <1>1, <1>4, HoppedAhead DEF TruthInv
  <2> QED BY <1>1, <1>2, <2>1, Harmless
<1>5. CASE Becomes(t, r)
  <2>1. /\ task[t].plan \in Seq(Part) /\ Tied(task[t].plan) /\ task[t] \in Request
    BY PlanSeq DEF TruthInv, TiedInv
  <2>2. Whole(Tail(task[t].plan)) BY <1>1, <2>1, TailTied DEF Whole
  <2>3. x \in Pair /\ x[1] \in Address BY <1>1, Here DEF Pair
  <2>4. Whole(EraseOthers(x)) BY <2>3, EraseAllWhole DEF EraseOthers
  <2>5. Whole(q) BY <2>2, <2>4, JoinedWhole
  <2>6. r = [task[t] EXCEPT !.plan = q] OBVIOUS
  <2>7. Becomes(t, r) BY <1>5
  <2> HIDE DEF r, q
  <2>8. r.plan = q BY <2>1, <2>5, <2>6, WithPlan DEF Whole
  <2>9. Tied(r.plan) /\ Clean(r.plan) BY <2>5, <2>8 DEF Whole
  <2> QED BY <1>1, <1>2, <2>7, <2>9, RecordSteps
<1> QED BY <1>1, <1>3, <1>4, <1>5

LEMMA FindTruth ==
  ASSUME IInv, IInv', TruthInv, NEW t \in Task, FindStep(t)
  PROVE  TruthInv'
<1> DEFINE x == At(t)
           after == Skip(t, 4)
           long == Do("switch", x) \o EraseOthers(x) \o Skip(t, 4)
<1>1. /\ task[t].plan # <<>> /\ Head(task[t].plan).do = "find" /\ Todo(t, "find")
      /\ secret' = secret /\ cache' = cache /\ raced' = raced
  BY DEF FindStep, stores, Todo
<1>2. ~Todo(t, "fill") BY <1>1 DEF Todo
<1>3. /\ task[t].plan \in Seq(Part) /\ Tied(task[t].plan) /\ task[t] \in Request
  BY PlanSeq DEF TruthInv, TiedInv
<1>4. Whole(Tail(task[t].plan)) BY <1>1, <1>3, TailTied DEF Whole
<1>5. x \in Pair /\ x[1] \in Address BY <1>1, Here DEF Pair
<1>6. Whole(after)
  <2>1. Linked(task[t].plan) /\ Head(task[t].plan) = task[t].plan[1]
    BY <1>1, FitsHead DEF IInv, TasksFit
  <2>2. Len(task[t].plan) \in Nat \ {0} BY <1>1, <1>3, EmptySeq
  <2>3. 1 \in 1 .. Len(task[t].plan) /\ task[t].plan[1].do = "find"
    BY <1>1, <2>1, <2>2
  <2>4. 1 + 3 <= Len(task[t].plan) /\ task[t].plan[1 + 3].do = "commit"
    BY <2>1, <2>3 DEF Linked
  <2>5. 4 \in 1 .. Len(task[t].plan) /\ task[t].plan[4].do # "drop" BY <2>2, <2>4
  <2> QED BY <1>3, <2>5, CutTied DEF Skip, Whole
<1>7. Whole(long)
  <2>1. "switch" \in Parts /\ "switch" \notin Fetching
    BY DEF Parts, ConnectParts, Fetching
  <2>2. Whole(Do("switch", x)) BY <1>5, <2>1, SingleWhole
  <2>3. Whole(EraseOthers(x)) BY <1>5, EraseAllWhole DEF EraseOthers
  <2>4. Whole(Do("switch", x) \o EraseOthers(x)) BY <2>2, <2>3, JoinedWhole
  <2> QED BY <1>6, <2>4, JoinedWhole
<1>8. CASE Advance(t)
  <2>1. Hops(t) /\ Clean(task'[t].plan) BY <1>1, <1>8, HoppedAhead DEF TruthInv
  <2> QED BY <1>1, <1>2, <2>1, Harmless
<1>9. ASSUME NEW i \in DOMAIN rows,
             Becomes(t, [task[t] EXCEPT !.row = i, !.seen = rows[i].prov, !.plan = Tail(@)])
      PROVE  TruthInv'
  <2> DEFINE r == [task[t] EXCEPT !.row = i, !.seen = rows[i].prov, !.plan = Tail(@)]
  <2>1. r.plan = Tail(task[t].plan) BY <1>3 DEF Request
  <2>2. Becomes(t, r) BY <1>9
  <2> HIDE DEF r
  <2>3. Tied(r.plan) /\ Clean(r.plan) BY <1>4, <2>1 DEF Whole
  <2> QED BY <1>1, <1>2, <2>2, <2>3, RecordSteps
<1>10. ASSUME NEW i \in DOMAIN rows,
              Becomes(t, [task[t] EXCEPT !.row = i, !.plan =
                 IF rows[i].prov = x[2] THEN Skip(t, 4)
                 ELSE Do("switch", x) \o EraseOthers(x) \o Skip(t, 4)])
       PROVE  TruthInv'
  <2> DEFINE q == IF rows[i].prov = x[2] THEN after ELSE long
             r == [task[t] EXCEPT !.row = i, !.plan = q]
  <2>1. Whole(q) BY <1>6, <1>7
  <2>2. Becomes(t, r) BY <1>10
  <2> HIDE DEF q
  <2>3. r.plan = q BY <1>3 DEF Request
  <2> HIDE DEF r
  <2>4. Tied(r.plan) /\ Clean(r.plan) BY <2>1, <2>3 DEF Whole
  <2> QED BY <1>1, <1>2, <2>2, <2>4, RecordSteps
<1> QED BY <1>8, <1>9, <1>10 DEF FindStep

\* A read's fill is skipped, or due.
LEMMA ReadTruth ==
  ASSUME IInv, IInv', TruthInv, NEW t \in Task, ReadStep(t)
  PROVE  TruthInv'
<1>1. /\ task[t].plan # <<>>
      /\ Head(task[t].plan).do \in {"read", "inspect", "backstop"}
      /\ secret' = secret /\ cache' = cache /\ raced' = raced
  BY DEF ReadStep, stores, Todo
<1>2. ~Todo(t, "fill") BY <1>1 DEF Todo
<1>3. /\ task[t].plan \in Seq(Part) /\ Tied(task[t].plan) /\ task[t] \in Request
  BY PlanSeq DEF TruthInv, TiedInv
<1>4. Whole(Tail(task[t].plan)) BY <1>1, <1>3, TailTied DEF Whole
<1>5. CASE Becomes(t, [task[t] EXCEPT !.got = secret[At(t)], !.plan = Tail(@)])
  <2> DEFINE r == [task[t] EXCEPT !.got = secret[At(t)], !.plan = Tail(@)]
  <2>1. r.plan = Tail(task[t].plan) BY <1>3 DEF Request
  <2>2. Becomes(t, r) BY <1>5
  <2> HIDE DEF r
  <2>3. Tied(r.plan) /\ Clean(r.plan) BY <1>4, <2>1 DEF Whole
  <2> QED BY <1>1, <1>2, <2>2, <2>3, RecordSteps
<1>6. CASE Becomes(t, [task[t] EXCEPT !.plan = Skip(t, 2)])
  <2> DEFINE r == [task[t] EXCEPT !.plan = Skip(t, 2)]
  <2>1. Len(task[t].plan) \in Nat \ {0} BY <1>1, <1>3, EmptySeq
  <2>2. 1 \in 1 .. Len(task[t].plan) /\ task[t].plan[1].do \in Fetching
    BY <1>1, <1>3, <2>1, TailTied DEF Fetching
  <2>3. 1 + 1 <= Len(task[t].plan) /\ task[t].plan[1 + 1].do = "fill"
    BY <1>3, <2>2 DEF Tied
  <2>4. 2 \in 1 .. Len(task[t].plan) /\ task[t].plan[2].do # "drop" BY <2>1, <2>3
  <2>5. Whole(Skip(t, 2)) BY <1>3, <2>4, CutTied DEF Skip, Whole
  <2>6. r.plan = Skip(t, 2) BY <1>3, <2>5, WithPlan DEF Whole
  <2>7. Becomes(t, r) BY <1>6
  <2> HIDE DEF r
  <2>8. Tied(r.plan) /\ Clean(r.plan) BY <2>5, <2>6 DEF Whole
  <2> QED BY <1>1, <1>2, <2>7, <2>8, RecordSteps
<1>7. CASE End(t) BY <1>1, <1>2, <1>7, EndingSteps
<1> QED BY <1>5, <1>6, <1>7 DEF ReadStep

LEMMA ReadFailsTruth ==
  ASSUME IInv, IInv', TruthInv, NEW t \in Task, ReadFails(t)
  PROVE  TruthInv'
<1>1. /\ task[t].plan # <<>>
      /\ Head(task[t].plan).do \in {"read", "inspect", "backstop"}
      /\ secret' = secret /\ cache' = cache /\ raced' = raced
  BY DEF ReadFails, stores, Todo
<1>2. ~Todo(t, "fill") BY <1>1 DEF Todo
<1>3. /\ task[t].plan \in Seq(Part) /\ Tied(task[t].plan) /\ task[t] \in Request
  BY PlanSeq DEF TruthInv, TiedInv
<1>4. CASE End(t) BY <1>1, <1>2, <1>4, EndingSteps
<1>5. CASE Todo(t, "inspect") /\
           Becomes(t, [task[t] EXCEPT
                        !.plan = Skip(t, 2 + 2 * Cardinality(Providers)),
                        !.purged = {i \in @ : rows[i].addr # At(t)[1]}])
  <2> DEFINE n == 2 + 2 * Cardinality(Providers)
             r == [task[t] EXCEPT
                    !.plan = Skip(t, n),
                    !.purged = {i \in @ : rows[i].addr # At(t)[1]}]
  <2>1. n = 1 + PurgeEnd /\ n \in Nat /\ n > 1
    <3>1. IsFiniteSet(Providers)
      BY CredentialsAssumption, FS_Singleton, FS_Union DEF Providers
    <3>2. Cardinality(Providers) \in Nat BY <3>1, FS_CardinalityType
    <3> QED BY <3>2, PurgeEndNat DEF PurgeEnd
  <2>2. Becomes(t, r) BY <1>5
  <2> HIDE DEF n
  <2>3. Len(task[t].plan) \in Nat \ {0} BY <1>1, <1>3, EmptySeq
  <2>4. 1 \in 1 .. Len(task[t].plan) /\ task[t].plan[1].do = "inspect"
    BY <1>1, <1>3, <1>5, <2>3, TailTied DEF Todo
  <2>5. 1 + PurgeEnd <= Len(task[t].plan) /\ task[t].plan[1 + PurgeEnd].do = "erase"
    BY <1>3, <2>4 DEF Tied
  <2>6. n \in 1 .. Len(task[t].plan) /\ task[t].plan[n].do # "drop"
    BY <2>1, <2>3, <2>5
  <2>7. Whole(Skip(t, n)) BY <1>3, <2>1, <2>6, CutTied DEF Skip, Whole
  <2>8. r.plan = Skip(t, n) BY <1>3 DEF Request
  <2> HIDE DEF r
  <2>9. Tied(r.plan) /\ Clean(r.plan) BY <2>7, <2>8 DEF Whole
  <2> QED BY <1>1, <1>2, <2>2, <2>9, RecordSteps
<1> QED BY <1>4, <1>5 DEF ReadFails

LEMMA DeletionTruth ==
  ASSUME IInv, IInv', TruthInv, NEW t \in Task, LoopStep(t) \/ SeverStep(t)
  PROVE  TruthInv'
<1>1. /\ task[t].plan # <<>>
      /\ Head(task[t].plan).do \in {"loop", "sever"}
      /\ secret' = secret /\ cache' = cache /\ raced' = raced
  BY DEF LoopStep, SeverStep, stores, Todo
<1>2. ~Todo(t, "fill") BY <1>1 DEF Todo
<1>3. /\ task[t].plan \in Seq(Part) /\ Tied(task[t].plan) /\ task[t] \in Request
      /\ Head(task[t].plan) = task[t].plan[1]
  BY <1>1, PlanSeq, TailTied DEF TruthInv, TiedInv
<1>4. Whole(Tail(task[t].plan)) BY <1>1, <1>3, TailTied DEF Whole
<1>5. CASE Advance(t)
  <2>1. Hops(t) /\ Clean(task'[t].plan) BY <1>1, <1>5, HoppedAhead DEF TruthInv
  <2> QED BY <1>1, <1>2, <2>1, Harmless
<1>6. ASSUME NEW m \in task[t].left,
             Becomes(t, [task[t] EXCEPT !.left = @ \ {m}, !.plan = PurgePlan(m.at) \o @])
      PROVE  TruthInv'
  <2> DEFINE q == PurgePlan(m.at) \o task[t].plan
             r == [task[t] EXCEPT !.left = @ \ {m}, !.plan = PurgePlan(m.at) \o @]
  <2>1. m.at \in Pair BY <1>3 DEF Request
  <2>2. Whole(task[t].plan)
    <3>1. task[t].plan[1].do # "erase" BY <1>1, <1>3
    <3> QED BY <1>3, <3>1 DEF Whole, Clean
  <2>3. Whole(q) BY <2>1, <2>2, PurgeWhole, JoinedWhole
  <2>4. r.plan = q BY <1>3 DEF Request
  <2>5. Becomes(t, r) BY <1>6
  <2> HIDE DEF r, q
  <2>6. Tied(r.plan) /\ Clean(r.plan) BY <2>3, <2>4 DEF Whole
  <2> QED BY <1>1, <1>2, <2>5, <2>6, RecordSteps
<1>7. CASE Becomes(t, [task[t] EXCEPT !.purged = {}, !.plan = Tail(@)])
  <2> DEFINE r == [task[t] EXCEPT !.purged = {}, !.plan = Tail(@)]
  <2>1. r.plan = Tail(task[t].plan) BY <1>3 DEF Request
  <2>2. Becomes(t, r) BY <1>7
  <2> HIDE DEF r
  <2>3. Tied(r.plan) /\ Clean(r.plan) BY <1>4, <2>1 DEF Whole
  <2> QED BY <1>1, <1>2, <2>2, <2>3, RecordSteps
<1> QED BY <1>5, <1>6, <1>7 DEF LoopStep, SeverStep

LEMMA BeginTruth ==
  ASSUME IInv, IInv', TruthInv, NEW t \in Task, NEW op, NEW u, NEW r, NEW plan,
         Begin(t, op, u, r, plan), Whole(plan)
  PROVE  TruthInv'
<1>1. /\ task[t] = Idle /\ secret' = secret /\ cache' = cache /\ raced' = raced
  BY DEF Begin, stores
<1>2. task'[t].plan = plan /\ \A s \in Task \ {t} : task'[s] = task[s]
  BY DEF Begin, IInv, TasksFit
<1>3. ~Todo(t, "fill") BY <1>1 DEF Todo, Idle
<1>4. Hops(t) /\ Clean(task'[t].plan) BY <1>2 DEF Hops, Whole
<1> QED BY <1>1, <1>3, <1>4, Harmless

LEMMA RequestTruth ==
  ASSUME IInv, IInv', TruthInv, NEW t \in Task, Requests(t)
  PROVE  TruthInv'
<1>1. PICK u \in User :
        \/ GoogleSignIn(t, u) \/ DeleteAccount(t, u) \/ WebCallback(t, u)
        \/ \E p \in Imap : ImapSignIn(t, u, p)
        \/ \E a \in Address : AddGoogle(t, u, a)
        \/ \E a \in Address, p \in Imap : AddImap(t, u, a, p)
        \/ \E i \in DOMAIN rows : Disconnect(t, u, i)
        \/ \E i \in DOMAIN rows, expired \in BOOLEAN : Sync(t, u, i, expired)
  BY DEF Requests
<1>2. Home[u] \in Address BY CredentialsAssumption
<1>3. \A a \in Address, p \in Providers : <<a, p>> \in Pair BY DEF Pair
<1>4. "google" \in Providers /\ Imap \subseteq Providers BY DEF Providers
<1>5. rows \in [DOMAIN rows -> Mailbox] BY LenProperties DEF IInv, Typed
<1>6. \A i \in DOMAIN rows : <<rows[i].addr, rows[i].prov>> \in Pair
  <2> TAKE i \in DOMAIN rows
  <2>1. rows[i] \in Mailbox BY <1>5
  <2> QED BY <2>1 DEF Mailbox, Pair
<1>7. CASE GoogleSignIn(t, u)
  <2>1. Whole(SignInPlan(<<Home[u], "google">>)) BY <1>2, <1>3, <1>4, RequestPlans
  <2> QED BY <1>7, <2>1, BeginTruth DEF GoogleSignIn
<1>8. CASE DeleteAccount(t, u)
  <2>1. Whole(DeletePlan(u)) BY DeleteWhole
  <2> QED BY <1>8, <2>1, BeginTruth DEF DeleteAccount
<1>9. CASE WebCallback(t, u)
  <2>1. Whole(Store(<<Home[u], "google">>)) BY <1>2, <1>3, <1>4, RequestPlans
  <2> QED BY <1>9, <2>1, BeginTruth DEF WebCallback
<1>10. ASSUME NEW p \in Imap, ImapSignIn(t, u, p) PROVE TruthInv'
  <2> DEFINE x == <<Home[u], p>>
  <2>1. x \in Pair BY <1>2, <1>3, <1>4
  <2>2. Begin(t, "imapSignIn", u, NoRow, Store(x) \o Do("account", x) \o Ensure(x))
    BY <1>10 DEF ImapSignIn
  <2> HIDE DEF x
  <2>3. Whole(Store(x) \o Do("account", x) \o Ensure(x)) BY <2>1, RequestPlans
  <2> QED BY <2>2, <2>3, BeginTruth
<1>11. ASSUME NEW a \in Address, AddGoogle(t, u, a) PROVE TruthInv'
  <2> DEFINE x == <<a, "google">>
  <2>1. x \in Pair BY <1>3, <1>4
  <2>2. Begin(t, "addGoogle", u, NoRow, Ensure(x) \o Store(x))
    BY <1>11 DEF AddGoogle
  <2> HIDE DEF x
  <2>3. Whole(Ensure(x) \o Store(x)) BY <2>1, RequestPlans
  <2> QED BY <2>2, <2>3, BeginTruth
<1>12. ASSUME NEW a \in Address, NEW p \in Imap, AddImap(t, u, a, p) PROVE TruthInv'
  <2> DEFINE x == <<a, p>>
  <2>1. x \in Pair BY <1>3, <1>4
  <2>2. Begin(t, "addImap", u, NoRow, Store(x) \o Ensure(x))
    BY <1>12 DEF AddImap
  <2> HIDE DEF x
  <2>3. Whole(Store(x) \o Ensure(x)) BY <2>1, RequestPlans
  <2> QED BY <2>2, <2>3, BeginTruth
<1>13. ASSUME NEW i \in DOMAIN rows, Disconnect(t, u, i) PROVE TruthInv'
  <2> DEFINE x == <<rows[i].addr, rows[i].prov>>
  <2>1. x \in Pair BY <1>6
  <2>2. Begin(t, "disconnect", u, i, DisconnectPlan(x)) BY <1>13 DEF Disconnect
  <2> HIDE DEF x
  <2>3. Whole(DisconnectPlan(x)) BY <2>1, RequestPlans
  <2> QED BY <2>2, <2>3, BeginTruth
<1>14. ASSUME NEW i \in DOMAIN rows, NEW expired \in BOOLEAN, Sync(t, u, i, expired)
       PROVE  TruthInv'
  <2> DEFINE x == <<rows[i].addr, rows[i].prov>>
             p == Do("read", x) \o Do("fill", x) \o IF expired THEN Store(x) ELSE <<>>
  <2>1. x \in Pair BY <1>6
  <2>2. Begin(t, "sync", u, i, p) BY <1>14 DEF Sync
  <2> HIDE DEF x
  <2>3. Whole(p) BY <2>1, RequestPlans
  <2> HIDE DEF p
  <2> QED BY <2>2, <2>3, BeginTruth
<1> QED BY <1>1, <1>7, <1>8, <1>9, <1>10, <1>11, <1>12, <1>13, <1>14

-----------------------------------------------------------------------------
\* The store's own steps.

\* What another task is at does not change.
LEMMA OthersStay ==
  ASSUME NEW t \in Task, Hops(t), NEW s \in Task \ {t}
  PROVE  /\ \A d : Todo(s, d)' <=> Todo(s, d)
         /\ At(s)' = At(s)
<1>1. task'[s] = task[s] BY DEF Hops
<1> QED BY <1>1 DEF Todo, At

\* Only a task past its drop is at an erase.
LEMMA NoErase ==
  ASSUME IInv', NEW t \in Task, Clean(task'[t].plan)
  PROVE  ~(Todo(t, "erase")')
<1>1. task'[t].plan \in Seq(Part) BY DEF IInv, TasksFit, Request
<1>2. task'[t].plan # <<>> => Head(task'[t].plan) = task'[t].plan[1] BY <1>1
<1> QED BY <1>2 DEF Todo, Clean

\* A put leaves its request at the fill of the same pair.
LEMMA PutTruth ==
  ASSUME IInv, IInv', TruthInv, NEW t \in Task, PutStep(t)
  PROVE  TruthInv'
<1>0. task[t].plan # <<>> /\ Head(task[t].plan).do = "put" BY DEF PutStep, Todo
<1> PICK y \in Pair : y = At(t) BY <1>0, Here
<1>1. /\ task[t].plan # <<>> /\ Head(task[t].plan).do = "put"
      /\ Head(task[t].plan).at = y
      /\ cache' = cache /\ raced' = raced /\ Advance(t)
      /\ secret' = [secret EXCEPT ![y] = task[t].val]
  BY <1>0 DEF PutStep, Advance, At
<1>2. Hops(t) /\ Clean(task'[t].plan) BY <1>1, HoppedAhead DEF TruthInv
<1>3. /\ task[t].plan \in Seq(Part) /\ Tied(task[t].plan) /\ task[t] \in Request
  BY PlanSeq DEF TruthInv, TiedInv
<1>4. (Todo(t, "fill") /\ At(t) = y)'
  <2>1. /\ Tail(task[t].plan) # <<>> /\ Tail(task[t].plan)[1].do = "fill"
        /\ Tail(task[t].plan)[1].at = Head(task[t].plan).at
        /\ Tail(task[t].plan) \in Seq(Part)
    BY <1>1, <1>3, TailTied
  <2> DEFINE r == [task[t] EXCEPT !.plan = Tail(@)]
  <2>2. r.plan = Tail(task[t].plan) BY <2>1, <1>3, WithPlan
  <2>3. task' = [task EXCEPT ![t] = IF r.plan = <<>> THEN Idle ELSE r]
    BY <1>1 DEF Advance, Becomes
  <2> HIDE DEF r
  <2>4. task'[t] = r BY <2>1, <2>2, <2>3 DEF IInv, TasksFit
  <2>5. Head(Tail(task[t].plan)) = Tail(task[t].plan)[1] BY <2>1
  <2> QED BY <2>1, <2>2, <2>4, <2>5 DEF Todo, At
<1>5. EraseKnown'
  <2> SUFFICES ASSUME NEW s \in Task, Todo(s, "erase")'
               PROVE  (cache[At(s)] = NoGrant \/ At(s) \in raced)'
    BY DEF EraseKnown
  <2>1. s # t BY <1>2, NoErase
  <2>2. Todo(s, "erase") /\ At(s)' = At(s) BY <1>2, <2>1, OthersStay
  <2>3. cache[At(s)] = NoGrant \/ At(s) \in raced BY <2>2 DEF TruthInv, EraseKnown
  <2> QED BY <1>1, <2>2, <2>3
<1>6. CacheTellsTruth'
  <2> SUFFICES ASSUME NEW x \in Pair, x \notin raced',
                      \A s \in Task : ~(Todo(s, "fill") /\ At(s) = x)'
               PROVE  cache'[x] \in {NoGrant, secret'[x]}
    BY DEF CacheTellsTruth
  <2>1. x # y BY <1>4
  <2>2. \A s \in Task : ~(Todo(s, "fill") /\ At(s) = x)
    <3> SUFFICES ASSUME NEW s \in Task PROVE ~(Todo(s, "fill") /\ At(s) = x) OBVIOUS
    <3>1. CASE s = t BY <1>1, <3>1 DEF Todo
    <3>2. CASE s # t
      <4>1. ~(Todo(s, "fill")' /\ At(s)' = x) OBVIOUS
      <4> QED BY <1>2, <3>2, <4>1, OthersStay
    <3> QED BY <3>1, <3>2
  <2>3. cache[x] \in {NoGrant, secret[x]}
    BY <1>1, <2>2 DEF TruthInv, CacheTellsTruth
  <2> QED BY <1>1, <2>1, <2>3 DEF IInv, Typed
<1>7. TiedInv' BY <1>2 DEF TruthInv, TiedInv, Hops
<1> QED BY <1>5, <1>6, <1>7 DEF TruthInv

LEMMA PutFailsTruth ==
  ASSUME IInv, IInv', TruthInv, NEW t \in Task, PutFails(t)
  PROVE  TruthInv'
<1>1. /\ Todo(t, "put") /\ End(t)
      /\ secret' = secret /\ cache' = cache /\ raced' = raced
  BY DEF PutFails, stores
<1>2. ~Todo(t, "fill") BY <1>1 DEF Todo
<1> QED BY <1>1, <1>2, EndingSteps

\* A fill that is overtaken, or that an erase will overtake, is known to be.
LEMMA FillTruth ==
  ASSUME IInv, IInv', TruthInv, NEW t \in Task, FillStep(t)
  PROVE  TruthInv'
<1>0. task[t].plan # <<>> /\ Head(task[t].plan).do = "fill" BY DEF FillStep, Todo
<1> PICK y \in Pair : y = At(t) BY <1>0, Here
<1> DEFINE g == task[t].got
           r == [task[t] EXCEPT !.got = task[t].val, !.plan = Tail(@)]
<1>1. /\ Head(task[t].plan).at = y
      /\ secret' = secret /\ Becomes(t, r)
      /\ cache' = [cache EXCEPT ![y] = g]
      /\ raced' = IF secret[y] = g /\ ~Erasing(y) THEN raced \ {y} ELSE raced \cup {y}
  BY DEF FillStep, At
<1>2. /\ task[t].plan \in Seq(Part) /\ Tied(task[t].plan) /\ task[t] \in Request
  BY PlanSeq DEF TruthInv, TiedInv
<1>3. r.plan = Tail(task[t].plan) BY <1>2 DEF Request
<1> HIDE DEF r
<1>4. Tied(r.plan) /\ Clean(r.plan) BY <1>0, <1>2, <1>3, TailTied
<1>5. Hops(t) /\ Clean(task'[t].plan) BY <1>1, <1>4, Hopped
<1>6. cache \in [Pair -> Values] BY DEF IInv, Typed
<1>7. EraseKnown'
  <2> SUFFICES ASSUME NEW s \in Task, Todo(s, "erase")'
               PROVE  cache'[At(s)'] = NoGrant \/ At(s)' \in raced'
    BY DEF EraseKnown
  <2>1. s # t BY <1>5, NoErase
  <2>2. Todo(s, "erase") /\ At(s)' = At(s) BY <1>5, <2>1, OthersStay
  <2>3. cache[At(s)] = NoGrant \/ At(s) \in raced BY <2>2 DEF TruthInv, EraseKnown
  <2>4. CASE At(s) = y
    <3>1. Erasing(y) BY <2>2, <2>4 DEF Erasing
    <3> QED BY <1>1, <2>2, <2>4, <3>1
  <2>5. CASE At(s) # y
    <3>1. At(s) \in Pair
      <4>1. task[s].plan # <<>> BY <2>2 DEF Todo
      <4> QED BY <4>1, Here
    <3> QED BY <1>1, <1>6, <2>2, <2>3, <2>5, <3>1
  <2> QED BY <2>4, <2>5
<1>8. CacheTellsTruth'
  <2> SUFFICES ASSUME NEW x \in Pair, x \notin raced',
                      \A s \in Task : ~(Todo(s, "fill") /\ At(s) = x)'
               PROVE  cache'[x] \in {NoGrant, secret'[x]}
    BY DEF CacheTellsTruth
  <2>1. CASE x = y BY <1>1, <1>6, <2>1
  <2>2. CASE x # y
    <3>1. \A s \in Task : ~(Todo(s, "fill") /\ At(s) = x)
      <4> SUFFICES ASSUME NEW s \in Task PROVE ~(Todo(s, "fill") /\ At(s) = x) OBVIOUS
      <4>1. CASE s = t BY <2>2, <4>1
      <4>2. CASE s # t
        <5>1. ~(Todo(s, "fill")' /\ At(s)' = x) OBVIOUS
        <5> QED BY <1>5, <4>2, <5>1, OthersStay
      <4> QED BY <4>1, <4>2
    <3>2. x \notin raced BY <1>1, <2>2
    <3>3. cache[x] \in {NoGrant, secret[x]} BY <3>1, <3>2 DEF TruthInv, CacheTellsTruth
    <3> QED BY <1>1, <1>6, <2>2, <3>3
  <2> QED BY <2>1, <2>2
<1>9. TiedInv' BY <1>5 DEF TruthInv, TiedInv, Hops
<1> QED BY <1>7, <1>8, <1>9 DEF TruthInv

\* What the store's delete does to a pair keeps the cache honest about it.
LEMMA DropTruth ==
  ASSUME IInv, IInv', TruthInv, NEW t \in Task, DropStep(t)
  PROVE  TruthInv'
<1>0. task[t].plan # <<>> /\ Head(task[t].plan).do = "drop" BY DEF DropStep, Todo
<1> PICK y \in Pair : y = At(t) BY <1>0, Here
<1>1. /\ Head(task[t].plan).at = y
      /\ secret' = secret /\ Advance(t)
      /\ cache' = [cache EXCEPT ![y] = NoGrant]
      /\ raced' = IF cache'[y] = NoGrant THEN raced \ {y} ELSE raced
  BY DEF DropStep, CacheWithout, At
<1>2. cache \in [Pair -> Values] BY DEF IInv, Typed
<1>3. cache'[y] = NoGrant /\ \A x \in Pair \ {y} : cache'[x] = cache[x] BY <1>1, <1>2
<1>4. Hops(t) BY <1>0, <1>1, HoppedAhead DEF TruthInv
<1>5. Todo(t, "erase")' => At(t)' = y
  <2> SUFFICES ASSUME Todo(t, "erase")' PROVE At(t)' = y OBVIOUS
  <2> DEFINE r == [task[t] EXCEPT !.plan = Tail(@)]
  <2>1. /\ task[t].plan \in Seq(Part) /\ Tied(task[t].plan) /\ task[t] \in Request
    BY PlanSeq DEF TruthInv, TiedInv
  <2>2. Tail(task[t].plan) \in Seq(Part) BY <1>0, <2>1, TailTied
  <2>3. r.plan = Tail(task[t].plan) BY <2>1, <2>2, WithPlan
  <2>4. Becomes(t, r) BY <1>1 DEF Advance
  <2> HIDE DEF r
  <2>5. Tied(r.plan) BY <1>0, <2>1, <2>3, TailTied
  <2>6. task'[t] = IF r.plan = <<>> THEN Idle ELSE r BY <2>4, <2>5, Hopped
  <2>7. task'[t].plan # <<>> /\ Head(task'[t].plan).do = "erase" BY DEF Todo
  <2>8. task'[t] = r BY <2>6, <2>7 DEF Idle
  <2>9. Tail(task[t].plan) # <<>> /\ Head(Tail(task[t].plan)).do = "erase"
    BY <2>3, <2>7, <2>8
  <2>10. Head(Tail(task[t].plan)) = Tail(task[t].plan)[1] BY <2>2, <2>9
  <2>11. Tail(task[t].plan)[1].at = Head(task[t].plan).at
    BY <1>0, <2>1, <2>9, <2>10, TailTied
  <2> QED BY <1>1, <2>3, <2>8, <2>10, <2>11 DEF At
<1>6. EraseKnown'
  <2> SUFFICES ASSUME NEW s \in Task, Todo(s, "erase")'
               PROVE  cache'[At(s)'] = NoGrant \/ At(s)' \in raced'
    BY DEF EraseKnown
  <2>1. CASE s = t BY <1>3, <1>5, <2>1
  <2>2. CASE s # t
    <3>1. Todo(s, "erase") /\ At(s)' = At(s) BY <1>4, <2>2, OthersStay
    <3>2. cache[At(s)] = NoGrant \/ At(s) \in raced BY <3>1 DEF TruthInv, EraseKnown
    <3>3. At(s) \in Pair
      <4>1. task[s].plan # <<>> BY <3>1 DEF Todo
      <4> QED BY <4>1, Here
    <3> QED BY <1>1, <1>3, <3>1, <3>2, <3>3
  <2> QED BY <2>1, <2>2
<1>7. CacheTellsTruth'
  <2> SUFFICES ASSUME NEW x \in Pair, x \notin raced',
                      \A s \in Task : ~(Todo(s, "fill") /\ At(s) = x)'
               PROVE  cache'[x] \in {NoGrant, secret'[x]}
    BY DEF CacheTellsTruth
  <2>1. CASE x = y BY <1>3, <2>1
  <2>2. CASE x # y
    <3>1. \A s \in Task : ~(Todo(s, "fill") /\ At(s) = x)
      <4> SUFFICES ASSUME NEW s \in Task PROVE ~(Todo(s, "fill") /\ At(s) = x) OBVIOUS
      <4>1. CASE s = t BY <2>2, <4>1
      <4>2. CASE s # t
        <5>1. ~(Todo(s, "fill")' /\ At(s)' = x) OBVIOUS
        <5> QED BY <1>4, <4>2, <5>1, OthersStay
      <4> QED BY <4>1, <4>2
    <3>2. x \notin raced BY <1>1, <2>2
    <3>3. cache[x] \in {NoGrant, secret[x]} BY <3>1, <3>2 DEF TruthInv, CacheTellsTruth
    <3> QED BY <1>1, <1>3, <2>2, <3>3
  <2> QED BY <2>1, <2>2
<1>8. TiedInv' BY <1>4 DEF TruthInv, TiedInv, Hops
<1> QED BY <1>6, <1>7, <1>8 DEF TruthInv

LEMMA EraseTruth ==
  ASSUME IInv, IInv', TruthInv, NEW t \in Task, EraseStep(t)
  PROVE  TruthInv'
<1>0. /\ task[t].plan # <<>> /\ Head(task[t].plan).do = "erase"
      /\ Todo(t, "erase") /\ Advance(t) /\ cache' = cache
  BY DEF EraseStep, Todo
<1>1. Hops(t) /\ Clean(task'[t].plan) BY <1>0, HoppedAhead DEF TruthInv
<1>2. ~Todo(t, "fill") BY <1>0 DEF Todo
<1> PICK y \in Pair : y = At(t) BY <1>0, Here
<1>3. \/ /\ secret' = [secret EXCEPT ![y] = NoGrant]
         /\ raced' = IF cache[y] = NoGrant THEN raced \ {y} ELSE raced
      \/ secret' = secret /\ raced' = raced
  BY DEF EraseStep
<1>4. CASE secret' = secret /\ raced' = raced
  BY <1>0, <1>1, <1>2, <1>4, Harmless
<1>5. CASE /\ secret' = [secret EXCEPT ![y] = NoGrant]
           /\ raced' = IF cache[y] = NoGrant THEN raced \ {y} ELSE raced
  <2>1. cache[y] = NoGrant \/ y \in raced BY <1>0 DEF TruthInv, EraseKnown
  <2>2. secret'[y] = NoGrant /\ \A x \in Pair \ {y} : secret'[x] = secret[x]
    BY <1>5 DEF IInv, Typed
  <2>3. EraseKnown'
    <3> SUFFICES ASSUME NEW s \in Task, Todo(s, "erase")'
                 PROVE  cache'[At(s)'] = NoGrant \/ At(s)' \in raced'
      BY DEF EraseKnown
    <3>1. s # t BY <1>1, NoErase
    <3>2. Todo(s, "erase") /\ At(s)' = At(s) BY <1>1, <3>1, OthersStay
    <3>3. cache[At(s)] = NoGrant \/ At(s) \in raced BY <3>2 DEF TruthInv, EraseKnown
    <3> QED BY <1>0, <1>5, <3>2, <3>3
  <2>4. CacheTellsTruth'
    <3> SUFFICES ASSUME NEW x \in Pair, x \notin raced',
                        \A s \in Task : ~(Todo(s, "fill") /\ At(s) = x)'
                 PROVE  cache'[x] \in {NoGrant, secret'[x]}
      BY DEF CacheTellsTruth
    <3>1. CASE x = y BY <1>0, <1>5, <2>1, <3>1
    <3>2. CASE x # y
      <4>1. \A s \in Task : ~(Todo(s, "fill") /\ At(s) = x)
        <5> SUFFICES ASSUME NEW s \in Task PROVE ~(Todo(s, "fill") /\ At(s) = x) OBVIOUS
        <5>1. CASE s = t BY <1>2, <5>1
        <5>2. CASE s # t
          <6>1. ~(Todo(s, "fill")' /\ At(s)' = x) OBVIOUS
          <6> QED BY <1>1, <5>2, <6>1, OthersStay
        <5> QED BY <5>1, <5>2
      <4>2. x \notin raced BY <1>5, <3>2
      <4>3. cache[x] \in {NoGrant, secret[x]} BY <4>1, <4>2 DEF TruthInv, CacheTellsTruth
      <4> QED BY <1>0, <2>2, <3>2, <4>3
    <3> QED BY <3>1, <3>2
  <2>5. TiedInv' BY <1>1 DEF TruthInv, TiedInv, Hops
  <2> QED BY <2>3, <2>4, <2>5 DEF TruthInv
<1> QED BY <1>3, <1>4, <1>5

-----------------------------------------------------------------------------
\* The invariant.

LEMMA TruthInit ==
  ASSUME Init
  PROVE  TruthInv
<1>1. task = [t \in Task |-> Idle] /\ cache = [x \in Pair |-> NoGrant] BY DEF Init
<1>2. TiedInv BY <1>1, IdleTied DEF TiedInv
<1>3. EraseKnown BY <1>1 DEF EraseKnown, Todo, Idle
<1>4. CacheTellsTruth BY <1>1 DEF CacheTellsTruth
<1> QED BY <1>2, <1>3, <1>4 DEF TruthInv

LEMMA CrashTruth ==
  ASSUME Crash
  PROVE  TruthInv'
<1>1. task' = [t \in Task |-> Idle] /\ cache' = [x \in Pair |-> NoGrant] BY DEF Crash
<1>2. TiedInv' BY <1>1, IdleTied DEF TiedInv
<1>3. EraseKnown' BY <1>1 DEF EraseKnown, Todo, Idle
<1>4. CacheTellsTruth' BY <1>1 DEF CacheTellsTruth
<1> QED BY <1>2, <1>3, <1>4 DEF TruthInv

LEMMA NextTruth ==
  ASSUME IInv, TruthInv, [Next]_vars
  PROVE  TruthInv'
<1>1. IInv' BY NextKeeps
<1>2. ASSUME NEW t \in Task, Requests(t) PROVE TruthInv' BY <1>1, <1>2, RequestTruth
<1>3. ASSUME NEW t \in Task, Step(t) PROVE TruthInv'
  <2>1. CASE AccountStep(t) \/ SwitchStep(t) \/ TombstoneStep(t)
    BY <1>1, <2>1, PlainSteps
  <2>2. CASE PutStep(t) BY <1>1, <2>2, PutTruth
  <2>3. CASE FillStep(t) BY <1>1, <2>3, FillTruth
  <2>4. CASE ReadStep(t) BY <1>1, <2>4, ReadTruth
  <2>5. CASE DropStep(t) BY <1>1, <2>5, DropTruth
  <2>6. CASE EraseStep(t) BY <1>1, <2>6, EraseTruth
  <2>7. CASE FindStep(t) BY <1>1, <2>7, FindTruth
  <2>8. CASE ClaimStep(t) \/ AdmitStep(t) BY <1>1, <2>8, AdmissionSteps
  <2>9. CASE CommitStep(t) BY <1>1, <2>9, CommitTruth
  <2>10. CASE LoopStep(t) \/ SeverStep(t) BY <1>1, <2>10, DeletionTruth
  <2> QED BY <1>3, <2>1, <2>2, <2>3, <2>4, <2>5, <2>6, <2>7, <2>8, <2>9, <2>10 DEF Step
<1>4. ASSUME NEW t \in Task, PutFails(t) PROVE TruthInv' BY <1>1, <1>4, PutFailsTruth
<1>5. ASSUME NEW t \in Task, ReadFails(t) PROVE TruthInv' BY <1>1, <1>5, ReadFailsTruth
<1>6. CASE Crash BY <1>6, CrashTruth
<1>7. CASE UNCHANGED vars
  <2>1. task' = task /\ secret' = secret /\ cache' = cache /\ raced' = raced
    BY <1>7 DEF vars, stores
  <2> QED BY <2>1 DEF TruthInv, TiedInv, EraseKnown, CacheTellsTruth, Todo, At
<1> QED BY <1>2, <1>3, <1>4, <1>5, <1>6, <1>7 DEF Next

\* The cache answers what the durable store would, for any number of requests
\* in flight, unless its value was overtaken by another write (CacheTellsTruth).
THEOREM CacheTrue == Spec => []CacheTellsTruth
<1>1. Init => IInv /\ TruthInv BY InitInv, TruthInit
<1>2. (IInv /\ TruthInv) /\ [Next]_vars => (IInv /\ TruthInv)'
  BY NextKeeps, NextTruth
<1>3. IInv /\ TruthInv => CacheTellsTruth BY DEF TruthInv
<1> QED BY <1>1, <1>2, <1>3, PTL DEF Spec

=============================================================================
