----------------------------- MODULE Credentials -----------------------------
(***************************************************************************)
(* Connected mailboxes (services/mail_connections.py) and their secrets    *)
(* (auth/token_store.py): two stores with no common transaction.  A        *)
(* request is a plan, the sequence of its remaining steps; a step is the   *)
(* code between two awaits, or one call of the secret store, which runs in *)
(* a thread of its own.  Steps of different requests interleave, calls of  *)
(* the secret store may fail, and the process may die between any two.     *)
(***************************************************************************)
EXTENDS Integers, FiniteSets, SequencesExt

CONSTANTS
  User, Address,
  Home,        \* the address a user signs in with
  Imap,        \* app-password providers
  Serves,      \* providers that accept a login for an address
  Limit,       \* mailboxes the user's plan allows
  Task,        \* requests that may be in flight together
  Operations,  \* kinds of request that occur
  MaxRequests, \* bound on requests
  MaxMishaps   \* bound on failing calls of the secret store and on restarts

Providers == {"google"} \cup Imap
Pair == Address \X Providers

Operation == {"googleSignIn", "imapSignIn", "addGoogle", "addImap",
              "disconnect", "deleteAccount", "sync", "webCallback"}

ASSUME CredentialsAssumption ==
  /\ IsFiniteSet(Imap)
  /\ Home \in [User -> Address]
  /\ "google" \notin Imap
  /\ Serves \in [Address -> SUBSET Providers]
  /\ Limit \in [User -> Nat]
  /\ Operations \subseteq Operation /\ "nobody" \notin Task
  /\ MaxRequests \in Nat /\ MaxMishaps \in Nat

VARIABLES
  rows,     \* mail_connections: [user, addr, prov, live]; the index is the id
  account,  \* per user: "none", "live" or "deleted"
  secret,   \* the durable store, keyed by (address, provider)
  cache,    \* its write-through cache in the process
  lock,     \* who holds the lock on a users row
  task,     \* the requests in flight
  asked, mishaps,
  raced,    \* history: pairs whose cached value was overtaken by a write
  stray     \* history: ways in which a secret may have lost its row

stores == <<rows, account, secret, cache>>
vars == <<stores, lock, task, asked, mishaps, raced, stray>>

NoGrant == 0
Grant == 1 .. MaxRequests
Nobody == "nobody"
NoRow == 0
Idle == [op |-> "none", user |-> Nobody, row |-> NoRow, seen |-> "google",
         val |-> NoGrant, got |-> NoGrant, left |-> {}, purged |-> {}, plan |-> <<>>]

LiveRows(u) == {i \in DOMAIN rows : rows[i].live /\ rows[i].user = u}
Holds(x) == \E i \in DOMAIN rows :
  rows[i].live /\ <<rows[i].addr, rows[i].prov>> = x
LiveOn(a) == {i \in DOMAIN rows : rows[i].live /\ rows[i].addr = a}

Init ==
  /\ rows = <<>>
  /\ account \in [User -> {"none", "live"}]
  /\ secret = [x \in Pair |-> NoGrant] /\ cache = [x \in Pair |-> NoGrant]
  /\ lock = [u \in User |-> Nobody]
  /\ task = [t \in Task |-> Idle]
  /\ asked = 0 /\ mishaps = 0
  /\ raced = {} /\ stray = {}

-----------------------------------------------------------------------------
\* Plans.

Do(step, x) == <<[do |-> step, at |-> x]>>
Store(x) == Do("put", x) \o Do("fill", x)
Ensure(x) == Do("find", x) \o Do("claim", x) \o Do("admit", x) \o Do("commit", x)
Erase(x) == Do("drop", x) \o Do("erase", x)
EraseAll(a, P) ==
  [k \in 1 .. 2 * Cardinality(P) |->
     [do |-> IF k % 2 = 1 THEN "drop" ELSE "erase",
      at |-> <<a, SetToSeq(P)[(k + 1) \div 2]>>]]
\* _purge_superseded_credentials: every provider but the one just connected.
EraseOthers(x) == EraseAll(x[1], Providers \ {x[2]})

\* Bug: the row goes first, then its credential.
DisconnectRowFirst(x) == Do("tombstone", x) \o Erase(x)

DisconnectPlan(x) == Erase(x) \o Do("tombstone", x)

\* delete_account's list of connections, as they are when it is made.
Mailboxes(u) == {[id |-> i, at |-> <<rows[i].addr, rows[i].prov>>] : i \in LiveRows(u)}
PurgePlan(x) == Do("inspect", x) \o Do("fill", x) \o EraseAll(x[1], Providers)
DeletePlan(u) ==
  LET home == <<Home[u], "google">>
  IN  Do("loop", home) \o Do("sever", home)
        \o Do("backstop", home) \o Do("fill", home) \o EraseAll(Home[u], Providers)

Begin(t, op, u, r, plan) ==
  /\ task[t] = Idle
  /\ op \in Operations
  /\ asked < MaxRequests
  /\ asked' = asked + 1
  /\ task' = [task EXCEPT ![t] =
       [op |-> op, user |-> u, row |-> r, seen |-> "google", val |-> asked',
        got |-> asked', plan |-> plan,
        left |-> IF op = "deleteAccount" THEN Mailboxes(u) ELSE {},
        purged |-> IF op = "deleteAccount" THEN LiveRows(u) ELSE {}]]
  /\ UNCHANGED <<stores, lock, mishaps, raced, stray>>

\* The same on the phone and in the browser.
SignInPlan(x) == Do("account", x) \o Store(x) \o Ensure(x)

GoogleSignIn(t, u) ==
  /\ "google" \in Serves[Home[u]]
  /\ Begin(t, "googleSignIn", u, NoRow, SignInPlan(<<Home[u], "google">>))

ImapSignIn(t, u, p) ==
  LET x == <<Home[u], p>> IN
  /\ p \in Imap \cap Serves[Home[u]]
  /\ Begin(t, "imapSignIn", u, NoRow, Store(x) \o Do("account", x) \o Ensure(x))

\* The connection is recorded before the credential is stored.
AddGoogle(t, u, a) ==
  LET x == <<a, "google">> IN
  /\ account[u] = "live"
  /\ "google" \in Serves[a]
  /\ Begin(t, "addGoogle", u, NoRow, Ensure(x) \o Store(x))

\* The cap is looked at first, then the credential is verified and stored.
AddImap(t, u, a, p) ==
  LET x == <<a, p>> IN
  /\ account[u] = "live"
  /\ p \in Imap \cap Serves[a]
  /\ \/ \E i \in LiveRows(u) : rows[i].addr = a
     \/ Cardinality(LiveRows(u)) < Limit[u]
  /\ Begin(t, "addImap", u, NoRow, Store(x) \o Ensure(x))

Disconnect(t, u, i) ==
  /\ account[u] = "live"
  /\ i \in LiveRows(u)
  /\ Begin(t, "disconnect", u, i, DisconnectPlan(<<rows[i].addr, rows[i].prov>>))

DeleteAccount(t, u) ==
  /\ account[u] = "live"
  /\ Begin(t, "deleteAccount", u, NoRow, DeletePlan(u))

\* A reader gets the credential of a listed mailbox; a Google one that has
\* expired is refreshed and stored again (ensure_fresh).
Sync(t, u, i, expired) ==
  LET x == <<rows[i].addr, rows[i].prov>> IN
  /\ account[u] = "live"
  /\ i \in LiveRows(u)
  /\ expired => x[2] = "google"
  /\ Begin(t, "sync", u, i,
           Do("read", x) \o Do("fill", x) \o IF expired THEN Store(x) ELSE <<>>)

\* The legacy web flow writes a Google credential and no row.
WebCallback(t, u) ==
  /\ "google" \in Serves[Home[u]]
  /\ Begin(t, "webCallback", u, NoRow, Store(<<Home[u], "google">>))

-----------------------------------------------------------------------------
\* Steps.

Todo(t, step) == task[t].plan # <<>> /\ Head(task[t].plan).do = step
At(t) == Head(task[t].plan).at
Planned(t, step) == \E k \in DOMAIN task[t].plan : task[t].plan[k].do = step
Connecting == {"googleSignIn", "imapSignIn", "addGoogle", "addImap"}

\* The task's record becomes r; an exhausted plan ends the request.
Becomes(t, r) ==
  task' = [task EXCEPT ![t] = IF r.plan = <<>> THEN Idle ELSE r]
Skip(t, n) == SubSeq(task[t].plan, n + 1, Len(task[t].plan))
Advance(t) == Becomes(t, [task[t] EXCEPT !.plan = Tail(@)])
End(t) == task' = [task EXCEPT ![t] = Idle]
Release(t) == lock' = [u \in User |-> IF lock[u] = t THEN Nobody ELSE lock[u]]

Fault == mishaps < MaxMishaps /\ mishaps' = mishaps + 1

\* A disconnect or a deletion of a mailbox on the address is in flight.
Removing(t, a) == \E s \in Task \ {t} :
  /\ task[s].op \in {"disconnect", "deleteAccount"}
  /\ \/ \E k \in DOMAIN task[s].plan : task[s].plan[k].at[1] = a
     \/ \E i \in task[s].purged : rows[i].addr = a

\* A request ends without the mailbox whose credential it has stored.
Drop(t) ==
  /\ End(t) /\ Release(t)
  /\ stray' = stray \cup {x \in {At(t)} : ~Planned(t, "put") /\ ~Holds(x)}

\* get_or_create_user; reactivating a deleted user waits for its row lock.
AccountStep(t) ==
  /\ Todo(t, "account")
  /\ LET u == task[t].user IN
       /\ account[u] = "deleted" => lock[u] = Nobody
       /\ account' = [account EXCEPT ![u] = "live"]
  /\ Advance(t)
  /\ UNCHANGED <<rows, secret, cache, lock, asked, mishaps, raced, stray>>

\* SecretManagerTokenStore.store up to its cache write.
PutStep(t) ==
  /\ Todo(t, "put")
  /\ LET x == At(t)
         late == ~Planned(t, "find") /\ ~Holds(x)
     IN
       /\ secret' = [secret EXCEPT ![x] = task[t].val]
       /\ stray' = stray \cup {y \in {x} : late \/ Removing(t, x[1])}
       /\ Becomes(t, [task[t] EXCEPT !.plan = Tail(@)])
  /\ UNCHANGED <<rows, account, cache, lock, asked, mishaps, raced>>

\* TokenStoreError: the request fails.
PutFails(t) ==
  /\ Todo(t, "put") /\ Fault
  /\ End(t) /\ Release(t)
  /\ UNCHANGED <<stores, asked, raced, stray>>

Erasing(x) == \E t \in Task : Todo(t, "erase") /\ At(t) = x

\* The end of store and of get: the credential enters the cache.
FillStep(t) ==
  /\ Todo(t, "fill")
  /\ cache' = [cache EXCEPT ![At(t)] = task[t].got]
  /\ raced' = IF secret[At(t)] = task[t].got /\ ~Erasing(At(t)) THEN raced \ {At(t)}
              ELSE raced \cup {At(t)}
  /\ Becomes(t, [task[t] EXCEPT !.got = task[t].val, !.plan = Tail(@)])
  /\ UNCHANGED <<rows, account, secret, lock, asked, mishaps, stray>>

\* SecretManagerTokenStore.get: a cached credential is not read again.
ReadStep(t) ==
  /\ Todo(t, "read") \/ Todo(t, "inspect") \/ Todo(t, "backstop")
  /\ LET x == At(t) IN
       \/ /\ cache[x] = NoGrant /\ secret[x] # NoGrant
          /\ Becomes(t, [task[t] EXCEPT !.got = secret[x], !.plan = Tail(@)])
       \/ /\ cache[x] # NoGrant \/ (secret[x] = NoGrant /\ ~Todo(t, "read"))
          /\ Becomes(t, [task[t] EXCEPT !.plan = Skip(t, 2)])
       \/ /\ cache[x] = NoGrant /\ secret[x] = NoGrant /\ Todo(t, "read")
          /\ End(t)                                 \* ReauthRequired
  /\ UNCHANGED <<stores, lock, asked, mishaps, raced, stray>>

\* A read fails: the sync ends, the deletion leaves that mailbox live, and
\* its backstop ends with the error.
ReadFails(t) ==
  /\ \/ /\ Todo(t, "read") \/ Todo(t, "backstop")
        /\ End(t)
     \/ /\ Todo(t, "inspect")
        /\ Becomes(t, [task[t] EXCEPT
                        !.plan = Skip(t, 2 + 2 * Cardinality(Providers)),
                        !.purged = {i \in @ : rows[i].addr # At(t)[1]}])
  /\ cache[At(t)] = NoGrant
  /\ Fault
  /\ UNCHANGED <<stores, lock, asked, raced, stray>>

\* Bug: the cache keeps what the store forgets.
CacheAfterErase(x) == cache

CacheWithout(x) == [cache EXCEPT ![x] = NoGrant]

\* SecretManagerTokenStore.delete forgets the cached credential first...
DropStep(t) ==
  /\ Todo(t, "drop")
  /\ cache' = CacheWithout(At(t))
  /\ raced' = IF cache'[At(t)] = NoGrant THEN raced \ {At(t)} ELSE raced
  /\ Advance(t)
  /\ UNCHANGED <<rows, account, secret, lock, asked, mishaps, stray>>

\* ... and then deletes; a failure is logged and swallowed.
EraseStep(t) ==
  /\ Todo(t, "erase")
  /\ LET x == At(t) IN
       \/ /\ secret' = [secret EXCEPT ![x] = NoGrant]
          /\ raced' = IF cache[x] = NoGrant THEN raced \ {x} ELSE raced
          /\ stray' = stray \ {x}
          /\ UNCHANGED mishaps
       \/ /\ Fault
          /\ stray' = stray \cup {y \in {x} : secret[y] # NoGrant}
          /\ UNCHANGED <<secret, raced>>
  /\ Advance(t)
  /\ UNCHANGED <<rows, account, cache, lock, asked>>

-----------------------------------------------------------------------------
\* ensure_connection.

\* Lines 110-123: the user's row of the address, any one of them.
FindStep(t) ==
  /\ Todo(t, "find")
  /\ LET x == At(t)
         u == task[t].user
         mine == {i \in DOMAIN rows : rows[i].user = u /\ rows[i].addr = x[1]}
     IN
       \/ /\ mine = {}
          /\ Advance(t)
       \/ \E i \in mine :
            /\ ~rows[i].live
            /\ Becomes(t, [task[t] EXCEPT !.row = i, !.seen = rows[i].prov,
                                          !.plan = Tail(@)])
       \/ \E i \in mine :
            /\ rows[i].live
            /\ Becomes(t, [task[t] EXCEPT !.row = i, !.plan =
                 IF rows[i].prov = x[2] THEN Skip(t, 4)
                 ELSE Do("switch", x) \o EraseOthers(x) \o Skip(t, 4)])
  /\ UNCHANGED <<stores, lock, asked, mishaps, raced, stray>>

SwitchStep(t) ==
  /\ Todo(t, "switch")
  /\ rows' = [rows EXCEPT ![task[t].row].prov = At(t)[2]]
  /\ stray' = stray \cup {y \in {At(t)} : Removing(t, y[1]) \/ ~rows[task[t].row].live}
  /\ Advance(t)
  /\ UNCHANGED <<account, secret, cache, lock, asked, mishaps, raced>>

\* Lines 133-141: MailboxAlreadyConnected if another user holds the address.
ClaimStep(t) ==
  /\ Todo(t, "claim")
  /\ IF \E i \in LiveOn(At(t)[1]) : rows[i].user # task[t].user
     THEN Drop(t)
     ELSE Advance(t) /\ UNCHANGED <<lock, stray>>
  /\ UNCHANGED <<stores, asked, mishaps, raced>>

\* Bug: the user's row is not locked.
AdmitUnlocked(t) == UNCHANGED lock

TakeLock(t) == lock' = [lock EXCEPT ![task[t].user] = t]

\* Lines 152-158: the user's row is locked, then its mailboxes are counted.
AdmitStep(t) ==
  /\ Todo(t, "admit")
  /\ LET u == task[t].user IN
       /\ lock[u] = Nobody
       /\ IF Cardinality(LiveRows(u)) >= Limit[u]
          THEN Drop(t)
          ELSE TakeLock(t) /\ Advance(t) /\ UNCHANGED stray
  /\ UNCHANGED <<stores, asked, mishaps, raced>>

\* Bug: no unique index on the live rows of an address.
NeverTaken(t) == FALSE

\* uq_mail_connections_email_live refuses the row.
Taken(t) == \E i \in LiveOn(At(t)[1]) : i # task[t].row

\* Lines 160-187: revive the row read at first, or insert one; a lost insert
\* takes the winner's row, if it is the user's own.
CommitStep(t) ==
  /\ Todo(t, "commit")
  /\ LET x == At(t)
         u == task[t].user
         r == task[t].row
         new == [user |-> u, addr |-> x[1], prov |-> x[2], live |-> TRUE]
         established ==
           /\ Release(t)
           /\ Becomes(t, [task[t] EXCEPT !.plan = EraseOthers(x) \o Tail(@)])
           /\ stray' = stray \cup {y \in {x} : Removing(t, y[1])}
     IN
       \/ /\ ~Taken(t) /\ r = NoRow
          /\ rows' = Append(rows, new)
          /\ established
       \/ /\ ~Taken(t) /\ r # NoRow
          /\ rows' = [rows EXCEPT ![r].live = TRUE,
                        ![r].prov = IF x[2] = task[t].seen THEN @ ELSE x[2]]
          /\ established
       \/ /\ Taken(t)
          /\ UNCHANGED rows
          /\ IF r = NoRow /\ LiveOn(x[1]) \subseteq LiveRows(u)
             THEN /\ Release(t) /\ Advance(t)
                  /\ stray' = stray \cup {y \in {x} : ~Holds(y)}
             ELSE Drop(t)
  /\ UNCHANGED <<account, secret, cache, asked, mishaps, raced>>

\* The last step of remove_connection.
TombstoneStep(t) ==
  /\ Todo(t, "tombstone")
  /\ rows' = [rows EXCEPT ![task[t].row].live = FALSE]
  /\ Advance(t)
  /\ UNCHANGED <<account, secret, cache, lock, asked, mishaps, raced, stray>>

\* The loop of delete_account, over its list in the order of creation.
LoopStep(t) ==
  /\ Todo(t, "loop")
  /\ \/ /\ task[t].left = {}
        /\ Advance(t)
     \/ \E m \in task[t].left :
          /\ \A n \in task[t].left : m.id <= n.id
          /\ Becomes(t, [task[t] EXCEPT !.left = @ \ {m}, !.plan = PurgePlan(m.at) \o @])
  /\ UNCHANGED <<stores, lock, asked, mishaps, raced, stray>>

\* Bug: the mailboxes' rows are deleted, not marked: an id may name no row.
Removed(purged) == [i \in DOMAIN rows \ purged |-> rows[i]]

Marked(purged) ==
  [i \in DOMAIN rows |-> IF i \in purged THEN [rows[i] EXCEPT !.live = FALSE] ELSE rows[i]]

\* delete_account's transaction: only the mailboxes that were purged go.
SeverStep(t) ==
  /\ Todo(t, "sever")
  /\ LET u == task[t].user IN
       /\ lock[u] = Nobody
       /\ account' = [account EXCEPT ![u] = "deleted"]
       /\ rows' = Marked(task[t].purged)
  /\ Becomes(t, [task[t] EXCEPT !.purged = {}, !.plan = Tail(@)])
  /\ UNCHANGED <<secret, cache, lock, asked, mishaps, raced, stray>>

\* The process dies: its memory, its requests and its locks go with it.
Crash ==
  /\ Fault
  /\ LET lost(x) == \E t \in Task :
           /\ task[t].op \in Connecting
           /\ \E k \in DOMAIN task[t].plan :
                /\ task[t].plan[k].at = x
                /\ task[t].plan[k].do \in {"account", "find", "claim", "admit",
                                           "commit", "switch", "erase"}
     IN  stray' = stray \cup {x \in Pair : lost(x) /\ secret[x] # NoGrant}
  /\ task' = [t \in Task |-> Idle]
  /\ lock' = [u \in User |-> Nobody]
  /\ cache' = [x \in Pair |-> NoGrant]
  /\ raced' = {}
  /\ UNCHANGED <<rows, account, secret, asked>>

Requests(t) ==
  \E u \in User :
    \/ GoogleSignIn(t, u) \/ DeleteAccount(t, u) \/ WebCallback(t, u)
    \/ \E p \in Imap : ImapSignIn(t, u, p)
    \/ \E a \in Address : AddGoogle(t, u, a)
    \/ \E a \in Address, p \in Imap : AddImap(t, u, a, p)
    \/ \E i \in DOMAIN rows : Disconnect(t, u, i)
    \/ \E i \in DOMAIN rows, expired \in BOOLEAN : Sync(t, u, i, expired)

Step(t) ==
  \/ AccountStep(t) \/ PutStep(t) \/ FillStep(t) \/ ReadStep(t) \/ DropStep(t) \/ EraseStep(t)
  \/ FindStep(t) \/ SwitchStep(t) \/ ClaimStep(t) \/ AdmitStep(t) \/ CommitStep(t)
  \/ TombstoneStep(t) \/ LoopStep(t) \/ SeverStep(t)

Next ==
  \/ \E t \in Task : Requests(t) \/ Step(t) \/ PutFails(t) \/ ReadFails(t)
  \/ Crash

Spec == Init /\ [][Next]_vars

-----------------------------------------------------------------------------
\* Properties.

Quiet(a) == \A t \in Task :
  /\ \A k \in DOMAIN task[t].plan : task[t].plan[k].at[1] # a
  /\ \A m \in task[t].left : m.at[1] # a

\* Types of the state; a request's row exists.
TypeOK ==
  /\ \A t \in Task : task[t].row \in DOMAIN rows \cup {NoRow}
  /\ rows \in Seq([user : User, addr : Address, prov : Providers, live : BOOLEAN])
  /\ account \in [User -> {"none", "live", "deleted"}]
  /\ secret \in [Pair -> Grant \cup {NoGrant}]
  /\ cache \in [Pair -> Grant \cup {NoGrant}]
  /\ lock \in [User -> Task \cup {Nobody}]
  /\ \A t \in Task : task[t].op \in Operation \cup {"none"}
  /\ raced \subseteq Pair /\ stray \subseteq Pair

\* The plan's cap holds whatever adds, revivals and sign-ins of a user run at
\* once (ensure_connection's lock on the user).
CapKept == \A u \in User : Cardinality(LiveRows(u)) <= Limit[u]

\* An address is one account's mailbox at a time, although the check for
\* another holder and the insert are separate (mail_connections.py:125-141).
OneHolder == \A i, j \in DOMAIN rows :
  rows[i].live /\ rows[j].live /\ rows[i].addr = rows[j].addr => i = j

\* When no request is at work on an address, a credential kept for it without
\* a live mailbox has lost its row in one of the known ways: the store failed
\* to delete it, its request was refused or died after storing it, it was
\* stored by a request that connects nothing, or while the mailbox was being
\* removed.  Disconnecting and deleting leave none behind by themselves.
StrayIsExplained == \A x \in Pair :
  Quiet(x[1]) /\ secret[x] # NoGrant /\ ~Holds(x) => x \in stray

\* The cache answers what the durable store would, unless the value it was
\* given had been overtaken by another write (token_store.py:127-159).
CacheTellsTruth == \A x \in Pair :
  /\ x \notin raced
  /\ \A t \in Task : ~(Todo(t, "fill") /\ At(t) = x)
  => cache[x] \in {NoGrant, secret[x]}

\* remove_connection's and delete_account's promise: once a mailbox is gone
\* and nothing is at work on its address, its credential is gone.
RemovalDestroys == \A x \in Pair :
  Quiet(x[1]) /\ ~Holds(x) /\ (\E i \in DOMAIN rows : <<rows[i].addr, rows[i].prov>> = x)
    => secret[x] = NoGrant

\* "A rejected request must leave the world untouched": a credential of a live
\* mailbox is replaced only by its own user's requests.
OthersUntouched ==
  [][\A x \in Pair : \A i \in DOMAIN rows :
       /\ rows[i].live /\ <<rows[i].addr, rows[i].prov>> = x
       /\ secret'[x] # secret[x]
       => \E t \in Task : task[t].user = rows[i].user /\ task'[t] # task[t]]_vars
=============================================================================
