# Mamaflow: a verification project

TLA+ models of the parts of this repository that run concurrently, fail halfway or
retry, the TLC runs that check them on small instances, and TLAPS proofs of their
central properties for every value of the constants. Paths below are relative to
`backend/api/` unless they start with `frontend/`.

## 1. The system

Mamaflow reads a family's mailboxes, has a language model extract events and actions
from the mail, and shows them in an app. One backend process (FastAPI, an in-process
scheduler) serves the app; PostgreSQL keeps users, mailboxes, items and bookkeeping;
credentials live in a separate secret store.

| Component | State | Operations | What is hard | What makes it correct |
|---|---|---|---|---|
| **Sync job** (`services/sync_runner.py`, `items.py`, `extraction_budget.py`, `db/reset_failed_messages.py`) | `synced_messages`, `items`, `extraction_usage_daily`; the run's local counters | one run over all mailboxes of a user: list, dedup, batch, classify, fetch, gate, extract, persist, mark; the per-message error handler; the reset script | crash between two commits, failing statements, rollbacks that expire loaded rows, retries, caps and budgets shared by mailboxes, lost credentials in mid-run | nothing with a verdict is sent again; retries and spending are bounded; every mail is settled in the end, for all that other messages and mailboxes do |
| **Sync gate** (`services/sync_state.py`, `routers/sync.py`, `services/auto_sync.py`, `frontend/lib/items/sync_service.dart`) | the in-process registry of runs; queued and running jobs; the tick; the polling app | `try_start`, `progress`, `finish`, `fail`, POST and GET of the sync endpoint, the hourly tick | button against tick, job queued behind a response, restart, polling of somebody else's run | one run per user; nobody locked out; a cooldown between runs; the app reports its own run |
| **Mail readers** (`mail_reader.py`, `gmail_reader.py`, `imap_reader.py`) | a short hand-off between two IMAP passes | ids, headers, bodies | three passes over a changing mailbox, provider-specific ids and orders, errors of two kinds | the passes agree on the mails and their order |
| **Extraction and its gates** (`ai_extractor.py`, `extraction_gate.py`, `sender_blocklist.py`) | the block and allow lists | classify a sender, test for a signal, extract, classify a failure | which failures are worth another try | verdicts that are final are right |
| **Credentials and mailboxes** (`auth/token_store.py`, `google_token.py`, `mail_connections.py`, `account.py`, `users.py`, `auth/imap_auth.py`, `auth/oauth.py`, `routers/account.py`) | secret store keyed by (address, provider) and its cache; connection rows; users | two sign-ins, two ways to add a mailbox, refresh, disconnect, delete the account, the legacy web flow | two stores with no common transaction, order of writes, swallowed deletes, calls in threads, refresh against delete | no credential without a row that shows it, but for known causes; one holder per address; the mailbox cap; the cache agrees with the store |
| **Households and plans** (`households.py`, `entitlements.py`) | household, invitations, membership | invite, accept, revoke, leave, remove, dissolve, reactivate | concurrent accepts, revocation, dissolution under a running accept | one use per code, the member cap, revocation is final, no sharing without consent |
| **Sign-in throttle** (`auth_throttle.py`) | two bounded maps of time stamps | check, record a failure, record a success | counting after an await, eviction | limits hold but for what was let through together |
| **Reminders and devices** (`reminder_scheduler.py`, `reminders.py`, `push_sender.py`, `devices.py`, `frontend/lib/push`) | devices, `last_reminder_date`; the phone's session and token | hourly tick, send, prune, register, unregister, rotate | swallowed sends, one phone that changes hands, calls that overtake each other | at most one digest a day; nobody skipped; the phone is registered for its reader |
| **Google sign-in** (`frontend/lib/auth`, `auth/oauth.py`) | the stored PKCE record, the app's process, the server's pending states | obtain a code, recover after a kill, exchange; browser login and callback | the app is killed behind the consent page, several attempts share one record and one scheme, evicted states | each code is posted once, with its own verifier; an interrupted sign-in completes; a recent login is not evicted |

How they meet: the button (`POST /sync`) and the tick both ask the gate, then run
the job; the job reads credentials through the readers, writes the tables and
reports to the gate; the app polls the gate. Account operations change the
mailboxes, credentials and users under a running job. Deleting an account ends its
household, its devices and its mailboxes. The throttle guards app-password logins
and join codes alike. The operator's reset script edits the job's markers from
another process at any time.

`PROJECT.json` lists every hazard of this kind at its line, with the property that
watches it, or the reason why none does.

## 2. The modules

    MessageLedger                    what the job promises about each message id
         ^ implemented by
    SyncRun     <- MCSyncRun         the job, step by step          SyncRunProofs
    SyncGate    <- MCSyncGate        who may run it, and when       SyncGateProofs
    Credentials <- MCCredentials     mailboxes and their secrets    CredentialsProofs
                                                                    CredentialsCacheProofs
                                                                    CredentialsStrayProofs
    AuthThrottle
         ^ extended by
    Households  <- MCHouseholds      sharing a plan and a calendar  HouseholdsProofs
    Digests     <- MCDigests         the evening digest, the phone  DigestsProofs
    GoogleSignIn                     codes, verifiers and states    GoogleSignInProofs

### MessageLedger
Two variables: a verdict per message id (`pending`, `done`, `givenUp`) and the
number of requests sent for it. Only pending ids are sent; `done` is final;
`givenUp` is undone only by the reset. Mailboxes, batches, sessions and crashes do
not exist here.

### SyncRun
One user's job. An action is the code between two points where the process can be
interrupted: a commit or an outside call. `pc` is the place in the code:

| `pc` | code | actions |
|---|---|---|
| `idle` | no run | `StartRun` |
| `list` | top of the loop over mailboxes | `SelectBatch`, `FinishRun`, `StaleMailbox`, `SkipMailbox`, `UnusableToken`, `ReaderError` |
| `headers` | `fetch_metadata`, `_classify`, `mark_messages_blocked` | `ClassifyBatch`, `ClassifyFails`, and the reader's errors |
| `bodies` | `fetch_message_bodies` | `FetchBodies`, and the reader's errors |
| `message` | top of the loop over messages | `GateSkip`, `GateSkipFails`, `CheckBudget`, `BudgetExhausted`, `BudgetFails`, `FinishMailbox` |
| `call` | redaction and the request | `Extract`, `ExtractFatal`, `RedactFails` |
| `record`, `persist`, `mark` | `record_call`, `persist_items`, `mark_message_synced` | `RecordCall`, `PersistItems`, `PersistFails`, `MarkDone`, `MarkFails` |
| `handle` | the per-message `except` | `HandleFailure`, `HandlerFails` |
| `stop` | budget or breaker ended the run | `FinishRun` |

`row`, `kind` and `attempts` are the `synced_messages` row of an id; `row = "dead"`
is a row with `deleted_at` set, which the queries do not see and the unique
constraint does. `stale` and `userStale` say that a rollback expired the rows of the
mailboxes or of the user, so that reading an attribute outside an await raises. `tx`
says whether a rollback would expire anything (a rollback with no transaction open
does not). `taken` is `totals.processed`: it is only read between mailboxes, so
counting as the loop goes is the same as adding at its end.

`cred` tells apart how a mailbox has lost its credential, because the readers do. A
`revoked` one ends in `ReauthRequired` and the mailbox is skipped. One that is
`absent` does so for IMAP only; the Gmail reader raises `ValueError`. A Gmail
credential that is `cutOff`, granted in the browser or revoked before its access
token expired, is passed on as it is by `ensure_fresh`, and the API call that uses it
raises `RefreshError`. The latter two (`Unskippable`) fail the run (`UnusableToken`);
`TokenExpires` turns a `cutOff` credential of the mobile app into a `revoked` one.

Around the job: mail arrives, a sender is added to the blocklist, a credential is
lost in one of these ways, a day begins, the reset script runs, the process crashes;
each of them between any two steps. `Fault` is a failing statement, a provider or a
network error; faults, crashes and resets are counted and bounded by constants.
History variables: `calls` counts requests, `judged` holds the ids whose verdict was
reached on the real body. The batch is worked off oldest first for Gmail and newest
first for IMAP (`IsNext`), because the loop follows the order of the reader's
answer.

A mail is a number (order of arrival) with its mailbox, its letter (the Message-ID,
so two mails may be copies of one letter), and whether its subject or body passes
the signal gate.

### SyncGate
The registry's calls run between two awaits, so each is one step. `since` is the
registry's completion time as an age, capped at the cooldown, `Never` if there is
none. `rest` is the time since the user's last job ended, kept by the model itself and
across restarts; `forgot` holds the users of whose last job's end the process has no
memory. `queued` is
a job handed to FastAPI's `BackgroundTasks` whose response is not out yet; `jobs`
counts running jobs. `awaited` is the job the tick waits for. The app's side is
`client` and `polls`. `ChangeActive` and `ChangeConnected` let users sign in, become
dormant, delete the account, connect and disconnect at any time.

### Credentials
A request is a plan, the sequence of its remaining steps, so that every order of
steps of two requests is a behaviour and the order of writes within one can be read
off its plan: `Store(x) \o Ensure(x)` is the app-password path, `Ensure(x) \o
Store(x)` adding a Google mailbox. A step is the code between two awaits, or one
call of the secret store, which runs in a thread.

| step | code |
|---|---|
| `account` | `get_or_create_user` |
| `put`, `fill` | `SecretManagerTokenStore.store`: the new version, then the cache |
| `read`, `fill` | `get`: a cached value is not read again; then the cache |
| `find`, `claim`, `admit`, `commit`, `switch` | the five stretches of `ensure_connection` between its queries and commits |
| `drop`, `erase` | `delete`, of one provider: the cache, then the secret; its failure is swallowed |
| `loop` | the loop of `delete_account` over the mailboxes it listed (`left`), oldest first: puts the purge of one before the rest of the plan |
| `inspect`, `backstop` | the reads of `delete_account` that decide what is purged and whether it may go on |
| `tombstone` | the commit of `remove_connection` |
| `sever` | the one transaction of `delete_account`: only purged mailboxes go |

`lock` is the `FOR UPDATE` on the user's row, taken by `admit`, by `delete_account`
and by reactivation. Values in the store are request numbers, so that an old grant
and a newer one differ. Two history variables name causes: `raced` are the cached
values another write overtook, `stray` the ways in which a credential may have been
left without its mailbox; each is set at the step where the code lets it happen, and
`StrayIsExplained` says there is no other.

### AuthThrottle and Households
`AuthThrottle` is the state and the operators of the two maps; `Households` calls
them where the endpoints do. A key's stamps are a count: all that `check` looks at
is how many lie in the window, and `Age` lets the oldest leave. Keys keep the order
of insertion and the first is evicted, as a Python dict does.

In `Households` a request reads its user when it starts (`was`) and takes one step
per stretch between awaits. The locks of `accept_invite` are held by being at a
place: the invitation's from `house` to the end of `join`, the household's at
`join`. A writer of those rows waits for them (`Mint`, `Revoke`, `Dissolve`). `open`
and `whom` are what `create_invite` and `dissolve_or_leave` have read and will
write: a row that has changed in between is written all the same. `consent` is the
history that sharing is measured against: the household a user last founded, or
joined with a code, since being deleted or released.

### Digests
The server's tables, one phone and the tick. The phone's calls are a set: any of
them may be served next, be lost, or be given up by a phone that goes on. A call
carries the account of the session that sent it. `phone.starting` counts the
`start()`s that wait for a token and `phone.leaving` the unregistration that
`signOut` awaits. `register_device` and `unregister_device` are two steps each,
because their selects and their commits are. A registration keeps the row it has
read (`row`); as the ORM does, its commit writes only the columns that differ from
it, and inserts when there was none, which the unique index refuses if another
request was first (`RegistrationConflicts`). Two histories say which registrations
are promised to take effect: `clean`, set when a call reads the row while no call of
an earlier session is under way, and `tidy`, the session's registration was stored
and clean. The tick lists its users, and takes, sends and notes each of them; its
session is per user and its failure is logged.

### GoogleSignIn
The app's process may be killed at any step: what its futures held is gone, the
stored record and the session survive, and a post that has left still arrives. A
redirect reaches every future that waits for the scheme, or launches the app with
its link; launching the app again may show the same link again. An attempt's number
stands for its verifier, its challenge and its state, so that a code and a verifier
match if they are of one attempt. The server's pending states of the browser flow
are beside it, with their eviction and restarts; `closed` is the history of the logins
whose callback has come or that a restart has forgotten.

### Operators that a specification does not use
Operators with a comment "Bug:" are not used by any specification. Each is a
plausible mistake in the definition that follows it; `PROJECT.json` pairs it with
the property that such a mistake violates, which shows that the property is not true
by construction.

## 3. The runs

Runs that pass:

| Run | Bounds | Shows |
|---|---|---|
| `SyncUnderFaults` | 3 mails, 2 in a Gmail and 1 in an IMAP mailbox, cap 2, budget 1, 1 attempt, at most 4 requests per message, 1 fault, 1 crash, 1 reset, lost bodies, one blocked sender and a growing blocklist | the ledger, bounded calls and the budget with everything that may go wrong together |
| `SyncSettles` | 3 mails in the same mailboxes, cap 2, budget 1, 2 attempts, breaker 2, credentials revoked or cut off, fairness | runs end; mail of a mailbox that keeps its credential is settled, unless a Gmail mailbox before it fails every run; "sign in again" only when all mailboxes are lost; the shared cap; bounded calls; the ledger |
| `GateBehaviour` | 2 users, cooldown 1, 1 poll, 1 restart, fairness | one run, no phantom run, fresh outcome, a cooldown after every run whose end the process remembers; a user is synced over and over |
| `Credentials` | 2 users, 2 addresses, 2 providers, cap 1, 3 requests, 2 at a time, 1 failing call or restart | the cap, one holder per address, no unexplained stray credential, a truthful cache |
| `Households` | 3 users, one family plan, 4 requests, 2 at a time, 2 attempts per client, 1 failure per mailbox, 2 keys per map | the member cap, single use, revocation, consent after deletion and return, the throttle |
| `Digests` | 2 users, 1 phone with 2 tokens, 3 calls, 2 sign-ins, 2 ticks, 1 mishap | one digest a day, nobody skipped, the phone registered for its reader, whichever calls come between the two steps of a registration |
| `GoogleSignIn` | 3 attempts, 2 kills, 3 browser logins, room for 2 states, fairness | codes posted once with their verifier, interrupted sign-ins complete, only old browser logins make room |

Why the bounds are enough:

- *Sync.* Three mails in two mailboxes with a cap of two are the smallest backlog
  that needs a second run and in which one mailbox may use up what the other needs.
  A budget of one is reached in mid-batch. In `SyncUnderFaults` one attempt is
  enough to reach the retry bound; the fault and the crash may strike at any of the
  steps, alone and together, and `MaxCalls` = 4 leaves room for the request beyond
  the three that the bound then allows. After a reset, where requests have no bound
  (`FindReset`), it cuts the fifth. No credential is lost in it; `SyncSettles` has
  that, with batches of two that can both fail: two attempts and a breaker of two
  distinguish "failed once", "reached" and "reset in between", and `MaxCalls` = 9 is
  never reached. The windows are as large as the inboxes: a mail that leaves the
  window before its turn is not promised anything, and the code's window (500) is
  ten times its cap.
- *Gate.* Two users are enough because users meet only in the tick, which visits one
  at a time; a cooldown of one has an instant inside and one after; longer cooldowns
  and more polls are covered by the proofs.
- *Credentials.* Races of this code are between two requests; the third lets a
  mailbox exist before them, or observes afterwards. With a cap of one every second
  mailbox is one too many.
- *Households.* Two of four requests run together, and ana has an open code from the
  start, so that two redemptions, a redemption against a revocation, a deletion
  against a redemption, and a return after either all fit. The plan's allowance of
  two is the code's own. One failure of a mailbox reaches its limit, a third
  mailbox the eviction.
- *Digests.* Two accounts and one phone; three calls are a registration, its
  unregistration and the next account's registration. Two ticks are on one day or on
  two.
- *Google sign-in.* Three attempts let two redirects meet a future that is
  neither's; two kills let a relaunch be killed and repeated with the same link.
  Three logins overflow a table of two.

`CHECK_DEADLOCK FALSE` in the runs of the last four modules: with their bounded
requests, calls or attempts used up these systems really stop. Symmetry is used for
interchangeable requests, for users who differ in nothing, and for tokens, in runs
that check invariants and action properties only.

Runs that are expected to be violated, each a place where the code and what its
comments say of it disagree (quoted in `PROJECT.json`):

| Run | Disagreement |
|---|---|
| `FindReset` | after the reset script a message's marker can never be written again, so it is sent in every run |
| `FindCredentialOutlives` | a failed delete in the secret store is swallowed, so disconnecting leaves a credential nobody can see |
| `FindRejectedOverwrites` | a refused app-password connect has already replaced another user's credential |
| `FindPreviousAccount` | a registration in flight at sign-out sends the previous account's digest to the next one's phone |
| `FindUnreadBody` | an IMAP body that could not be fetched is judged as an empty one, for good |

### Fairness
`SyncRun!FairSpec`: weak fairness of the job's steps as a whole (a run is an asyncio
task whose outside calls have timeouts, and the hourly tick starts the next one) and
of the day's change. Nothing is assumed of arrivals, faults, crashes, resets or
credentials, nor of which answer the model gives; that settling does not depend on a
good answer is the effect of the retry bound. `SyncGate!FairSpec`: background tasks
start, jobs end (this is `RunEnds` of `SyncRun`), the app keeps polling, time
passes, and the scheduler fires every hour (a single running instance of the tick is
APScheduler's default). `GoogleSignIn!FairSpec`: a running app goes on with its
futures and its start-up (`AppGoesOn`), and a post is answered or fails (the HTTP
client has a timeout); the user, the browser and the system owe nothing.
`MailSettles` promises mail to be settled if its mailbox keeps its credential and,
from some time on, no Gmail mailbox before it fails every run (section 4).
`SyncedAgainAndAgain` speaks only of users who stay active and connected, and
`InterruptedSignInCompletes` allows for another kill and for a failing network.

## 4. Disagreements without a run

Seen while modelling; the models contain each of these behaviours or leave it out as
said, and the properties are stated so that they hold of the code as it is.

*Sync job.* A Gmail mailbox whose credential is lost need not end in
`ReauthRequired`, which skips it: `ensure_fresh` returns a credential granted in the
browser, and a mobile one that has not expired, unchanged (`google_token.py:60-63`),
so the API call that uses a revoked one raises `RefreshError`; a missing token
raises `ValueError` (`gmail_reader.py:18`). Either fails the whole run, every hour,
before the healthy mailboxes behind it have their turn, against "One dead mailbox
must not take the others down with it" (`sync_runner.py:104-105`); `MailSettles`
excepts their mail. After the per-message handler's rollback (`sync_runner.py:342`)
the rows of later mailboxes are expired, and reading `mailbox.email` of the next one
fails the run (`StaleMailbox`), against "keeps the sync alive" (266-268); later runs
make up for it, as `MailSettles` shows. An IMAP batch is worked off newest first,
because `fetch_metadata` keeps the order of its scan (`imap_reader.py:254`), against
"Oldest-first so a backlog drains in arrival order" (`sync_runner.py:216-217`).
A failed `record_call` expires the user row and so makes the next
statement fail (`extraction_budget.py:75` against 65-66). Requests that end in an
error are not counted (`sync_runner.py:315`), so the "hard" daily ceiling
(`config/settings.py:38-40`) bounds answers, not requests. Two letters with one
Message-ID from a blocked sender violate the unique constraint in every run
(`items.py:125`); three theorems assume that ids are unique per mailbox. A mail that
failed once and whose sender is blocked afterwards counts as `seen` (`items.py:121`,
`NewlyBlocked`) and is never retired by the block. A letter in a Gmail and an IMAP
mailbox has two ids (`IdOf`) and is extracted twice. `ai_extractor.py:56-109` may
raise `ValueError` for 29 February after the paid call.

*Sync gate.* The time of the last run's end is kept in the process only
(`sync_state.py:24`), so after a restart a sync starts within the cooldown of a
completed one, against "completed syncs are separated by a cooldown"
(`routers/sync.py:35-36`). `CooldownUnlessRestarted` is named for the exception.

*Credentials.* Re-authenticating a connected mailbox may be refused by the cap when
a disconnect comes between the lookup and the count (`mail_connections.py:104-107`
against 111-158). A revived row keeps the provider it was read with if only that one
changed, so row and credential may name different providers (`CommitStep`). Reviving
does not handle the unique index' error (160-165). A refresh may store its token
over a newer grant (`google_token.py:109`). An account deleted while one of its own
requests adds a mailbox keeps a live row. A sign-in whose address another account
holds is an unhandled error.

*Households.* Two concurrent `create_invite` leave two live codes
(`households.py:134-143`); two first ones create a household nobody is in. A member
who joins while the owner's deletion is being committed stays in a dissolved
household (311-324). A revocation may answer success for a code that was just used.
`record_failure` may evict the key's own stamps before it counts
(`auth_throttle.py:68-74`).

*Digests.* `last_reminder_date` advances although the send failed
(`reminder_scheduler.py:33-36` says only on a successful one). `unregister_device`
may mark a row that changed hands since it was read (`devices.py:53-69`). An
unregistration of an earlier session that commits between the two steps of a
registration leaves the row inactive although the registration is answered, because
`deleted_at` has not changed for the ORM (`devices.py:32-45`, against "Reactivates a
soft-deleted token", 17-19): this is the exception that `clean` makes. Of two first
registrations of one token the second to commit answers with an error and leaves the
row to the other's account (`devices.py:41-45`). An account deleted between the two
steps of its registration keeps an active row, to which no digest is sent. A token
that rotates before `start()` listens goes unnoticed, and a subscription made after
`stop()` outlives it (`push_service.dart:60-64`).

*Google sign-in.* A late 401 of an earlier session ends the newer one
(`session_controller.dart:57-61`). Another attempt's redirect or cancel clears a
newer attempt's record (`google_auth_codes.dart:180-196`), so only the hypothesis
`pending = link.state` makes an interrupted sign-in complete.

## 5. The proofs

Eight modules of theorems, checked by TLAPS for all values of the constants that
satisfy the named assumptions (`MailAssumption`, `SettingsAssumption`,
`EnvironmentAssumption`, `GateAssumption`, `CredentialsAssumption`,
`ThrottleAssumption`, `HouseholdsAssumption`, `DigestsAssumption`,
`SignInAssumption`): any number of
mails, mailboxes, users, requests in flight, faults, crashes, any cap, bound or
cooldown.

**SyncRun: type correctness** (`TypeCorrect`) is dependent: `cur` is in `todo`
whenever the job works on a message, and `box` is a mailbox whenever it works on
one. The step lemma is split by what the variables are about (job, tables, the
rest).

**The ledger** (`SyncImplementsLedger`). The refinement needs that whatever the job
is about to send or settle is still pending. This is `BatchInv`: the batch belongs
to the current mailbox and none of its messages has a verdict, except that the
current one may have its items stored already. Every step of the job then is a
`Call`, `Settle`, `GiveUp`, `Reopen` or a stutter; one lemma per kind of step. The
hypothesis `UniqueIds` (no mailbox holds two mails with one id) is what the reader's
comment claims; without it marking one copy gives the other, still in the batch, a
verdict.

**Bounded calls** (`CallsAreBounded`). `BoundedCalls` is not inductive: it says
nothing of how many requests an unfinished message has used up. The strengthening
`CostInv` does: requests for a message without a verdict are at most its recorded
attempts, plus faults and crashes, plus the one in flight (`InFlight`). It rests on
`BatchInv` and on `MarkerInv` (a missing row has no attempts; without a reset no row
is soft-deleted). Where the attempts reach the bound the message gets a verdict, and
is not sent again by `BatchInv`.

**Budget** (`BudgetIsKept`) and **sign-in report** (`ReauthIsTrue`) have small
invariants of their own in the proof module: the count is below the budget while a
call is under way; fewer mailboxes were skipped than the loop has reached, and if all
it visited were skipped, all of them are lost.

**The cap of a run** (`RunCapHolds`). `RoomInv`: what the run has taken and what it
holds fit in the cap. Where a batch is cut, its greatest element has no more than
the allowance before it, so that the whole batch fits in what is left; while it is
worked off, `taken` grows by one as the batch loses one. It needs `UniqueIds`,
because the code cuts the batch by ids.

**The gate**. `IInv` joins the type invariant and the safety properties with two
facts about the registry: the entry of a user who is not in `forgot` has, unless it
is "running", the age the model itself keeps of the user's last run (`AgeKnown`),
and while the app polls, a finished entry means that a run ended since it asked
(`AppUpToDate`). The step lemma is per user. All five results follow
(`NeverTwoRuns`, `NoPhantomRun`, `AppSeesOwnRun`, `CooldownHolds`, `TypeCorrect`).
`CooldownHolds` says for any cooldown that a run within it of the last one's end
needs a restart in between (`CooldownUnlessRestarted`), which is all that the code
gives.

**Credentials**. The state of a request is what it still has to do, so the invariant
is about plans. `TasksFit` says that a plan is `Linked`: a `find` is followed three
later by its `commit`, and a `commit` further back is preceded by its `admit`; a
request that connects works on one address. Cutting the head off a plan, as every
step does, keeps it so. On it rests `LockInv`: who is at its `commit` holds the lock
on its user, whose mailboxes are fewer than the limit. It is inductive because only
a `commit` adds a live row and it releases the lock. `CapHeld` is the consequence;
`HolderUnique` follows from the unique index that `commit` meets.

**The cache** (`CacheTrue`, in a module of its own on top of these). Fill, drop and
erase are separate steps, so that the cache agrees with the store only between them.
`TiedInv` says which steps of a plan belong together (a fetch is followed by its
fill, an `erase` preceded by its `drop`, a purge ends with an `erase`), and
`EraseKnown` that while an `erase` is due the cached value is gone or in `raced`:
a fill that comes between a `drop` and its `erase` is what the code does not guard
against.

**Strays** (`StrayExplained`, in a third module). `StrayInv` follows every pair of an
address and a provider through the requests at work on it.

- `Kept`: a stored credential has its mailbox, is in `stray`, or some connecting
  request cares for it (`Cares`): it is still to record the mailbox, or to erase the
  credential.
- `Gone`: the pair of a mailbox that a removal is about to mark as removed has no
  credential, is in `stray`, or its erasure comes before the mark in the plan
  (`Ahead`) or is still in the deletion's list.
- `ShapeInv`: the order of the steps on which the other two rest. In a connecting
  plan a mailbox is found, claimed and committed in this order and only once
  (`Ordered`), and a plan that moves it to another provider erases the others'
  credentials (`Cleans`). A removal ends its plan and comes after the loop (`Ends`).

The case that needs the three together is a removal that meets a connecting request.
What that request stores or commits while the removal is in flight is put in `stray`
(lemma `Watched`), so that `Gone` holds when the row is marked, and `Kept` after it.
A removal alone passes from `Ahead` to an empty secret by its own erasure, or to
`stray` when the store refuses it.

**Households**. `TypeInv` is the type invariant together with the references between
requests, codes and households (`TasksFit`), because requests carry ids of rows. On
it rest

- `LockInv`: what the two row locks achieve. A request past the invitation's lock
  holds it alone and the code is still open; one past the household's lock holds
  that alone. It is inductive because every writer of a code waits for its lock.
- `CodeInv`: a code that is not taken has admitted nobody (`OneRedemption`).
- `RoomInv`: every household is within its owner's plan, and one that a request is
  about to join has a place left (`CapHolds`). The place is still free when it
  joins, because by `LockInv` nobody else joins in between and the cardinality of
  the members only falls.
- `ConsentInv`: a living user's household is the one of the last consent
  (`ConsentedSharing`); the interesting steps are a deletion that releases others
  and the return of a user whose row still names a household.

`RevokedStaysDead` is an action property and follows from `LockInv`: the only step
that marks a code as taken is a `Join`, whose code is open.

**The throttle** (`ThrottleHolds`). The limit on failures can be passed, because a
request checks it and records its failure in different steps. `FailuresInv` says by
how much: the recorded failures of a mailbox and the requests on its behalf that may
still fail (`Trying`) are together at most `MaxFailures - 1` and the number of
requests. A request that passes the check joins those trying while the failures
are below the limit; one that fails moves from one number to the other. Both maps
are sequences without two entries for a key, which lemmas about assigning, evicting,
removing and ageing an entry preserve (`AttemptsInv`, `FailuresInv`).

**Digests**. `TickInv` says that the tick handles one user, whom it found not yet
reminded, and `SentInv` that a digest of today is recorded in `last_reminder_date`
or known to be unrecorded and that none is of a day to come. `OneDigestADay` and
`NobodySkipped` follow; what the phone and its calls do does not matter for either.

**The phone** (`PhoneIsReaders`, `TypeCorrect`). `HolderInv` joins parts about the
phone, `RowInv` one about the two steps of a registration. No
session starts its push service twice (`SessionInv`); a session that signs out waits
for a call that is still under way (`CallsInv`), and the calls of this session are
for its user (`OwnCalls`); once the registration has arrived (`tidy`), no call of an
earlier session is left and none of this one unregisters (`TidyInv`); and the push
service rejects only tokens that the phone has given up (`PruneInv`), so that
pruning does not touch the row of its present one. `RowInv` says that a row, once
there, stays, and that what a registration of this session has read, if no call of an
earlier session was under way then (`Fresh`), is still good enough for its commit to
give the reader the row (`Undisturbed`): what was the reader's or active then still
is, and a missing row is missing or has become the reader's own. It is inductive
because only calls of this session are left by then, the unregistration among them
ends the session, and a deletion takes `clean` away.

**Google sign-in**. A code is in one place at a time: on an open page, in redirects
to futures or in the launch link, obtained, or posted. `Redirects` says that an
attempt whose redirect is to come has left no trace and that no link is both in an
inbox and the launch link; `Exclusive` that what can still be taken has not been
taken. The case that makes the invariant necessary is the repeated launch with the
same link, which the cleared record stops (`CodePostedOnce`). In the browser flow an
evicted login is old (`RecentLogins`): a table that is full holds numbers up to
`logins`, so its least element lies at least `MaxStates` behind the next one
(`EvictedIsOld`, the cardinality of an interval). The dictionary of states stays
within its bound because the oldest entry makes room before one is added (`Bounded`,
`TypeCorrect`); that there is an oldest one is shown with the well-foundedness of
the natural numbers.

Only model-checked are the four liveness properties (`RunEnds`, `MailSettles`,
`SyncedAgainAndAgain`, `InterruptedSignInCompletes`): liveness under fairness is out
of the prover's reach. Every other property of a passing run is the statement of a
theorem. Three theorems about `SyncRun` have a hypothesis beyond the named
assumptions, stated with them: `UniqueIds`, for `SyncImplementsLedger`,
`CallsAreBounded` and `RunCapHolds`.

## 6. Abstractions

- *Sync.* The window of 30 days and deletions in the mailbox are left out: a mail
  stays. The hand-off between the IMAP passes, empty answers and malformed headers
  are folded into the reader's errors and lost bodies. A commit that succeeds
  although its caller sees an error is modelled for `persist_items` (the refresh
  after the commit), not for the other commits. A request and the retries the client
  library makes for it count as one. A lost credential does not come back within
  `SyncRun`; `cutOff` stands for a browser's credential, which stays so, and for a
  mobile one that may still expire, so `TokenExpires` may happen or not. The row of
  the user does not vanish: the application soft-deletes users only.
- *Gate.* The tick's count of mailboxes and its `try_start` are one step. The app's
  failing polls and being closed in mid-poll are not modelled.
- One server process: the registry, the cache, the throttle, the pending states and
  the scheduler are per process, as their comments say.
- *Credentials.* A user's mailbox limit is a constant; that it may come from the
  household's owner is left out. Google's and the mail servers' verification are the
  choice of who may log in where (`Serves`).
- *Households.* Time only expires codes and stamps. Plans do not change.
- *Digests.* Events of tomorrow are a set of busy users; the push to a user's
  devices is one send; a platform's device of another kind is another token.
- *Google sign-in.* The network may fail a post, which reaches Google or does not. A
  page is redirected once; a link may launch the app more than once.

## 7. Not modelled

- Text processing (`privacy_pipeline.py`, `content_wrapper.py`, `email_body.py`, the
  prompt and the date normalisation of `ai_extractor.py`, MIME and header parsing of
  the readers, the digest's wording, calendar export): functions from text to text
  without state, whose properties are about characters. The sync model has their
  failures.
- `routers/items.py` and the item queries: one filtered query or one row update per
  request. Who may see what is `Visible` in `Households`.
- Token checks (`auth/jwt.py`, `auth/dependencies.py`): stateless.
- Schema declarations, migrations and one-off scripts other than the reset; their
  constraints are in the modules that rely on them.
- `db/set_tier.py`: an operator may lower a plan below what is in use, by intention.
- The composition of `SyncRun` with `Credentials` (a mailbox that comes and goes
  under a running sync; an account deleted under one): the product is beyond TLC at
  bounds where both sides do something. `SyncRun` has its effect on the job as
  `LoseCredential`.
- The desktop sign-in over a loopback server, a restart of the app during a push
  start, and overlapping refreshes of the item list
  (`frontend/lib/items/items_controller.dart:26`).
- Screens, themes, advertising, website and infrastructure.
