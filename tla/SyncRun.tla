------------------------------- MODULE SyncRun -------------------------------
(***************************************************************************)
(* One user's background sync (services/sync_runner.py) over the tables it *)
(* keeps: synced_messages, items and extraction_usage_daily.  Every await  *)
(* that ends in a commit or an outside call is a step of its own, so that  *)
(* a crash, a failing statement, a provider error or the operator's reset  *)
(* can fall between any two of them.                                       *)
(***************************************************************************)
EXTENDS Integers, FiniteSets

CONSTANTS
  Mail,           \* delivered mails, numbered in the order of arrival
  BoxOf,          \* the mailbox a mail is delivered to
  LetterOf,       \* the RFC 5322 message a mail is a copy of (its Message-ID)
  NumBoxes,       \* connected mailboxes, oldest first
  Provider,       \* "google" or "imap", per mailbox
  SubjectSignal,  \* mails whose subject alone passes the extraction gate
  BodySignal,     \* mails whose body passes it
  PerRunCap,      \* sync_max_messages_per_run
  ScanMax,        \* sync_scan_max_messages
  MaxAttempts,    \* extraction_max_attempts
  Breaker,        \* extraction_failure_breaker
  DailyBudget,    \* extraction_daily_call_budget
  Answers,        \* what the extraction model may answer
  InitBlocked,    \* mails whose sender is on the blocklist at the start
  BlocklistGrows, \* may a sender be added to the blocklist later?
  CredLosses,     \* ways a mailbox may lose its credential
  BodyLoss,       \* may an IMAP body fetch leave mails out?
  MaxFaults,      \* bound on failing statements and provider errors
  MaxCrashes,     \* bound on process crashes
  MaxResets,      \* bound on runs of reset_failed_messages
  MaxCalls        \* bound on the requests sent for one message

Boxes == 1 .. NumBoxes

\* Gmail ids are per mailbox copy; the IMAP reader uses the Message-ID header.
IdOf == [p \in Mail |-> IF Provider[BoxOf[p]] = "google" THEN <<"gmail", p>>
                        ELSE <<"rfc822", LetterOf[p]>>]
Ids == {IdOf[p] : p \in Mail}
Answer == {"events", "empty", "transient", "permanent", "fatal"}

ASSUME MailAssumption ==
  /\ Mail \subseteq Nat /\ IsFiniteSet(Mail)
  /\ NumBoxes \in Nat \ {0}
  /\ BoxOf \in [Mail -> Boxes]
  /\ LetterOf \in [Mail -> Nat]
  /\ Provider \in [Boxes -> {"google", "imap"}]
  /\ SubjectSignal \subseteq Mail /\ BodySignal \subseteq Mail
  /\ InitBlocked \subseteq Mail

ASSUME SettingsAssumption ==
  /\ PerRunCap \in Nat \ {0} /\ ScanMax \in Nat \ {0}
  /\ MaxAttempts \in Nat \ {0} /\ Breaker \in Nat \ {0}
  /\ DailyBudget \in Nat \ {0}

ASSUME EnvironmentAssumption ==
  /\ Answers \subseteq Answer
  /\ CredLosses \subseteq {"revoked", "absent", "cutOff"}
  /\ BlocklistGrows \in BOOLEAN /\ BodyLoss \in BOOLEAN
  /\ MaxFaults \in Nat /\ MaxCrashes \in Nat /\ MaxResets \in Nat
  /\ MaxCalls \in Nat

VARIABLES
  \* the outside world
  inbox,       \* mails delivered so far
  blocked,     \* mails whose sender is on the blocklist
  cred,        \* per mailbox: "ok", "revoked" (refused when it is refreshed), "absent",
               \* or "cutOff" (refused by Gmail only when it is used)
  \* the database
  row,         \* synced_messages row per id: "none", "live" or "dead" (deleted_at set)
  kind,        \* its failure_kind; "none" is NULL
  attempts,    \* its attempts
  items,       \* ids with live items rows
  usage,       \* calls column of today's usage row, or NoRow
  \* the job (memory of one process)
  pc, box, taken, todo, bodies, cur, result, fails, reauth, tx, stale, userStale,
  outcome,     \* what sync_state shows for the user
  \* bounds and history
  faults, crashes, resets,
  calls,       \* per id: requests sent to the extraction model
  judged       \* ids whose verdict was reached on their real body

world == <<inbox, blocked, cred>>
markers == <<row, kind, attempts>>
tables == <<markers, items, usage>>
scratch == <<box, taken, todo, bodies, cur, result, fails, reauth, tx, stale, userStale>>
job == <<pc, scratch, outcome>>
history == <<calls, judged>>
bounds == <<faults, crashes, resets>>
vars == <<world, tables, job, history, bounds>>

NoRow == -1
NoMail == -1
Kinds == {"none", "transient", "permanent"}
Steps == {"idle", "list", "headers", "bodies", "message", "call", "record",
          "persist", "mark", "handle", "stop"}

TypeOK ==
  /\ inbox \subseteq Mail /\ blocked \subseteq Mail
  /\ cred \in [Boxes -> {"ok", "revoked", "absent", "cutOff"}]
  /\ row \in [Ids -> {"none", "live", "dead"}]
  /\ kind \in [Ids -> Kinds]
  /\ attempts \in [Ids -> Nat]
  /\ items \subseteq Ids
  /\ usage \in Nat \cup {NoRow}
  /\ pc \in Steps
  /\ box \in 0 .. NumBoxes + 1
  /\ pc \notin {"idle", "list", "stop"} => box \in Boxes
  /\ taken \in Nat /\ fails \in Nat /\ reauth \in Nat
  /\ todo \subseteq Mail /\ bodies \subseteq Mail
  /\ cur \in Mail \cup {NoMail}
  /\ pc \in {"call", "record", "persist", "mark", "handle"} => cur \in todo
  /\ result \in {"none"} \cup Answer
  /\ pc = "handle" => result \in {"transient", "permanent"}
  /\ tx \in BOOLEAN /\ stale \in BOOLEAN /\ userStale \in BOOLEAN
  /\ outcome \in {"none", "running", "done", "reauth", "failed"}
  /\ faults \in Nat /\ crashes \in Nat /\ resets \in Nat
  /\ calls \in [Ids -> Nat] /\ judged \subseteq Ids

Init ==
  /\ inbox = {} /\ blocked = InitBlocked
  /\ cred = [b \in Boxes |-> "ok"]
  /\ row = [i \in Ids |-> "none"]
  /\ kind = [i \in Ids |-> "none"]
  /\ attempts = [i \in Ids |-> 0]
  /\ items = {} /\ usage = NoRow
  /\ pc = "idle" /\ outcome = "none"
  /\ box = 0 /\ taken = 0 /\ todo = {} /\ bodies = {}
  /\ cur = NoMail /\ result = "none"
  /\ fails = 0 /\ reauth = 0
  /\ tx = FALSE /\ stale = FALSE /\ userStale = FALSE
  /\ faults = 0 /\ crashes = 0 /\ resets = 0
  /\ calls = [i \in Ids |-> 0] /\ judged = {}

-----------------------------------------------------------------------------
\* Reading the tables.

Succeeded(i) == i \in items \/ (row[i] = "live" /\ kind[i] = "none")
GivenUp(i) == row[i] = "live" /\ kind[i] # "none" /\ attempts[i] >= MaxAttempts

\* Bug: the dedup query forgets the markers that ran out of attempts.
ProcessedForgetsGivenUp(i) == i \in items \/ (row[i] = "live" /\ kind[i] = "none")

\* existing_message_ids: items, a success marker, or a failure we gave up on.
Processed(i) ==
  \/ i \in items
  \/ row[i] = "live" /\ (kind[i] = "none" \/ attempts[i] >= MaxAttempts)

\* The scan window of a mailbox: its newest ScanMax mails.
Window(b) == {p \in inbox : /\ BoxOf[p] = b
                            /\ Cardinality({q \in inbox : BoxOf[q] = b /\ q > p}) < ScanMax}

Unsynced(b) == {p \in Window(b) : ~ Processed(IdOf[p])}

\* Bug: the cap is applied to each mailbox.
RemainingPerMailbox == PerRunCap

Remaining == IF taken < PerRunCap THEN PerRunCap - taken ELSE 0

\* The oldest Remaining mails of a set.
Batch(S) == {p \in S : Cardinality({q \in S : q < p}) < Remaining}

\* The IMAP reader returns the headers of every copy of a wanted id.
Copies(b, S) == {p \in Window(b) : \E q \in S : IdOf[p] = IdOf[q]}

\* Gmail fetches headers in batch order, oldest first; the IMAP reader filters
\* its newest-first window scan, so its batch is worked off newest first.
IsNext(p) ==
  \A q \in todo : IF Provider[box] = "google" THEN p <= q ELSE p >= q

\* The message the loop is working on.
CurId == IdOf[cur]

\* has_extractable_signal, given the body the reader returned ("" if none).
HasSignal(p) == p \in SubjectSignal \/ (p \in bodies /\ p \in BodySignal)

-----------------------------------------------------------------------------
\* Ways a step goes wrong.

Fault == /\ faults < MaxFaults
         /\ faults' = faults + 1
         /\ UNCHANGED <<crashes, resets>>

\* The job's local variables and its database session are gone.
Forget ==
  /\ pc' = "idle"
  /\ box' = 0 /\ taken' = 0 /\ todo' = {} /\ bodies' = {}
  /\ cur' = NoMail /\ result' = "none"
  /\ fails' = 0 /\ reauth' = 0
  /\ tx' = FALSE /\ stale' = FALSE /\ userStale' = FALSE

\* An exception nobody in the job handles: "Sync failed. Try again."
FailRun == Forget /\ outcome' = "failed"

\* A statement failed while p was being worked on: the exception reaches the
\* per-message handler with a transaction open.
ToHandler(p) ==
  /\ pc' = "handle" /\ cur' = p /\ result' = "transient" /\ tx' = TRUE
  /\ UNCHANGED <<box, taken, todo, bodies, fails, reauth, stale, userStale, outcome>>

-----------------------------------------------------------------------------
\* The world moves.

Arrive(p) ==
  /\ p \notin inbox /\ \A q \in inbox : q < p
  /\ inbox' = inbox \cup {p}
  /\ UNCHANGED <<blocked, cred, tables, job, history, bounds>>

BlockSender(p) ==
  /\ BlocklistGrows /\ p \notin blocked
  /\ blocked' = blocked \cup {p}
  /\ UNCHANGED <<inbox, cred, tables, job, history, bounds>>

\* ensure_fresh passes a revoked Gmail credential on when it was granted in the
\* browser or has not expired yet: only the API call that uses it is refused.
LoseCredential(b) ==
  /\ cred[b] = "ok"
  /\ \E how \in CredLosses :
       /\ how = "cutOff" => Provider[b] = "google"
       /\ cred' = [cred EXCEPT ![b] = how]
  /\ UNCHANGED <<inbox, blocked, tables, job, history, bounds>>

\* A revoked mobile token expires: from now on its refresh is refused.  A
\* credential granted in the browser never gets here.
TokenExpires(b) ==
  /\ cred[b] = "cutOff"
  /\ cred' = [cred EXCEPT ![b] = "revoked"]
  /\ UNCHANGED <<inbox, blocked, tables, job, history, bounds>>

\* Usage rows are per day: the new day has none yet.
NewDay ==
  /\ usage' = NoRow
  /\ UNCHANGED <<world, markers, items, job, history, bounds>>

\* Bug: the script's query forgets "failure_kind IS NOT NULL".
ResetFailedAndDone ==
  /\ resets < MaxResets
  /\ row' = [i \in Ids |-> IF row[i] = "live" THEN "dead" ELSE row[i]]
  /\ resets' = resets + 1
  /\ UNCHANGED <<world, kind, attempts, items, usage, job, history, faults, crashes>>

\* reset_failed_messages: soft-delete failure markers, of one kind or of both.
ResetFailed ==
  /\ resets < MaxResets
  /\ \E K \in {{"transient", "permanent"}, {"transient"}, {"permanent"}} :
       row' = [i \in Ids |-> IF row[i] = "live" /\ kind[i] \in K THEN "dead" ELSE row[i]]
  /\ resets' = resets + 1
  /\ UNCHANGED <<world, kind, attempts, items, usage, job, history, faults, crashes>>

Crash ==
  /\ pc # "idle" /\ crashes < MaxCrashes
  /\ crashes' = crashes + 1
  /\ Forget /\ outcome' = "none"
  /\ UNCHANGED <<world, tables, history, faults, resets>>

-----------------------------------------------------------------------------
\* run_sync_job: the loop over the mailboxes.

StartRun ==
  /\ pc = "idle"
  /\ pc' = "list" /\ box' = 1 /\ outcome' = "running"
  /\ UNCHANGED <<world, tables, taken, todo, bodies, cur, result, fails, reauth, tx,
                 stale, userStale, history, bounds>>

MoreBoxes == box \in Boxes /\ Remaining > 0

\* Bug: one lost mailbox is enough to report "sign in again".
FinishRunAnyReauth ==
  /\ pc = "stop" \/ (pc = "list" /\ ~ MoreBoxes)
  /\ Forget
  /\ outcome' = IF reauth > 0 THEN "reauth" ELSE "done"
  /\ UNCHANGED <<world, tables, history, bounds>>

\* Out of mailboxes, out of allowance, or told to stop by the mailbox loop.
FinishRun ==
  /\ pc = "stop" \/ (pc = "list" /\ ~ MoreBoxes)
  /\ Forget
  /\ outcome' = IF reauth = NumBoxes THEN "reauth" ELSE "done"
  /\ UNCHANGED <<world, tables, history, bounds>>

\* A rollback expired the mailbox rows loaded at the start; reading
\* mailbox.email outside an await raises.
StaleMailbox ==
  /\ pc = "list" /\ MoreBoxes /\ stale
  /\ FailRun
  /\ UNCHANGED <<world, tables, history, bounds>>

\* Does this step open a connection with the mailbox's credential?
Connects == \/ pc = "list" /\ MoreBoxes /\ ~ stale
            \/ pc = "headers" /\ todo # {} /\ Provider[box] = "google"
            \/ pc = "bodies" /\ todo # {}

\* Can the reader call of this step answer?
Reachable == Connects => cred[box] = "ok"

\* list_recent_ids, the dedup against the tables, and the oldest-first batch.
SelectBatch ==
  /\ pc = "list" /\ Connects /\ Reachable
  /\ todo' = Copies(box, Batch(Unsynced(box)))
  /\ pc' = "headers" /\ fails' = 0 /\ bodies' = {} /\ cur' = NoMail
  /\ UNCHANGED <<world, tables, box, taken, result, reauth, tx, stale, userStale,
                 outcome, history, bounds>>

\* Bug: a lost mailbox ends the run ("break" for "continue").
SkipMailboxBreaks ==
  /\ Connects
  /\ cred[box] = "revoked" \/ (cred[box] = "absent" /\ Provider[box] = "imap")
  /\ pc' = "stop" /\ reauth' = reauth + 1
  /\ todo' = {} /\ bodies' = {}
  /\ UNCHANGED <<world, tables, box, taken, cur, result, fails, tx, stale, userStale,
                 outcome, history, bounds>>

\* ReauthRequired: this mailbox is skipped, the others go on.
SkipMailbox ==
  /\ Connects
  /\ cred[box] = "revoked" \/ (cred[box] = "absent" /\ Provider[box] = "imap")
  /\ pc' = "list" /\ box' = box + 1 /\ reauth' = reauth + 1
  /\ todo' = {} /\ bodies' = {}
  /\ UNCHANGED <<world, tables, taken, cur, result, fails, tx, stale, userStale,
                 outcome, history, bounds>>

\* A lost Gmail credential that does not end in ReauthRequired: without a token
\* the reader raises ValueError, with one that is refused on use RefreshError.
Unskippable(b) == Provider[b] = "google" /\ cred[b] \in {"absent", "cutOff"}

UnusableToken ==
  /\ Connects /\ Unskippable(box)
  /\ FailRun
  /\ UNCHANGED <<world, tables, history, bounds>>

\* A network or provider error in one of the three reader calls.
ReaderError ==
  /\ Connects /\ Fault
  /\ FailRun
  /\ UNCHANGED <<world, tables, history>>

\* The blocked mails of the batch that no live marker covers yet.
NewlyBlocked == {p \in todo \cap blocked : row[IdOf[p]] # "live"}

\* Their insert violates the unique (user, message) constraint when an id has
\* a soft-deleted row or occurs twice.
BlockedConflict ==
  \E p \in NewlyBlocked : \/ row[IdOf[p]] = "dead"
                          \/ \E q \in NewlyBlocked : q # p /\ IdOf[q] = IdOf[p]

\* fetch_metadata, _classify and mark_messages_blocked.
ClassifyBatch ==
  /\ pc = "headers" /\ Reachable /\ ~ BlockedConflict
  /\ LET new == {IdOf[p] : p \in NewlyBlocked}
     IN  /\ row' = [i \in Ids |-> IF i \in new THEN "live" ELSE row[i]]
         /\ kind' = [i \in Ids |-> IF i \in new THEN "none" ELSE kind[i]]
  /\ todo' = todo \ blocked /\ pc' = "bodies"
  /\ UNCHANGED <<world, attempts, items, usage, box, taken, bodies, cur, result, fails,
                 reauth, tx, stale, userStale, outcome, history, bounds>>

\* The insert fails: nothing around it handles the exception.
ClassifyFails ==
  /\ pc = "headers" /\ Reachable
  /\ \/ BlockedConflict /\ UNCHANGED bounds
     \/ Fault
  /\ FailRun
  /\ UNCHANGED <<world, tables, history>>

\* fetch_message_bodies; the IMAP reader leaves out what it could not fetch.
FetchBodies ==
  /\ pc = "bodies" /\ Reachable
  /\ \E lost \in SUBSET {IdOf[p] : p \in todo} :
       /\ lost # {} => BodyLoss /\ Provider[box] = "imap"
       /\ bodies' = {p \in todo : IdOf[p] \notin lost}
  /\ pc' = "message"
  /\ UNCHANGED <<world, tables, box, taken, todo, cur, result, fails, reauth, tx, stale,
                 userStale, outcome, history, bounds>>

-----------------------------------------------------------------------------
\* The loop over the messages of one mailbox.

\* Bug: the loop retries the mailbox it has just finished.
FinishMailboxAgain ==
  /\ pc = "message" /\ todo = {}
  /\ pc' = "list"
  /\ UNCHANGED <<world, tables, box, taken, todo, bodies, cur, result, fails, reauth, tx,
                 stale, userStale, outcome, history, bounds>>

FinishMailbox ==
  /\ pc = "message" /\ todo = {}
  /\ pc' = "list" /\ box' = box + 1
  /\ UNCHANGED <<world, tables, taken, todo, bodies, cur, result, fails, reauth, tx,
                 stale, userStale, outcome, history, bounds>>

\* mark_message_synced; inserting over a soft-deleted row is a conflict.
Insertable(i) == row[i] # "dead"

MarkSynced(i) ==
  /\ Insertable(i)
  /\ row' = [row EXCEPT ![i] = "live"]
  /\ kind' = [kind EXCEPT ![i] = "none"]
  /\ UNCHANGED attempts

\* The next message passes the loop's end: it is counted as processed.
NextMessage(p) ==
  /\ pc' = "message" /\ todo' = todo \ {p} /\ taken' = taken + 1

\* No signal in subject or body: marked as synced without an extraction.
GateSkip(p) ==
  /\ pc = "message" /\ p \in todo /\ IsNext(p) /\ ~ HasSignal(p)
  /\ MarkSynced(IdOf[p])
  /\ NextMessage(p)
  /\ judged' = IF p \in bodies THEN judged \cup {IdOf[p]} ELSE judged
  /\ UNCHANGED <<world, items, usage, box, bodies, cur, result, fails, reauth, tx, stale,
                 userStale, outcome, calls, bounds>>

GateSkipFails(p) ==
  /\ pc = "message" /\ p \in todo /\ IsNext(p) /\ ~ HasSignal(p)
  /\ \/ ~ Insertable(IdOf[p]) /\ UNCHANGED bounds
     \/ Fault
  /\ ToHandler(p)
  /\ UNCHANGED <<world, tables, history>>

\* Bug: "<=" for "<" in has_budget.
CheckBudgetOffByOne(p) ==
  /\ pc = "message" /\ p \in todo /\ IsNext(p) /\ HasSignal(p)
  /\ usage <= DailyBudget
  /\ usage' = IF usage = NoRow THEN 0 ELSE usage
  /\ tx' = (usage # NoRow)
  /\ pc' = "call" /\ cur' = p
  /\ UNCHANGED <<world, markers, items, box, taken, todo, bodies, result, fails, reauth,
                 stale, userStale, outcome, history, bounds>>

\* has_budget: today's row is created (and committed) when it is missing.
CheckBudget(p) ==
  /\ pc = "message" /\ p \in todo /\ IsNext(p) /\ HasSignal(p)
  /\ usage < DailyBudget
  /\ usage' = IF usage = NoRow THEN 0 ELSE usage
  /\ tx' = (usage # NoRow)
  /\ pc' = "call" /\ cur' = p
  /\ UNCHANGED <<world, markers, items, box, taken, todo, bodies, result, fails, reauth,
                 stale, userStale, outcome, history, bounds>>

BudgetExhausted(p) ==
  /\ pc = "message" /\ p \in todo /\ IsNext(p) /\ HasSignal(p)
  /\ usage >= DailyBudget
  /\ pc' = "stop" /\ todo' = {} /\ bodies' = {}
  /\ UNCHANGED <<world, tables, box, taken, cur, result, fails, reauth, tx, stale,
                 userStale, outcome, history, bounds>>

BudgetFails(p) ==
  /\ pc = "message" /\ p \in todo /\ IsNext(p) /\ HasSignal(p)
  /\ Fault /\ ToHandler(p)
  /\ UNCHANGED <<world, tables, history>>

\* redact_pii raises: no request was sent.
RedactFails ==
  /\ pc = "call" /\ Fault
  /\ pc' = "handle" /\ result' = "transient"
  /\ UNCHANGED <<world, tables, box, taken, todo, bodies, cur, fails, reauth, tx, stale,
                 userStale, outcome, history>>

Sent == /\ calls[CurId] < MaxCalls
        /\ calls' = [calls EXCEPT ![CurId] = @ + 1]

\* Bug: an answer without events is handled as an error.
ExtractEmptyIsError ==
  /\ pc = "call" /\ Sent
  /\ result' \in Answers \ {"fatal"}
  /\ LET ok == result' = "events"
     IN  /\ pc' = IF ok THEN "record" ELSE "handle"
         /\ judged' = IF ok /\ cur \in bodies THEN judged \cup {CurId} ELSE judged
  /\ UNCHANGED <<world, tables, box, taken, todo, bodies, cur, fails, reauth, tx, stale,
                 userStale, outcome, bounds>>

\* extract_events answers: with or without events, or with an error that is
\* worth another try (or not).
Extract ==
  /\ pc = "call" /\ Sent
  /\ result' \in Answers \ {"fatal"}
  /\ LET ok == result' \in {"events", "empty"}
     IN  /\ pc' = IF ok THEN "record" ELSE "handle"
         /\ judged' = IF ok /\ cur \in bodies THEN judged \cup {CurId} ELSE judged
  /\ UNCHANGED <<world, tables, box, taken, todo, bodies, cur, fails, reauth, tx, stale,
                 userStale, outcome, bounds>>

\* The account's key is refused: the run ends.
ExtractFatal ==
  /\ pc = "call" /\ "fatal" \in Answers /\ Fault /\ Sent
  /\ FailRun
  /\ UNCHANGED <<world, tables, judged>>

\* record_call: best effort; a failure is swallowed, but its rollback expires
\* the user object the next step reads.
RecordCall ==
  /\ pc = "record"
  /\ \/ /\ usage' = (IF usage = NoRow THEN 0 ELSE usage) + 1
        /\ UNCHANGED <<bounds, stale, userStale>>
     \/ /\ Fault /\ UNCHANGED usage
        /\ stale' = TRUE /\ userStale' = TRUE
  /\ pc' = "persist" /\ tx' = FALSE
  /\ UNCHANGED <<world, markers, items, box, taken, todo, bodies, cur, result, fails,
                 reauth, outcome, history>>

\* persist_items: one commit, nothing when the message already has items.
PersistItems ==
  /\ pc = "persist" /\ ~ userStale
  /\ items' = IF result = "events" THEN items \cup {CurId} ELSE items
  /\ pc' = "mark"
  /\ UNCHANGED <<world, markers, usage, scratch, outcome, history, bounds>>

\* Reading user.id raises, or a statement does: before the commit, or in the
\* refresh after it, with the items already stored.
PersistFails ==
  /\ pc = "persist"
  /\ \/ userStale /\ UNCHANGED <<bounds, items>>
     \/ /\ Fault /\ ~ userStale
        /\ items' \in {items, IF result = "events" THEN items \cup {CurId} ELSE items}
  /\ ToHandler(cur)
  /\ UNCHANGED <<world, markers, usage, history>>

MarkDone ==
  /\ pc = "mark" /\ MarkSynced(CurId)
  /\ NextMessage(cur) /\ fails' = 0
  /\ cur' = NoMail /\ result' = "none"
  /\ UNCHANGED <<world, items, usage, box, bodies, reauth, tx, stale, userStale,
                 outcome, history, bounds>>

MarkFails ==
  /\ pc = "mark"
  /\ \/ ~ Insertable(CurId) /\ UNCHANGED bounds
     \/ Fault
  /\ ToHandler(cur)
  /\ UNCHANGED <<world, tables, history>>

-----------------------------------------------------------------------------
\* The per-message handler.

\* Bug: the attempt is not counted.
RecordFailureUncounted(i) ==
  /\ Insertable(i)
  /\ row' = [row EXCEPT ![i] = "live"]
  /\ kind' = [kind EXCEPT ![i] = result]
  /\ UNCHANGED attempts

\* record_message_failure: a permanent failure burns all attempts at once.
RecordFailure(i) ==
  /\ Insertable(i)
  /\ row' = [row EXCEPT ![i] = "live"]
  /\ kind' = [kind EXCEPT ![i] = result]
  /\ attempts' = [attempts EXCEPT ![i] = IF result = "permanent" THEN MaxAttempts ELSE @ + 1]

\* It cannot be recorded: swallowed, the message keeps the state it had.
FailureNotRecorded(i) ==
  /\ \/ ~ Insertable(i) /\ UNCHANGED bounds
     \/ Fault
  /\ UNCHANGED markers

\* The breaker: too many transient failures in a row stop the run.
Trips == result = "transient" /\ fails + 1 >= Breaker

\* rollback (which expires every loaded row if a transaction was open), the
\* failure record in its own try, the user re-read, the breaker.
HandleFailure ==
  /\ pc = "handle"
  /\ \/ RecordFailure(CurId) /\ UNCHANGED bounds /\ stale' = (stale \/ tx)
     \/ FailureNotRecorded(CurId) /\ stale' = TRUE
  /\ userStale' = FALSE /\ tx' = FALSE /\ cur' = NoMail /\ result' = "none"
  /\ \/ /\ Trips
        /\ pc' = "stop" /\ todo' = {} /\ bodies' = {}
        /\ UNCHANGED <<taken, fails>>
     \/ /\ ~ Trips
        /\ NextMessage(cur)
        /\ fails' = IF result = "transient" THEN fails + 1 ELSE 0
        /\ UNCHANGED bodies
  /\ UNCHANGED <<world, items, usage, box, reauth, outcome, history>>

\* The first rollback or re-reading the user fails: the run ends.
HandlerFails ==
  /\ pc = "handle" /\ Fault
  /\ RecordFailure(CurId) \/ UNCHANGED markers
  /\ FailRun
  /\ UNCHANGED <<world, items, usage, history>>

-----------------------------------------------------------------------------
Mailboxes == StartRun \/ FinishRun \/ StaleMailbox \/ SelectBatch \/ SkipMailbox
             \/ UnusableToken \/ ReaderError \/ ClassifyBatch \/ ClassifyFails
             \/ FetchBodies \/ FinishMailbox

Message(p) == GateSkip(p) \/ GateSkipFails(p) \/ CheckBudget(p) \/ BudgetExhausted(p)
              \/ BudgetFails(p)

Extraction == RedactFails \/ Extract \/ ExtractFatal \/ RecordCall \/ PersistItems
              \/ PersistFails \/ MarkDone \/ MarkFails \/ HandleFailure
              \/ HandlerFails

JobStep == Mailboxes \/ Extraction \/ \E p \in Mail : Message(p)

World == \/ \E p \in Mail : Arrive(p) \/ BlockSender(p)
         \/ \E b \in Boxes : LoseCredential(b) \/ TokenExpires(b)
         \/ NewDay \/ ResetFailed

Next == JobStep \/ World \/ Crash

Spec == Init /\ [][Next]_vars

\* The hourly tick keeps starting runs, a started run keeps taking steps, and
\* days pass; nothing is assumed of arrivals, faults, crashes or the operator.
FairSpec == Spec /\ WF_vars(JobStep) /\ WF_vars(NewDay)

-----------------------------------------------------------------------------
(* Properties *)

\* The abstract verdict of every id, as existing_message_ids would derive it.
Verdicts == [i \in Ids |-> IF Succeeded(i) THEN "done"
                           ELSE IF GivenUp(i) THEN "givenUp" ELSE "pending"]

Ledger == INSTANCE MessageLedger WITH verdict <- Verdicts

\* The job implements the ledger: across crashes, errors, mailboxes and the
\* reset script, no message with a verdict is sent to the model again, a
\* success is never taken back, and only the reset reopens a given-up message.
ImplementsLedger == Ledger!Spec

\* No mailbox holds two mails with the same id: "globally unique by
\* construction" (_canonical_message_id).
UniqueIds == \A p, q \in Mail : BoxOf[p] = BoxOf[q] /\ IdOf[p] = IdOf[q] => p = q

\* A message costs at most extraction_max_attempts requests, plus one for each
\* crash or infrastructure fault that lost the record of one.
BoundedCalls == resets = 0 => \A i \in Ids : calls[i] <= MaxAttempts + faults + crashes

\* Reopening a failed message restores the state before the failure: it may be
\* tried extraction_max_attempts times once more, not without end.
BoundedAfterReset ==
  \A i \in Ids : calls[i] <= MaxAttempts * (resets + 1) + faults + crashes

\* The per-run cap is shared by the mailboxes, not applied to each.
RunCap == taken <= PerRunCap

\* The calls counted for a day never exceed the daily budget, midnight or a
\* crash between the check and the record notwithstanding.
BudgetKept == usage <= DailyBudget

\* A message is settled as a success only after its real body was judged (by
\* the gate or the model) or because its sender is blocked.  The code takes the
\* gate's verdict on a body that could not be fetched for one as final.
JudgedOnBody ==
  \A i \in Ids : Succeeded(i) => i \in judged \/ \E p \in blocked : IdOf[p] = i

\* "Please sign in again" is reported only when every mailbox lost its credential.
ReauthOnlyIfAllLost == outcome = "reauth" => \A b \in Boxes : cred[b] # "ok"

\* Every run that starts ends.
RunEnds == (pc # "idle") ~> (pc = "idle")

\* Oldest-first batches, bounded retries and the per-mailbox isolation together:
\* mail of a mailbox that keeps its credential is eventually settled, if no
\* Gmail mailbox before it stays in a state that fails every run.  "One dead
\* mailbox must not take the others down with it" (sync_runner.py:104-105) has
\* no such exception; the code starves the mail behind such a mailbox.
MailSettles ==
  \A p \in Mail :
    /\ [](cred[BoxOf[p]] = "ok")
    /\ <>[](\A b \in Boxes : b < BoxOf[p] => ~ Unskippable(b))
    => (p \in inbox ~> Processed(IdOf[p]))

-----------------------------------------------------------------------------
\* The invariant behind the proofs.

\* A marker that suppresses its message.
Settled(i) == row[i] = "live" /\ (kind[i] = "none" \/ attempts[i] >= MaxAttempts)

\* The batch belongs to the current mailbox and holds only messages without a
\* verdict, except that the current one may have had its items stored.
BatchInv ==
  /\ pc \in {"idle", "list", "stop"} => todo = {}
  /\ \A p \in todo :
       /\ BoxOf[p] = box
       /\ ~ Settled(IdOf[p])
       /\ IdOf[p] \in items => p = cur /\ pc \in {"mark", "handle"}

\* Only the reset soft-deletes a marker, and a missing one counts no attempts.
MarkerInv ==
  /\ \A i \in Ids : row[i] = "none" => attempts[i] = 0
  /\ resets = 0 => \A i \in Ids : row[i] # "dead"

\* The requests not accounted for by attempts, faults and crashes: the one in flight.
InFlight(i) ==
  IF pc \in {"record", "persist", "mark", "handle"} /\ i = CurId THEN 1 ELSE 0

CostInv ==
  resets = 0 => \A i \in Ids :
    /\ calls[i] <= MaxAttempts + faults + crashes
    /\ ~ Processed(i) => calls[i] <= attempts[i] + faults + crashes + InFlight(i)
=============================================================================
