---------------------------- MODULE SyncRunProofs ----------------------------
(***************************************************************************)
(* SyncRun's safety properties, for every set of mails and mailboxes and   *)
(* every value of the settings.                                            *)
(***************************************************************************)
EXTENDS SyncRun, FiniteSetTheorems, WellFoundedInduction, TLAPS

\* A mail's id is an id, and the loop's message has one while it is worked on.
LEMMA IdIsId == \A p \in Mail : IdOf[p] \in Ids
BY DEF Ids

\* The variables start with their types.
LEMMA InitType == Init => TypeOK
<1> SUFFICES ASSUME Init PROVE TypeOK
  OBVIOUS
<1> USE MailAssumption DEF Init
<1>1. /\ row \in [Ids -> {"none", "live", "dead"}] /\ kind \in [Ids -> Kinds]
      /\ attempts \in [Ids -> Nat] /\ items \subseteq Ids /\ usage \in Nat \cup {NoRow}
  BY DEF Kinds
<1>2. /\ inbox \subseteq Mail /\ blocked \subseteq Mail
      /\ cred \in [Boxes -> {"ok", "revoked", "absent", "cutOff"}]
      /\ calls \in [Ids -> Nat] /\ judged \subseteq Ids
      /\ faults \in Nat /\ crashes \in Nat /\ resets \in Nat
  OBVIOUS
<1>3. box \in 0 .. NumBoxes + 1
  OBVIOUS
<1> QED
  BY <1>1, <1>2, <1>3 DEF TypeOK, Steps

\* TypeOK in three parts: the job's variables, the tables, and the rest.
JobTypeOK ==
  /\ pc \in Steps /\ box \in 0 .. NumBoxes + 1
  /\ pc \notin {"idle", "list", "stop"} => box \in Boxes
  /\ taken \in Nat /\ fails \in Nat /\ reauth \in Nat
  /\ todo \subseteq Mail /\ bodies \subseteq Mail
  /\ cur \in Mail \cup {NoMail}
  /\ pc \in {"call", "record", "persist", "mark", "handle"} => cur \in todo
  /\ result \in {"none"} \cup Answer
  /\ pc = "handle" => result \in {"transient", "permanent"}
  /\ tx \in BOOLEAN /\ stale \in BOOLEAN /\ userStale \in BOOLEAN
  /\ outcome \in {"none", "running", "done", "reauth", "failed"}

StoreTypeOK ==
  /\ row \in [Ids -> {"none", "live", "dead"}]
  /\ kind \in [Ids -> Kinds]
  /\ attempts \in [Ids -> Nat]
  /\ items \subseteq Ids
  /\ usage \in Nat \cup {NoRow}

RestTypeOK ==
  /\ inbox \subseteq Mail /\ blocked \subseteq Mail
  /\ cred \in [Boxes -> {"ok", "revoked", "absent", "cutOff"}]
  /\ faults \in Nat /\ crashes \in Nat /\ resets \in Nat
  /\ calls \in [Ids -> Nat] /\ judged \subseteq Ids

\* The job's own variables keep their types.
LEMMA JobTypeStep == TypeOK /\ [Next]_vars => JobTypeOK'
<1> SUFFICES ASSUME TypeOK, [Next]_vars PROVE JobTypeOK'
  OBVIOUS
<1> USE MailAssumption, EnvironmentAssumption DEF TypeOK, JobTypeOK, Boxes
<1> USE DEF Steps, Answer
<1> USE DEF job, scratch
<1>1. CASE World \/ UNCHANGED vars
  <2>1. UNCHANGED job
    BY <1>1 DEF World, Arrive, BlockSender, LoseCredential, TokenExpires, NewDay, ResetFailed,
       vars
  <2> QED
    BY <2>1
<1>2. ASSUME Forget, outcome' \in {"none", "done", "reauth", "failed"} PROVE JobTypeOK'
  <2>1. box' \in 0 .. NumBoxes + 1 /\ taken' \in Nat /\ fails' \in Nat /\ reauth' \in Nat
    BY <1>2 DEF Forget
  <2> QED
    BY <1>2, <2>1 DEF Forget
<1>3. CASE Crash \/ FinishRun \/ StaleMailbox \/ UnusableToken \/ ReaderError \/ ClassifyFails
           \/ ExtractFatal \/ HandlerFails
  BY <1>2, <1>3 DEF Crash, FinishRun, StaleMailbox, UnusableToken, ReaderError,
     ClassifyFails, ExtractFatal, HandlerFails, FailRun
<1>4. CASE StartRun
  BY <1>4 DEF StartRun
<1>5. CASE SelectBatch
  BY <1>5 DEF SelectBatch, Connects, MoreBoxes, Copies, Window
<1>6. CASE SkipMailbox
  BY <1>6 DEF SkipMailbox, Connects, MoreBoxes
<1>7. CASE ClassifyBatch
  BY <1>7 DEF ClassifyBatch
<1>8. CASE FetchBodies
  BY <1>8 DEF FetchBodies
<1>9. CASE FinishMailbox
  BY <1>9 DEF FinishMailbox
<1>10. ASSUME NEW p \in Mail, ToHandler(p), p \in todo, box \in Boxes PROVE JobTypeOK'
  BY <1>10 DEF ToHandler
<1>11. ASSUME NEW p \in Mail, Message(p) PROVE JobTypeOK'
  <2>1. CASE GateSkip(p)
    BY <2>1 DEF GateSkip, NextMessage
  <2>2. CASE GateSkipFails(p) \/ BudgetFails(p)
    BY <2>2, <1>10 DEF GateSkipFails, BudgetFails
  <2>3. CASE CheckBudget(p)
    BY <2>3 DEF CheckBudget
  <2>4. CASE BudgetExhausted(p)
    BY <2>4 DEF BudgetExhausted
  <2> QED
    BY <1>11, <2>1, <2>2, <2>3, <2>4 DEF Message
<1>12. CASE RedactFails
  BY <1>12 DEF RedactFails
<1>13. CASE Extract
  BY <1>13 DEF Extract
<1>14. CASE RecordCall
  BY <1>14 DEF RecordCall
<1>15. CASE PersistItems
  BY <1>15 DEF PersistItems
<1>16. CASE PersistFails \/ MarkFails
  BY <1>16, <1>10 DEF PersistFails, MarkFails
<1>17. CASE MarkDone
  BY <1>17 DEF MarkDone, NextMessage
<1>18. CASE HandleFailure
  <2>1. /\ box \in Boxes /\ UNCHANGED <<box, reauth, outcome>>
        /\ stale' \in BOOLEAN /\ userStale' = FALSE /\ tx' = FALSE
        /\ cur' = NoMail /\ result' = "none"
    BY <1>18 DEF HandleFailure
  <2>2. CASE pc' = "stop" /\ todo' = {} /\ bodies' = {} /\ UNCHANGED <<taken, fails>>
    <3>1. /\ pc' \notin {"call", "record", "persist", "mark", "handle"}
          /\ pc' \in Steps /\ box' \in 0 .. NumBoxes + 1
      BY <2>1, <2>2
    <3> QED
      BY <3>1, <2>1, <2>2
  <2>3. CASE /\ pc' = "message" /\ todo' = todo \ {cur} /\ taken' = taken + 1
             /\ fails' = (IF result = "transient" THEN fails + 1 ELSE 0) /\ UNCHANGED bodies
    <3>1. /\ todo' \subseteq Mail /\ bodies' \subseteq Mail /\ taken' \in Nat
          /\ fails' \in Nat /\ reauth' \in Nat
      BY <2>1, <2>3
    <3>2. pc' \in Steps /\ pc' = "message" /\ box' \in Boxes /\ box' \in 0 .. NumBoxes + 1
      BY <2>1, <2>3
    <3> QED
      BY <2>1, <3>1, <3>2
  <2> QED
    BY <1>18, <2>2, <2>3 DEF HandleFailure, NextMessage
<1> QED
  BY <1>1, <1>3, <1>4, <1>5, <1>6, <1>7, <1>8, <1>9, <1>11, <1>12, <1>13, <1>14, <1>15,
     <1>16, <1>17, <1>18 DEF Next, JobStep, Mailboxes, Extraction

\* The tables keep their types.
LEMMA StoreTypeStep == TypeOK /\ [Next]_vars => StoreTypeOK'
<1> SUFFICES ASSUME TypeOK, [Next]_vars PROVE StoreTypeOK'
  OBVIOUS
<1> USE MailAssumption, SettingsAssumption, IdIsId
<1> USE DEF TypeOK, StoreTypeOK, Kinds
<1> USE DEF tables, markers
<1>0. pc \in {"call", "record", "persist", "mark", "handle"} => CurId \in Ids
  BY DEF CurId
<1>1. ASSUME UNCHANGED tables PROVE StoreTypeOK'
  BY <1>1
<1>2. CASE ResetFailed
  BY <1>2 DEF ResetFailed
<1>3. CASE NewDay
  BY <1>3 DEF NewDay
<1>4. CASE (\E p \in Mail : Arrive(p) \/ BlockSender(p))
           \/ (\E b \in Boxes : LoseCredential(b) \/ TokenExpires(b)) \/ Crash \/ UNCHANGED vars
  BY <1>1, <1>4 DEF Arrive, BlockSender, LoseCredential, TokenExpires, Crash, vars
<1>5. CASE StartRun \/ FinishRun \/ StaleMailbox \/ SelectBatch \/ SkipMailbox \/ UnusableToken
           \/ ReaderError \/ ClassifyFails \/ FetchBodies \/ FinishMailbox
  BY <1>1, <1>5 DEF StartRun, FinishRun, StaleMailbox, SelectBatch, SkipMailbox,
     UnusableToken, ReaderError, ClassifyFails, FetchBodies, FinishMailbox
<1>6. CASE ClassifyBatch
  BY <1>6 DEF ClassifyBatch
<1>7. ASSUME NEW i \in Ids, MarkSynced(i), UNCHANGED <<items, usage>> PROVE StoreTypeOK'
  BY <1>7 DEF MarkSynced
<1>8. ASSUME NEW i \in Ids, RecordFailure(i), result \in {"transient", "permanent"},
             UNCHANGED <<items, usage>>
      PROVE  StoreTypeOK'
  BY <1>8 DEF RecordFailure
<1>9. ASSUME NEW p \in Mail, Message(p) PROVE StoreTypeOK'
  <2>1. CASE GateSkip(p)
    BY <2>1, <1>7 DEF GateSkip
  <2>2. CASE CheckBudget(p)
    BY <2>2 DEF CheckBudget
  <2>3. CASE GateSkipFails(p) \/ BudgetExhausted(p) \/ BudgetFails(p)
    BY <1>1, <2>3 DEF GateSkipFails, BudgetExhausted, BudgetFails
  <2> QED
    BY <1>9, <2>1, <2>2, <2>3 DEF Message
<1>10. CASE RedactFails \/ Extract \/ ExtractFatal \/ MarkFails
  BY <1>1, <1>10 DEF RedactFails, Extract, ExtractFatal, MarkFails
<1>11. CASE RecordCall
  BY <1>11 DEF RecordCall
<1>12. CASE PersistItems \/ PersistFails
  BY <1>0, <1>12 DEF PersistItems, PersistFails
<1>13. CASE MarkDone
  BY <1>0, <1>7, <1>13 DEF MarkDone
<1>14. CASE HandleFailure
  BY <1>0, <1>1, <1>8, <1>14 DEF HandleFailure, FailureNotRecorded
<1>15. CASE HandlerFails
  BY <1>0, <1>1, <1>8, <1>15 DEF HandlerFails
<1> QED
  BY <1>2, <1>3, <1>4, <1>5, <1>6, <1>9, <1>10, <1>11, <1>12, <1>13, <1>14, <1>15
  DEF Next, World, JobStep, Mailboxes, Extraction

\* The world, the bounds and the history keep their types.
LEMMA RestTypeStep == TypeOK /\ [Next]_vars => RestTypeOK'
<1> SUFFICES ASSUME TypeOK, [Next]_vars PROVE RestTypeOK'
  OBVIOUS
<1> USE EnvironmentAssumption, IdIsId DEF TypeOK, RestTypeOK
<1> USE DEF world, history, bounds
<1>0. pc \in {"call", "record", "persist", "mark", "handle"} => CurId \in Ids
  BY DEF CurId
<1>1. ASSUME UNCHANGED <<world, history, crashes, resets>>, UNCHANGED faults \/ Fault
      PROVE  RestTypeOK'
  BY <1>1 DEF Fault
<1>2. CASE World \/ Crash \/ UNCHANGED vars
  BY <1>2 DEF World, Arrive, BlockSender, LoseCredential, TokenExpires, NewDay, ResetFailed,
     Crash, vars
<1>3. CASE Mailboxes
  BY <1>1, <1>3 DEF Mailboxes, StartRun, FinishRun, StaleMailbox, SelectBatch, SkipMailbox,
     UnusableToken, ReaderError, ClassifyBatch, ClassifyFails, FetchBodies, FinishMailbox,
     Fault
<1>4. ASSUME NEW p \in Mail, Message(p) PROVE RestTypeOK'
  <2>1. CASE GateSkip(p)
    BY <2>1 DEF GateSkip
  <2> QED
    BY <1>1, <1>4, <2>1 DEF Message, GateSkipFails, CheckBudget, BudgetExhausted,
       BudgetFails, Fault
<1>5. CASE Extract
  BY <1>0, <1>5 DEF Extract, Sent
<1>6. CASE ExtractFatal
  BY <1>0, <1>6 DEF ExtractFatal, Sent, Fault
<1>7. CASE RedactFails \/ RecordCall \/ PersistItems \/ PersistFails \/ MarkDone \/ MarkFails
  BY <1>1, <1>7 DEF RedactFails, RecordCall, PersistItems, PersistFails, MarkDone,
     MarkFails, Fault
<1>8. CASE HandleFailure \/ HandlerFails
  BY <1>1, <1>8 DEF HandleFailure, HandlerFails, FailureNotRecorded, Fault
<1> QED
  BY <1>2, <1>3, <1>4, <1>5, <1>6, <1>7, <1>8 DEF Next, JobStep, Extraction

\* No step of the system breaks a type.
LEMMA TypeStep == TypeOK /\ [Next]_vars => TypeOK'
BY JobTypeStep, StoreTypeStep, RestTypeStep DEF TypeOK, JobTypeOK, StoreTypeOK, RestTypeOK

\* Every variable keeps its type in every reachable state.
THEOREM TypeCorrect == Spec => []TypeOK
BY InitType, TypeStep, PTL DEF Spec
-----------------------------------------------------------------------------
\* What a batch holds.

\* Two mails of a batch with one id are the same mail.
LEMMA OneCopy ==
  ASSUME UniqueIds, TypeOK, BatchInv,
         NEW p \in todo, NEW q \in todo, IdOf[p] = IdOf[q]
  PROVE  p = q
BY DEF UniqueIds, TypeOK, BatchInv

\* BatchInv is inductive: whatever a step gives a verdict leaves the batch.
LEMMA BatchStep == UniqueIds /\ TypeOK /\ BatchInv /\ [Next]_vars => BatchInv'
<1> SUFFICES ASSUME UniqueIds, TypeOK, BatchInv, [Next]_vars PROVE BatchInv'
  OBVIOUS
<1>1. ASSUME todo' = {} PROVE BatchInv'
  BY <1>1 DEF BatchInv
<1>2. ASSUME todo' \subseteq todo, pc' \notin {"idle", "list", "stop"},
             UNCHANGED <<row, kind, attempts, items, box>>,
             \A p \in todo' : IdOf[p] \in items => p = cur' /\ pc' \in {"mark", "handle"}
      PROVE  BatchInv'
  BY <1>2 DEF BatchInv, Settled
<1>3. CASE World \/ UNCHANGED vars
  <2>1. CASE ResetFailed
    <3>1. UNCHANGED <<pc, box, todo, cur, kind, attempts, items>>
      BY <2>1 DEF ResetFailed, job, scratch
    <3>2. \A i \in Ids : Settled(i)' => Settled(i)
      BY <2>1, <3>1 DEF ResetFailed, Settled, TypeOK
    <3> QED
      BY <3>1, <3>2, IdIsId DEF BatchInv, TypeOK
  <2>2. CASE ~ ResetFailed
    <3>1. UNCHANGED <<pc, box, todo, cur, row, kind, attempts, items>>
      BY <1>3, <2>2 DEF World, Arrive, BlockSender, LoseCredential, TokenExpires, NewDay, vars,
         tables, markers, job, scratch
    <3> QED
      BY <3>1 DEF BatchInv, Settled
  <2> QED
    BY <2>1, <2>2
<1>4. CASE Crash \/ FinishRun \/ StaleMailbox \/ UnusableToken \/ ReaderError \/ ClassifyFails
           \/ ExtractFatal \/ HandlerFails \/ SkipMailbox
  BY <1>1, <1>4 DEF Crash, FinishRun, StaleMailbox, UnusableToken, ReaderError, Forget,
     ClassifyFails, ExtractFatal, HandlerFails, FailRun, SkipMailbox
<1>5. CASE StartRun \/ FinishMailbox
  BY <1>1, <1>5 DEF StartRun, FinishMailbox, BatchInv
<1>6. CASE SelectBatch
  <2>1. \A p \in todo' : BoxOf[p] = box /\ ~ Processed(IdOf[p])
    BY <1>6 DEF SelectBatch, Copies, Batch, Unsynced, Window
  <2> QED
    BY <1>6, <2>1 DEF SelectBatch, BatchInv, Settled, Processed, tables, markers
<1>7. CASE ClassifyBatch
  <2>1. /\ pc = "headers" /\ pc' = "bodies" /\ todo' = todo \ blocked
        /\ UNCHANGED <<box, cur, items, attempts>>
    BY <1>7 DEF ClassifyBatch
  <2>2. ASSUME NEW p \in todo' PROVE IdOf[p] \notin {IdOf[q] : q \in NewlyBlocked}
    BY <2>1, OneCopy DEF NewlyBlocked
  <2>3. \A p \in todo' : row'[IdOf[p]] = row[IdOf[p]] /\ kind'[IdOf[p]] = kind[IdOf[p]]
    BY <1>7, <2>1, <2>2, IdIsId DEF ClassifyBatch, TypeOK
  <2> QED
    BY <2>1, <2>3 DEF BatchInv, Settled
<1>8. CASE FetchBodies
  BY <1>2, <1>8 DEF FetchBodies, BatchInv, tables, markers
<1>9. ASSUME NEW p \in Mail, ToHandler(p), p \in todo, UNCHANGED markers,
             \A q \in todo : IdOf[q] \in items' => q = p
      PROVE  BatchInv'
  BY <1>9 DEF ToHandler, BatchInv, Settled, markers
<1>10. ASSUME NEW p \in todo, MarkSynced(IdOf[p]) \/ RecordFailure(IdOf[p]),
              pc' = "message", todo' = todo \ {p}, UNCHANGED <<items, box>>,
              pc = "message" \/ p = cur
       PROVE  BatchInv'
  <2>1. \A q \in todo' : IdOf[q] # IdOf[p]
    BY <1>10, OneCopy
  <2>2. \A q \in todo' : Settled(IdOf[q])' = Settled(IdOf[q])
    BY <1>10, <2>1, IdIsId DEF MarkSynced, RecordFailure, Settled, TypeOK
  <2> QED
    BY <1>10, <2>2 DEF BatchInv
<1>11. ASSUME NEW p \in Mail, Message(p) PROVE BatchInv'
  <2>1. CASE GateSkip(p)
    BY <1>10, <2>1 DEF GateSkip, NextMessage
  <2>2. CASE GateSkipFails(p) \/ BudgetFails(p)
    BY <1>9, <2>2 DEF GateSkipFails, BudgetFails, BatchInv, tables
  <2>3. CASE CheckBudget(p)
    BY <1>2, <2>3 DEF CheckBudget, BatchInv, markers
  <2>4. CASE BudgetExhausted(p)
    BY <1>1, <2>4 DEF BudgetExhausted
  <2> QED
    BY <1>11, <2>1, <2>2, <2>3, <2>4 DEF Message
<1>12. CASE RedactFails \/ Extract
  BY <1>2, <1>12 DEF RedactFails, Extract, BatchInv, tables, markers
<1>13. CASE RecordCall
  BY <1>2, <1>13 DEF RecordCall, BatchInv, markers
<1>14. CASE PersistItems
  <2>1. /\ pc = "persist" /\ pc' = "mark" /\ UNCHANGED <<row, kind, attempts, box, todo, cur>>
        /\ items' \subseteq items \cup {CurId}
    BY <1>14 DEF PersistItems, markers, scratch
  <2>2. cur \in todo
    BY <2>1 DEF TypeOK
  <2>3. \A q \in todo : IdOf[q] \in items' => q = cur
    BY <2>1, <2>2, OneCopy DEF BatchInv, CurId
  <2> QED
    BY <2>1, <2>3 DEF BatchInv, Settled
<1>15. CASE PersistFails \/ MarkFails
  <2>1. /\ pc \in {"persist", "mark"} /\ ToHandler(cur) /\ UNCHANGED markers
        /\ items' \subseteq items \cup {CurId}
    BY <1>15 DEF PersistFails, MarkFails, tables
  <2>2. cur \in todo /\ cur \in Mail
    BY <2>1 DEF TypeOK
  <2>3. \A q \in todo : IdOf[q] \in items' => q = cur
    BY <2>1, <2>2, OneCopy DEF BatchInv, CurId
  <2> QED
    BY <1>9, <2>1, <2>2, <2>3
<1>16. CASE MarkDone
  <2>1. cur \in todo
    BY <1>16 DEF MarkDone, TypeOK
  <2> QED
    BY <1>10, <1>16, <2>1 DEF MarkDone, NextMessage, CurId
<1>17. CASE HandleFailure
  <2>1. cur \in todo /\ UNCHANGED <<items, box>>
    BY <1>17 DEF HandleFailure, TypeOK
  <2>2. RecordFailure(CurId) \/ UNCHANGED <<row, kind, attempts>>
    BY <1>17 DEF HandleFailure, FailureNotRecorded, markers
  <2>3. todo' = {} \/ (pc' = "message" /\ todo' = todo \ {cur})
    BY <1>17 DEF HandleFailure, NextMessage
  <2>4. CASE pc' = "message" /\ todo' = todo \ {cur} /\ UNCHANGED <<row, kind, attempts>>
    BY <1>2, <2>1, <2>4 DEF BatchInv
  <2> QED
    BY <1>1, <1>10, <2>1, <2>2, <2>3, <2>4 DEF CurId
<1> QED
  BY <1>3, <1>4, <1>5, <1>6, <1>7, <1>8, <1>11, <1>12, <1>13, <1>14, <1>15, <1>16, <1>17
  DEF Next, JobStep, Mailboxes, Extraction
-----------------------------------------------------------------------------
\* What a message costs.

\* MarkerInv is inductive: a marker is soft-deleted only by the reset, and
\* attempts are counted on a live one.
LEMMA MarkerStep == TypeOK /\ MarkerInv /\ [Next]_vars => MarkerInv'
<1> SUFFICES ASSUME TypeOK, MarkerInv, [Next]_vars PROVE MarkerInv'
  OBVIOUS
<1> USE DEF MarkerInv
<1>1. ASSUME UNCHANGED <<markers, resets>> PROVE MarkerInv'
  BY <1>1 DEF markers
<1>2. CASE ResetFailed
  <2>1. /\ resets' # 0 /\ UNCHANGED attempts
        /\ \A i \in Ids : row'[i] = row[i] \/ row'[i] = "dead"
    BY <1>2 DEF ResetFailed, TypeOK
  <2> QED
    BY <2>1
<1>3. CASE ClassifyBatch
  <2>1. /\ UNCHANGED <<attempts, resets>>
        /\ \A i \in Ids : row'[i] = row[i] \/ row'[i] = "live"
    BY <1>3 DEF ClassifyBatch, TypeOK, bounds
  <2> QED
    BY <2>1
<1>4. ASSUME NEW i \in Ids, MarkSynced(i) \/ RecordFailure(i), UNCHANGED resets
      PROVE  MarkerInv'
  <2>1. \A j \in Ids : \/ row'[j] = row[j] /\ attempts'[j] = attempts[j]
                       \/ row'[j] = "live"
    BY <1>4 DEF MarkSynced, RecordFailure, TypeOK
  <2> QED
    BY <1>4, <2>1
<1>5. CASE MarkDone \/ HandleFailure \/ HandlerFails
  <2>1. CurId \in Ids
    BY <1>5, IdIsId DEF MarkDone, HandleFailure, HandlerFails, CurId, TypeOK
  <2> QED
    BY <1>1, <1>4, <1>5, <2>1 DEF MarkDone, HandleFailure, HandlerFails, FailureNotRecorded,
       Fault, bounds
<1>6. CASE \E p \in Mail : GateSkip(p)
  BY <1>4, <1>6, IdIsId DEF GateSkip, bounds
<1>7. CASE ~ (ResetFailed \/ ClassifyBatch \/ MarkDone \/ HandleFailure \/ HandlerFails
              \/ \E p \in Mail : GateSkip(p))
  <2>1. CASE World \/ Crash \/ UNCHANGED vars
    BY <1>1, <1>7, <2>1 DEF World, Arrive, BlockSender, LoseCredential, TokenExpires, NewDay,
       Crash, vars, tables, bounds
  <2>2. CASE Mailboxes
    BY <1>1, <1>7, <2>2 DEF Mailboxes, StartRun, FinishRun, StaleMailbox, SelectBatch,
       SkipMailbox, UnusableToken, ReaderError, ClassifyFails, FetchBodies, FinishMailbox,
       Fault, tables, bounds
  <2>3. CASE \E p \in Mail : Message(p)
    BY <1>1, <1>7, <2>3 DEF Message, GateSkipFails, CheckBudget, BudgetExhausted,
       BudgetFails, Fault, tables, bounds
  <2>4. CASE Extraction
    BY <1>1, <1>7, <2>4 DEF Extraction, RedactFails, Extract, ExtractFatal, RecordCall,
       PersistItems, PersistFails, MarkFails, Fault, tables, bounds
  <2> QED
    BY <2>1, <2>2, <2>3, <2>4 DEF Next, JobStep
<1> QED
  BY <1>2, <1>3, <1>5, <1>6, <1>7

\* One more crash or fault leaves room for a request that was not recorded.
LEMMA CostOfAccident ==
  ASSUME TypeOK, CostInv, UNCHANGED <<attempts, calls>>,
         resets' = 0 => resets = 0,
         faults' + crashes' = faults + crashes + 1, faults' \in Nat, crashes' \in Nat,
         \A i \in Ids : Processed(i) => Processed(i)'
  PROVE  CostInv'
<1> SUFFICES ASSUME resets' = 0, NEW i \in Ids
             PROVE  /\ calls'[i] <= MaxAttempts + faults' + crashes'
                    /\ ~ Processed(i)' =>
                         calls'[i] <= attempts'[i] + faults' + crashes' + InFlight(i)'
  BY DEF CostInv
<1>1. InFlight(i) \in {0, 1} /\ InFlight(i)' \in {0, 1}
  BY DEF InFlight
<1>2. calls[i] \in Nat /\ attempts[i] \in Nat /\ faults \in Nat /\ crashes \in Nat
      /\ MaxAttempts \in Nat
  BY SettingsAssumption DEF TypeOK
<1>3. calls[i] <= MaxAttempts + faults + crashes
  BY DEF CostInv
<1>4. ~ Processed(i) => calls[i] <= attempts[i] + faults + crashes + InFlight(i)
  BY DEF CostInv
<1> QED
  BY <1>1, <1>2, <1>3, <1>4

\* Steps that send nothing and strike no message in flight cost nothing.
LEMMA CostOfNothing ==
  ASSUME TypeOK, CostInv, UNCHANGED <<attempts, calls, faults, crashes>>,
         resets' = 0 => resets = 0,
         \A i \in Ids : Processed(i) => Processed(i)',
         \A i \in Ids : InFlight(i) <= InFlight(i)' \/ Processed(i)'
  PROVE  CostInv'
<1> SUFFICES ASSUME resets' = 0, NEW i \in Ids
             PROVE  /\ calls'[i] <= MaxAttempts + faults' + crashes'
                    /\ ~ Processed(i)' =>
                         calls'[i] <= attempts'[i] + faults' + crashes' + InFlight(i)'
  BY DEF CostInv
<1>1. InFlight(i) \in {0, 1} /\ InFlight(i)' \in {0, 1}
  BY DEF InFlight
<1>2. calls[i] \in Nat /\ attempts[i] \in Nat /\ faults \in Nat /\ crashes \in Nat
      /\ MaxAttempts \in Nat
  BY SettingsAssumption DEF TypeOK
<1>3. calls[i] <= MaxAttempts + faults + crashes
  BY DEF CostInv
<1>4. ~ Processed(i) => calls[i] <= attempts[i] + faults + crashes + InFlight(i)
  BY DEF CostInv
<1> QED
  BY <1>1, <1>2, <1>3, <1>4
\* No step but the reset takes a message back from the processed ones.
LEMMA ProcessedStays ==
  ASSUME TypeOK, BatchInv, [Next]_vars, ~ ResetFailed, NEW i \in Ids, Processed(i)
  PROVE  Processed(i)'
<1> USE DEF Processed
<1>1. CASE UNCHANGED <<markers, items>>
  BY <1>1 DEF markers
<1>2. ASSUME NEW j \in Ids, MarkSynced(j), UNCHANGED items PROVE Processed(i)'
  BY <1>2 DEF MarkSynced, TypeOK
<1>3. ASSUME NEW j \in Ids, RecordFailure(j), ~ Settled(j), UNCHANGED items
      PROVE  Processed(i)'
  BY <1>3 DEF RecordFailure, TypeOK, Settled
<1>4. CASE ClassifyBatch
  <2>1. UNCHANGED <<attempts, items>>
    BY <1>4 DEF ClassifyBatch
  <2>2. \/ row'[i] = row[i] /\ kind'[i] = kind[i]
        \/ row'[i] = "live" /\ kind'[i] = "none"
    BY <1>4 DEF ClassifyBatch, TypeOK
  <2> QED
    BY <2>1, <2>2
<1>5. CASE MarkDone \/ HandleFailure \/ HandlerFails
  <2>1. CurId \in Ids /\ ~ Settled(CurId)
    BY <1>5, IdIsId DEF MarkDone, HandleFailure, HandlerFails, CurId, TypeOK, BatchInv
  <2> QED
    BY <1>1, <1>2, <1>3, <1>5, <2>1 DEF MarkDone, HandleFailure, HandlerFails,
       FailureNotRecorded
<1>6. CASE \E p \in Mail : GateSkip(p)
  BY <1>2, <1>6, IdIsId DEF GateSkip
<1>7. CASE PersistItems \/ PersistFails
  BY <1>7 DEF PersistItems, PersistFails, markers
<1>8. CASE ~ (ClassifyBatch \/ MarkDone \/ HandleFailure \/ HandlerFails
              \/ PersistItems \/ PersistFails \/ \E p \in Mail : GateSkip(p))
  <2>1. CASE World \/ Crash \/ UNCHANGED vars
    BY <1>1, <2>1 DEF World, Arrive, BlockSender, LoseCredential, TokenExpires, NewDay, Crash,
       vars, tables
  <2>2. CASE Mailboxes
    BY <1>1, <1>8, <2>2 DEF Mailboxes, StartRun, FinishRun, StaleMailbox, SelectBatch,
       SkipMailbox, UnusableToken, ReaderError, ClassifyFails, FetchBodies, FinishMailbox,
       tables
  <2>3. CASE \E p \in Mail : Message(p)
    BY <1>1, <1>8, <2>3 DEF Message, GateSkipFails, CheckBudget, BudgetExhausted,
       BudgetFails, tables
  <2>4. CASE Extraction
    BY <1>1, <1>8, <2>4 DEF Extraction, RedactFails, Extract, ExtractFatal, RecordCall,
       MarkFails, tables
  <2> QED
    BY <2>1, <2>2, <2>3, <2>4 DEF Next, JobStep
<1> QED
  BY <1>4, <1>5, <1>6, <1>7, <1>8

\* A message about to be sent has attempts left.
LEMMA AttemptsLeft ==
  ASSUME TypeOK, BatchInv, MarkerInv, pc = "call", resets = 0
  PROVE  CurId \in Ids /\ ~ Processed(CurId) /\ attempts[CurId] < MaxAttempts
<1>1. CurId \in Ids /\ ~ Settled(CurId) /\ CurId \notin items
  BY IdIsId DEF CurId, TypeOK, BatchInv
<1> QED
  BY <1>1, SettingsAssumption DEF Settled, Processed, MarkerInv, TypeOK

\* CostInv is inductive: a request is in flight until an attempt, a success, a
\* crash or a fault accounts for it.
LEMMA CostStep ==
  TypeOK /\ BatchInv /\ MarkerInv /\ CostInv /\ [Next]_vars => CostInv'
<1> SUFFICES ASSUME TypeOK, BatchInv, MarkerInv, CostInv, [Next]_vars, resets' = 0
             PROVE  CostInv'
  BY DEF CostInv
<1>0. ~ ResetFailed /\ resets = 0
  <2>1. ~ ResetFailed
    BY DEF ResetFailed, TypeOK
  <2>2. World \/ Crash \/ UNCHANGED vars => UNCHANGED resets
    BY <2>1 DEF World, Arrive, BlockSender, LoseCredential, TokenExpires, NewDay, Crash, vars,
       bounds
  <2>3. Mailboxes => UNCHANGED resets
    BY DEF Mailboxes, StartRun, FinishRun, StaleMailbox, SelectBatch, SkipMailbox,
       UnusableToken, ReaderError, ClassifyBatch, ClassifyFails, FetchBodies, FinishMailbox,
       Fault, bounds
  <2>4. (\E p \in Mail : Message(p)) => UNCHANGED resets
    BY DEF Message, GateSkip, GateSkipFails, CheckBudget, BudgetExhausted, BudgetFails,
       Fault, bounds
  <2>5. Extraction => UNCHANGED resets
    BY DEF Extraction, RedactFails, Extract, ExtractFatal, RecordCall, PersistItems,
       PersistFails, MarkDone, MarkFails, HandleFailure, HandlerFails, FailureNotRecorded,
       Fault, bounds
  <2> QED
    BY <2>1, <2>2, <2>3, <2>4, <2>5 DEF Next, JobStep
<1>1. \A i \in Ids : Processed(i) => Processed(i)'
  BY <1>0, ProcessedStays
<1>2. ASSUME UNCHANGED <<attempts, calls, faults, crashes>>,
             \A i \in Ids : InFlight(i) <= InFlight(i)' \/ Processed(i)'
      PROVE  CostInv'
  BY <1>0, <1>1, <1>2, CostOfNothing
<1>3. ASSUME UNCHANGED <<attempts, calls>>, Fault /\ UNCHANGED crashes
      PROVE  CostInv'
  <2>1. faults' + crashes' = faults + crashes + 1 /\ faults' \in Nat /\ crashes' \in Nat
    BY <1>3 DEF Fault, TypeOK
  <2> QED
    BY <1>0, <1>1, <1>3, <2>1, CostOfAccident
<1>4. \A i \in Ids : pc \notin {"record", "persist", "mark", "handle"} => InFlight(i) = 0
  BY DEF InFlight
<1>5. \A i \in Ids : InFlight(i) \in {0, 1} /\ InFlight(i)' \in {0, 1}
  BY DEF InFlight
<1>6. \A i \in Ids : pc' \in {"record", "persist", "mark", "handle"} /\ cur' = cur
                     => InFlight(i) <= InFlight(i)'
  BY <1>5 DEF InFlight, CurId
<1>7. CASE World \/ UNCHANGED vars
  <2>1. UNCHANGED <<attempts, calls, faults, crashes, pc, cur>>
    BY <1>0, <1>7 DEF World, Arrive, BlockSender, LoseCredential, TokenExpires, NewDay, vars,
       tables, markers, history, bounds, job, scratch
  <2>2. \A i \in Ids : InFlight(i)' = InFlight(i)
    BY <2>1 DEF InFlight, CurId
  <2> QED
    BY <1>2, <1>5, <2>1, <2>2
<1>8. CASE Crash
  <2>1. /\ faults' + crashes' = faults + crashes + 1 /\ faults' \in Nat /\ crashes' \in Nat
        /\ UNCHANGED <<attempts, calls>>
    BY <1>8 DEF Crash, TypeOK, tables, markers, history
  <2> QED
    BY <1>0, <1>1, <2>1, CostOfAccident
<1>9. ASSUME pc \notin {"record", "persist", "mark", "handle"},
             UNCHANGED <<attempts, calls>>,
             UNCHANGED <<faults, crashes>> \/ (Fault /\ UNCHANGED crashes)
      PROVE  CostInv'
  BY <1>2, <1>3, <1>4, <1>5, <1>9
<1>10. CASE Mailboxes
  BY <1>9, <1>10 DEF Mailboxes, StartRun, FinishRun, StaleMailbox, SelectBatch, SkipMailbox,
     UnusableToken, ReaderError, ClassifyBatch, ClassifyFails, FetchBodies, FinishMailbox,
     Connects, Fault, bounds, history, tables, markers
<1>11. CASE \E p \in Mail : Message(p)
  BY <1>9, <1>11 DEF Message, GateSkip, GateSkipFails, CheckBudget, BudgetExhausted,
     BudgetFails, MarkSynced, Fault, bounds, history, tables, markers
<1>12. CASE RedactFails
  BY <1>9, <1>12 DEF RedactFails, Fault, history, tables, markers
<1>13. CASE Extract
  <2>1. /\ pc = "call" /\ pc' \in {"record", "handle"} /\ cur' = cur
        /\ calls' = [calls EXCEPT ![CurId] = @ + 1]
        /\ UNCHANGED <<row, kind, attempts, items, faults, crashes>>
    BY <1>13 DEF Extract, Sent, tables, markers, bounds
  <2>2. CurId \in Ids /\ ~ Processed(CurId) /\ attempts[CurId] < MaxAttempts
    BY <1>0, <2>1, AttemptsLeft
  <2>3. ASSUME NEW i \in Ids
        PROVE  /\ calls'[i] <= MaxAttempts + faults' + crashes'
               /\ ~ Processed(i)' =>
                    calls'[i] <= attempts'[i] + faults' + crashes' + InFlight(i)'
    <3>1. calls[i] \in Nat /\ attempts[i] \in Nat /\ faults \in Nat /\ crashes \in Nat
          /\ MaxAttempts \in Nat
      BY SettingsAssumption DEF TypeOK
    <3>2. /\ calls[i] <= MaxAttempts + faults + crashes
          /\ ~ Processed(i) => calls[i] <= attempts[i] + faults + crashes
      BY <1>0, <1>4, <2>1, <3>1 DEF CostInv
    <3>3. Processed(i)' = Processed(i)
      BY <2>1 DEF Processed
    <3>4. CASE i = CurId
      <4>1. InFlight(i)' = 1 /\ calls'[i] = calls[i] + 1 /\ attempts[i] < MaxAttempts
            /\ ~ Processed(i)
        BY <2>1, <2>2, <3>4 DEF InFlight, CurId, TypeOK
      <4> QED
        BY <2>1, <3>1, <3>2, <4>1
    <3>5. CASE i # CurId
      <4>1. InFlight(i)' \in {0, 1} /\ calls'[i] = calls[i]
        BY <1>5, <2>1, <3>5 DEF TypeOK
      <4> QED
        BY <2>1, <3>1, <3>2, <3>3, <4>1
    <3> QED
      BY <3>4, <3>5
  <2> QED
    BY <2>3 DEF CostInv
<1>14. CASE ExtractFatal
  <2>1. /\ pc = "call" /\ Fault /\ UNCHANGED crashes
        /\ calls' = [calls EXCEPT ![CurId] = @ + 1]
        /\ UNCHANGED <<row, kind, attempts, items>>
    BY <1>14 DEF ExtractFatal, Sent, Fault, tables, markers
  <2>2. CurId \in Ids
    BY <2>1, IdIsId DEF CurId, TypeOK
  <2>3. ASSUME NEW i \in Ids
        PROVE  /\ calls'[i] <= MaxAttempts + faults' + crashes'
               /\ ~ Processed(i)' =>
                    calls'[i] <= attempts'[i] + faults' + crashes' + InFlight(i)'
    <3>1. calls[i] \in Nat /\ attempts[i] \in Nat /\ faults \in Nat /\ crashes \in Nat
          /\ MaxAttempts \in Nat
      BY SettingsAssumption DEF TypeOK
    <3>2. /\ calls[i] <= MaxAttempts + faults + crashes
          /\ ~ Processed(i) => calls[i] <= attempts[i] + faults + crashes
      BY <1>0, <1>4, <2>1, <3>1 DEF CostInv
    <3>3. Processed(i)' = Processed(i)
      BY <2>1 DEF Processed
    <3>4. calls'[i] <= calls[i] + 1
      BY <2>1, <2>2, <3>1 DEF TypeOK
    <3>5. calls'[i] \in Nat
      BY <2>1, <2>2, <3>1 DEF TypeOK
    <3> QED
      BY <1>5, <2>1, <3>1, <3>2, <3>3, <3>4, <3>5 DEF Fault
  <2> QED
    BY <2>3 DEF CostInv
<1>15. CASE RecordCall \/ PersistItems \/ PersistFails \/ MarkFails
  <2>1. /\ UNCHANGED <<attempts, calls>>
        /\ UNCHANGED <<faults, crashes>> \/ (Fault /\ UNCHANGED crashes)
        /\ pc' \in {"record", "persist", "mark", "handle"} /\ cur' = cur
    BY <1>15 DEF RecordCall, PersistItems, PersistFails, MarkFails, ToHandler, Fault, bounds,
       history, tables, markers, scratch
  <2> QED
    BY <1>2, <1>3, <1>6, <2>1
<1>16. CASE MarkDone
  <2>1. pc = "mark" /\ MarkSynced(CurId) /\ UNCHANGED <<attempts, calls, faults, crashes>>
    BY <1>16 DEF MarkDone, MarkSynced, history, bounds
  <2>2. CurId \in Ids
    BY <2>1, IdIsId DEF CurId, TypeOK
  <2>3. ASSUME NEW i \in Ids, i = CurId PROVE Processed(i)'
    BY <2>1, <2>3 DEF MarkSynced, TypeOK, Processed
  <2>4. ASSUME NEW i \in Ids PROVE InFlight(i) <= InFlight(i)' \/ Processed(i)'
    <3>1. CASE i = CurId
      BY <2>3, <3>1
    <3>2. CASE i # CurId
      BY <1>5, <3>2 DEF InFlight
    <3> QED
      BY <3>1, <3>2
  <2> QED
    BY <1>2, <2>1, <2>4
<1>17. CASE HandleFailure /\ UNCHANGED bounds /\ RecordFailure(CurId)
  <2>1. /\ pc = "handle" /\ pc' \in {"stop", "message"}
        /\ UNCHANGED <<calls, faults, crashes, items>>
        /\ RecordFailure(CurId) /\ result \in {"transient", "permanent"}
    BY <1>17 DEF HandleFailure, NextMessage, history, bounds, TypeOK
  <2>2. CurId \in Ids /\ ~ Settled(CurId)
    BY <2>1, IdIsId DEF CurId, TypeOK, BatchInv
  <2>3. ASSUME NEW i \in Ids
        PROVE  /\ calls'[i] <= MaxAttempts + faults' + crashes'
               /\ ~ Processed(i)' =>
                    calls'[i] <= attempts'[i] + faults' + crashes' + InFlight(i)'
    <3>1. calls[i] \in Nat /\ attempts[i] \in Nat /\ faults \in Nat /\ crashes \in Nat
          /\ MaxAttempts \in Nat
      BY SettingsAssumption DEF TypeOK
    <3>2. /\ calls[i] <= MaxAttempts + faults + crashes
          /\ ~ Processed(i) => calls[i] <= attempts[i] + faults + crashes + InFlight(i)
      BY <1>0 DEF CostInv
    <3>3. InFlight(i)' = 0
      BY <2>1 DEF InFlight
    <3>4. CASE i = CurId
      <4>1. InFlight(i) = 1
        BY <2>1, <3>4 DEF InFlight
      <4>2. \/ Processed(i)'
            \/ attempts'[i] = attempts[i] + 1
        BY <2>1, <2>2, <3>1, <3>4, SettingsAssumption DEF RecordFailure, Processed, TypeOK
      <4>3. Processed(i) => Processed(i)'
        BY <1>1
      <4> QED
        BY <2>1, <3>1, <3>2, <3>3, <4>1, <4>2, <4>3
    <3>5. CASE i # CurId
      <4>1. InFlight(i) = 0
        BY <3>5 DEF InFlight
      <4>2. attempts'[i] = attempts[i] /\ (Processed(i) => Processed(i)')
        BY <1>1, <2>1, <2>2, <3>5 DEF RecordFailure, TypeOK
      <4> QED
        BY <2>1, <3>1, <3>2, <3>3, <4>1, <4>2
    <3> QED
      BY <3>4, <3>5
  <2> QED
    BY <2>3 DEF CostInv
<1>18. CASE HandleFailure /\ FailureNotRecorded(CurId)
  <2>1. CurId \in Ids /\ Insertable(CurId)
    BY <1>0, <1>18, IdIsId DEF HandleFailure, CurId, TypeOK, MarkerInv, Insertable
  <2>2. Fault /\ UNCHANGED <<attempts, calls, crashes>>
    BY <1>18, <2>1 DEF HandleFailure, FailureNotRecorded, Fault, history, markers
  <2> QED
    BY <1>3, <2>2
<1>19. CASE HandlerFails
  <2>1. /\ pc = "handle" /\ Fault /\ UNCHANGED <<calls, items>> /\ UNCHANGED crashes
        /\ RecordFailure(CurId) \/ UNCHANGED markers
        /\ CurId \in Ids /\ ~ Settled(CurId) /\ result \in {"transient", "permanent"}
    BY <1>19, IdIsId DEF HandlerFails, Fault, history, CurId, TypeOK, BatchInv
  <2>2. CASE UNCHANGED markers
    BY <1>3, <2>1, <2>2 DEF markers
  <2>3. ASSUME RecordFailure(CurId), NEW i \in Ids
        PROVE  /\ calls'[i] <= MaxAttempts + faults' + crashes'
               /\ ~ Processed(i)' =>
                    calls'[i] <= attempts'[i] + faults' + crashes' + InFlight(i)'
    <3>1. calls[i] \in Nat /\ attempts[i] \in Nat /\ faults \in Nat /\ crashes \in Nat
          /\ MaxAttempts \in Nat
      BY SettingsAssumption DEF TypeOK
    <3>2. /\ calls[i] <= MaxAttempts + faults + crashes
          /\ ~ Processed(i) => calls[i] <= attempts[i] + faults + crashes + InFlight(i)
      BY <1>0 DEF CostInv
    <3>3. Processed(i)' \/ attempts'[i] = attempts[i] \/ attempts'[i] = attempts[i] + 1
      BY <2>1, <2>3, <3>1, SettingsAssumption DEF RecordFailure, Processed, TypeOK
    <3>4. Processed(i) => Processed(i)'
      BY <1>1
    <3> QED
      BY <1>5, <2>1, <3>1, <3>2, <3>3, <3>4 DEF Fault
  <2> QED
    BY <2>1, <2>2, <2>3 DEF CostInv
<1> QED
  BY <1>7, <1>8, <1>10, <1>11, <1>12, <1>13, <1>14, <1>15, <1>16, <1>17, <1>18, <1>19
  DEF Next, JobStep, Extraction, HandleFailure

\* BoundedCalls: no message costs more than extraction_max_attempts requests,
\* plus one for each crash or fault that lost the record of one.
THEOREM CallsAreBounded == ASSUME UniqueIds PROVE Spec => []BoundedCalls
<1> DEFINE Inv == TypeOK /\ BatchInv /\ MarkerInv /\ CostInv
<1>1. Init => Inv
  <2>1. Init => TypeOK
    BY InitType
  <2>2. Init => BatchInv /\ MarkerInv
    BY DEF Init, BatchInv, MarkerInv
  <2>3. Init => CostInv
    BY SettingsAssumption DEF Init, CostInv, InFlight
  <2> QED
    BY <2>1, <2>2, <2>3
<1>2. Inv /\ [Next]_vars => Inv'
  BY BatchStep, MarkerStep, CostStep, TypeStep
<1>3. Inv => BoundedCalls
  BY DEF CostInv, BoundedCalls
<1> QED
  BY <1>1, <1>2, <1>3, PTL DEF Spec
-----------------------------------------------------------------------------
\* The job implements the ledger.

\* A message of the batch has no verdict until its items are stored.
LEMMA PendingInBatch ==
  ASSUME TypeOK, BatchInv, NEW p \in todo, IdOf[p] \notin items
  PROVE  IdOf[p] \in Ids /\ Verdicts[IdOf[p]] = "pending"
<1>1. IdOf[p] \in Ids /\ ~ Settled(IdOf[p])
  BY IdIsId DEF TypeOK, BatchInv
<1> QED
  BY <1>1 DEF Settled, Verdicts, Succeeded, GivenUp

\* Steps that touch neither the markers, the items nor the requests.
LEMMA LedgerStutters ==
  ASSUME UNCHANGED <<row, kind, attempts, items, calls>>
  PROVE  UNCHANGED Ledger!vars
BY DEF Ledger!vars, Verdicts, Succeeded, GivenUp

\* The verdicts of a set of pending messages become "done", the rest stay.
LEMMA LedgerSettles ==
  ASSUME NEW S \in SUBSET Ids, UNCHANGED calls,
         \A i \in S : Verdicts[i] = "pending" /\ Succeeded(i)',
         \A i \in Ids \ S : Succeeded(i)' = Succeeded(i) /\ GivenUp(i)' = GivenUp(i)
  PROVE  Ledger!Settle(S)
<1>1. Verdicts' = [i \in Ids |-> IF i \in S THEN "done" ELSE Verdicts[i]]
  BY DEF Verdicts
<1> QED
  BY <1>1 DEF Ledger!Settle

\* A success marker settles its message, or changes nothing the ledger sees.
LEMMA LedgerMarks ==
  ASSUME TypeOK, BatchInv, NEW p \in todo, MarkSynced(IdOf[p]), UNCHANGED <<items, calls>>
  PROVE  [Ledger!Next]_Ledger!vars
<1>1. IdOf[p] \in Ids
  BY IdIsId DEF TypeOK
<1>2. \A i \in Ids \ {IdOf[p]} : Succeeded(i)' = Succeeded(i) /\ GivenUp(i)' = GivenUp(i)
  BY <1>1 DEF MarkSynced, TypeOK, Succeeded, GivenUp
<1>3. Succeeded(IdOf[p])'
  <2>1. ASSUME NEW i \in Ids, i = IdOf[p] PROVE Succeeded(i)'
    BY <2>1 DEF MarkSynced, TypeOK, Succeeded
  <2> QED
    BY <1>1, <2>1
<1>4. CASE IdOf[p] \in items
  <2>1. \A i \in Ids : Verdicts'[i] = Verdicts[i]
    BY <1>2, <1>4 DEF Verdicts, Succeeded
  <2>2. Verdicts' = Verdicts
    BY <2>1 DEF Verdicts
  <2> QED
    BY <2>2 DEF Ledger!vars
<1>5. CASE IdOf[p] \notin items
  <2>1. Ledger!Settle({IdOf[p]})
    BY <1>1, <1>2, <1>3, <1>5, PendingInBatch, LedgerSettles
  <2> QED
    BY <1>1, <2>1 DEF Ledger!Next
<1> QED
  BY <1>4, <1>5

\* Stored items settle their message.
LEMMA LedgerStores ==
  ASSUME TypeOK, BatchInv, NEW p \in todo, IdOf[p] \notin items,
         items' \in {items, items \cup {IdOf[p]}}, UNCHANGED <<markers, calls>>
  PROVE  [Ledger!Next]_Ledger!vars
<1>1. IdOf[p] \in Ids
  BY IdIsId DEF TypeOK
<1>2. CASE items' = items
  BY <1>2, LedgerStutters DEF markers
<1>3. CASE items' = items \cup {IdOf[p]}
  <2>1. \A i \in Ids \ {IdOf[p]} : Succeeded(i)' = Succeeded(i) /\ GivenUp(i)' = GivenUp(i)
    BY <1>3 DEF Succeeded, GivenUp, markers
  <2>2. \A i \in {IdOf[p]} : Succeeded(i)'
    BY <1>3 DEF Succeeded
  <2>3. Ledger!Settle({IdOf[p]})
    BY <1>1, <2>1, <2>2, PendingInBatch, LedgerSettles
  <2> QED
    BY <1>1, <2>3 DEF Ledger!Next
<1> QED
  BY <1>2, <1>3

\* A recorded failure gives its message up or leaves it pending.
LEMMA LedgerFails ==
  ASSUME TypeOK, BatchInv, NEW p \in todo, RecordFailure(IdOf[p]),
         result \in {"transient", "permanent"}, UNCHANGED <<items, calls>>
  PROVE  [Ledger!Next]_Ledger!vars
<1>1. IdOf[p] \in Ids /\ ~ Settled(IdOf[p])
  BY IdIsId DEF TypeOK, BatchInv
<1>2. \A i \in Ids : i # IdOf[p] => Verdicts'[i] = Verdicts[i]
  BY <1>1 DEF RecordFailure, TypeOK, Verdicts, Succeeded, GivenUp
<1>3. ASSUME NEW i \in Ids, i = IdOf[p]
      PROVE  IF i \in items THEN Verdicts[i] = "done" /\ Verdicts'[i] = "done"
             ELSE Verdicts[i] = "pending" /\ Verdicts'[i] \in {"pending", "givenUp"}
  <2>1. row'[i] = "live" /\ kind'[i] # "none"
    BY <1>3 DEF RecordFailure, TypeOK
  <2>2. i \notin items => Verdicts[i] = "pending"
    BY <1>3, PendingInBatch
  <2> QED
    BY <1>3, <2>1, <2>2 DEF Verdicts, Succeeded
<1>4. CASE Verdicts' = Verdicts
  BY <1>4 DEF Ledger!vars
<1>5. CASE Verdicts' # Verdicts
  <2>1. Verdicts[IdOf[p]] = "pending" /\ Verdicts'[IdOf[p]] = "givenUp"
    <3>1. \E i \in Ids : Verdicts'[i] # Verdicts[i]
      BY <1>5 DEF Verdicts
    <3> QED
      BY <1>1, <1>2, <1>3, <3>1
  <2>2. Verdicts' = [Verdicts EXCEPT ![IdOf[p]] = "givenUp"]
    BY <1>1, <1>2, <2>1 DEF Verdicts
  <2>3. Ledger!GiveUp(IdOf[p])
    BY <2>1, <2>2 DEF Ledger!GiveUp
  <2> QED
    BY <1>1, <2>3 DEF Ledger!Next
<1> QED
  BY <1>4, <1>5

\* The reset reopens given-up messages only.
LEMMA LedgerReopens == TypeOK /\ ResetFailed => [Ledger!Next]_Ledger!vars
<1> SUFFICES ASSUME TypeOK, ResetFailed PROVE [Ledger!Next]_Ledger!vars
  OBVIOUS
<1>1. PICK K \in {{"transient", "permanent"}, {"transient"}, {"permanent"}} :
        row' = [i \in Ids |-> IF row[i] = "live" /\ kind[i] \in K THEN "dead" ELSE row[i]]
  BY DEF ResetFailed
<1>2. UNCHANGED <<kind, attempts, items, calls>>
  BY DEF ResetFailed, history
<1> DEFINE S == {i \in Ids : Verdicts[i] = "givenUp" /\ kind[i] \in K}
<1>3. ASSUME NEW i \in Ids
      PROVE  Verdicts'[i] = IF i \in S THEN "pending" ELSE Verdicts[i]
  <2>1. "none" \notin K
    BY <1>1
  <2>2. Succeeded(i)' = Succeeded(i)
    BY <1>1, <1>2, <2>1 DEF Succeeded
  <2>3. GivenUp(i)' = (GivenUp(i) /\ kind[i] \notin K)
    BY <1>1, <1>2 DEF GivenUp
  <2> QED
    BY <2>2, <2>3 DEF Verdicts
<1>4. Verdicts' = [i \in Ids |-> IF i \in S THEN "pending" ELSE Verdicts[i]]
  BY <1>3 DEF Verdicts
<1>5. Ledger!Reopen(S)
  BY <1>2, <1>4 DEF Ledger!Reopen
<1> QED
  BY <1>5 DEF Ledger!Next

\* Every step of the system is a step of the ledger, or one it does not see.
LEMMA LedgerStep == TypeOK /\ BatchInv /\ [Next]_vars => [Ledger!Next]_Ledger!vars
<1> SUFFICES ASSUME TypeOK, BatchInv, [Next]_vars PROVE [Ledger!Next]_Ledger!vars
  OBVIOUS
<1>0. pc \in {"call", "record", "persist", "mark", "handle"} => cur \in todo /\ CurId \in Ids
  BY IdIsId DEF TypeOK, CurId
<1>1. ASSUME UNCHANGED <<tables, calls>> \/ UNCHANGED <<markers, items, calls>>
      PROVE  [Ledger!Next]_Ledger!vars
  BY <1>1, LedgerStutters DEF tables, markers
<1>2. CASE World \/ Crash \/ UNCHANGED vars
  BY <1>1, <1>2, LedgerReopens DEF World, Arrive, BlockSender, LoseCredential, TokenExpires,
     NewDay, Crash, vars, history
<1>3. CASE ClassifyBatch
  <2> DEFINE S == {IdOf[p] : p \in NewlyBlocked}
  <2>1. /\ pc = "headers" /\ UNCHANGED <<attempts, items, calls>>
        /\ row' = [i \in Ids |-> IF i \in S THEN "live" ELSE row[i]]
        /\ kind' = [i \in Ids |-> IF i \in S THEN "none" ELSE kind[i]]
    BY <1>3 DEF ClassifyBatch, history
  <2>2. \A p \in NewlyBlocked : IdOf[p] \in Ids /\ Verdicts[IdOf[p]] = "pending"
    BY <2>1, PendingInBatch DEF NewlyBlocked, BatchInv
  <2>3. S \in SUBSET Ids /\ \A i \in S : Verdicts[i] = "pending"
    BY <2>2
  <2>4. \A i \in S : Succeeded(i)'
    BY <2>1, <2>3 DEF Succeeded
  <2>5. \A i \in Ids \ S : Succeeded(i)' = Succeeded(i) /\ GivenUp(i)' = GivenUp(i)
    BY <2>1 DEF Succeeded, GivenUp
  <2>6. Ledger!Settle(S)
    BY <2>1, <2>3, <2>4, <2>5, LedgerSettles
  <2> QED
    BY <2>3, <2>6 DEF Ledger!Next
<1>4. CASE Mailboxes /\ ~ ClassifyBatch
  BY <1>1, <1>4 DEF Mailboxes, StartRun, FinishRun, StaleMailbox, SelectBatch, SkipMailbox,
     UnusableToken, ReaderError, ClassifyFails, FetchBodies, FinishMailbox, history
<1>5. ASSUME NEW p \in Mail, Message(p) PROVE [Ledger!Next]_Ledger!vars
  <2>1. CASE GateSkip(p)
    BY <2>1, LedgerMarks DEF GateSkip
  <2> QED
    BY <1>1, <1>5, <2>1 DEF Message, GateSkipFails, CheckBudget, BudgetExhausted,
       BudgetFails, history
<1>6. CASE Extract \/ ExtractFatal
  <2>1. /\ pc = "call" /\ UNCHANGED <<row, kind, attempts, items>>
        /\ calls' = [calls EXCEPT ![CurId] = @ + 1]
    BY <1>6 DEF Extract, ExtractFatal, Sent, tables, markers
  <2>2. CurId \in Ids /\ Verdicts[CurId] = "pending"
    BY <1>0, <2>1, PendingInBatch DEF CurId, BatchInv
  <2>3. UNCHANGED Verdicts
    BY <2>1 DEF Verdicts, Succeeded, GivenUp
  <2>4. Ledger!Call(CurId)
    BY <2>1, <2>2, <2>3 DEF Ledger!Call
  <2> QED
    BY <2>2, <2>4 DEF Ledger!Next
<1>7. CASE RedactFails \/ RecordCall \/ MarkFails
  BY <1>1, <1>7 DEF RedactFails, RecordCall, MarkFails, history
<1>8. CASE PersistItems \/ PersistFails
  <2>1. /\ pc = "persist" /\ UNCHANGED <<markers, calls>>
        /\ items' \in {items, items \cup {CurId}}
    BY <1>8 DEF PersistItems, PersistFails, history
  <2> QED
    BY <1>0, <2>1, LedgerStores DEF CurId, BatchInv
<1>9. CASE MarkDone
  BY <1>0, <1>9, LedgerMarks DEF MarkDone, CurId, history
<1>10. CASE HandleFailure \/ HandlerFails
  <2>1. /\ pc = "handle" /\ UNCHANGED <<items, calls>>
        /\ RecordFailure(CurId) \/ UNCHANGED markers
    BY <1>10 DEF HandleFailure, HandlerFails, FailureNotRecorded, history
  <2>2. result \in {"transient", "permanent"}
    BY <2>1 DEF TypeOK
  <2> QED
    BY <1>0, <1>1, <2>1, <2>2, LedgerFails DEF CurId
<1> QED
  BY <1>2, <1>3, <1>4, <1>5, <1>6, <1>7, <1>8, <1>9, <1>10 DEF Next, JobStep, Extraction

\* ImplementsLedger: no message with a verdict is ever sent to the model again,
\* no success is taken back, and only the reset reopens a given-up message.
THEOREM SyncImplementsLedger == ASSUME UniqueIds PROVE Spec => ImplementsLedger
<1>1. Init => TypeOK /\ BatchInv /\ Ledger!Init
  <2>1. Init => Verdicts = [i \in Ids |-> "pending"]
    BY DEF Init, Verdicts, Succeeded, GivenUp
  <2> QED
    BY <2>1, InitType DEF Init, BatchInv, Ledger!Init
<1>2. TypeOK /\ BatchInv /\ [Next]_vars => TypeOK' /\ BatchInv'
  BY TypeStep, BatchStep
<1> QED
  BY <1>1, <1>2, LedgerStep, PTL DEF Spec, ImplementsLedger, Ledger!Spec
-----------------------------------------------------------------------------
\* The day's budget.

\* Between the check and the record nobody else spends a call of the user.
BudgetInv ==
  /\ BudgetKept
  /\ pc \in {"call", "record"} => usage < DailyBudget

\* BudgetInv is inductive.
LEMMA BudgetStep == TypeOK /\ BudgetInv /\ [Next]_vars => BudgetInv'
<1> SUFFICES ASSUME TypeOK, BudgetInv, [Next]_vars PROVE BudgetInv'
  OBVIOUS
<1> USE SettingsAssumption DEF BudgetInv, BudgetKept
<1>0. usage \in Nat \/ usage = -1
  BY DEF TypeOK, NoRow
<1>1. ASSUME UNCHANGED usage, pc' \notin {"call", "record"} \/ UNCHANGED pc PROVE BudgetInv'
  BY <1>1
<1>2. CASE NewDay
  BY <1>2 DEF NewDay, NoRow
<1>3. CASE ~ NewDay /\ (World \/ Crash \/ UNCHANGED vars)
  BY <1>1, <1>3 DEF World, Arrive, BlockSender, LoseCredential, TokenExpires, ResetFailed,
     Crash, Forget, vars, tables, job
<1>4. CASE Mailboxes
  BY <1>1, <1>4 DEF Mailboxes, StartRun, FinishRun, StaleMailbox, SelectBatch, SkipMailbox,
     UnusableToken, ReaderError, ClassifyBatch, ClassifyFails, FetchBodies, FinishMailbox,
     Forget, FailRun, tables
<1>5. ASSUME NEW p \in Mail, Message(p) PROVE BudgetInv'
  <2>1. CASE CheckBudget(p)
    BY <1>0, <2>1 DEF CheckBudget, NoRow
  <2> QED
    BY <1>1, <1>5, <2>1 DEF Message, GateSkip, GateSkipFails, BudgetExhausted, BudgetFails,
       NextMessage, ToHandler, tables
<1>6. CASE RecordCall
  BY <1>0, <1>6 DEF RecordCall, NoRow
<1>7. CASE Extract
  BY <1>7 DEF Extract, tables
<1>8. CASE Extraction /\ ~ RecordCall /\ ~ Extract
  BY <1>1, <1>8 DEF Extraction, RedactFails, ExtractFatal, PersistItems, PersistFails,
     MarkDone, MarkFails, HandleFailure, HandlerFails, NextMessage, ToHandler, Forget,
     FailRun, tables
<1> QED
  BY <1>2, <1>3, <1>4, <1>5, <1>6, <1>7, <1>8 DEF Next, JobStep

\* BudgetKept: the calls counted for a day stay within the daily budget.
THEOREM BudgetIsKept == Spec => []BudgetKept
<1>1. Init => BudgetInv
  BY SettingsAssumption DEF Init, BudgetInv, BudgetKept, NoRow
<1>2. BudgetInv => BudgetKept
  BY DEF BudgetInv
<1> QED
  BY <1>1, <1>2, InitType, TypeStep, BudgetStep, PTL DEF Spec

-----------------------------------------------------------------------------
\* The report of a run.

\* A mailbox that was skipped had lost its credential: if every mailbox so far
\* was skipped, every mailbox so far has lost it.
SkipInv ==
  /\ pc = "idle" <=> box = 0
  /\ box = 0 => reauth = 0
  /\ box > 0 => reauth < box
  /\ pc = "stop" => box \in Boxes
  /\ reauth + 1 = box => \A b \in Boxes : b < box => cred[b] # "ok"

\* SkipInv is inductive, and a run that ends under it reports the truth.
LEMMA SkipStep ==
  TypeOK /\ SkipInv /\ ReauthOnlyIfAllLost /\ [Next]_vars
    => SkipInv' /\ ReauthOnlyIfAllLost'
<1> SUFFICES ASSUME TypeOK, SkipInv, ReauthOnlyIfAllLost, [Next]_vars
             PROVE  SkipInv' /\ ReauthOnlyIfAllLost'
  OBVIOUS
<1>0. /\ box \in Nat /\ reauth \in Nat /\ NumBoxes \in Nat \ {0} /\ Boxes = 1 .. NumBoxes
      /\ box <= NumBoxes + 1
  BY MailAssumption DEF TypeOK, Boxes
<1>1. ASSUME UNCHANGED <<box, reauth, cred, outcome>>, (pc' = "idle") = (pc = "idle"),
             pc' = "stop" => box \in Boxes
      PROVE  SkipInv' /\ ReauthOnlyIfAllLost'
  BY <1>1 DEF SkipInv, ReauthOnlyIfAllLost
<1>2. ASSUME Forget, outcome' \in {"none", "done", "failed"}
      PROVE  SkipInv' /\ ReauthOnlyIfAllLost'
  BY <1>2 DEF SkipInv, ReauthOnlyIfAllLost, Forget
<1>3. CASE World \/ UNCHANGED vars
  <2>1. CASE \E b \in Boxes : LoseCredential(b) \/ TokenExpires(b)
    <3>1. UNCHANGED job /\ \A b \in Boxes : cred[b] # "ok" => cred'[b] # "ok"
      BY <2>1 DEF LoseCredential, TokenExpires, TypeOK
    <3> QED
      BY <3>1 DEF SkipInv, ReauthOnlyIfAllLost, job, scratch
  <2> QED
    BY <1>1, <1>3, <2>1 DEF World, Arrive, BlockSender, NewDay, ResetFailed, vars, world,
       job, scratch, SkipInv
<1>4. CASE Crash \/ StaleMailbox \/ UnusableToken \/ ReaderError \/ ClassifyFails
           \/ ExtractFatal \/ HandlerFails
  BY <1>2, <1>4 DEF Crash, StaleMailbox, UnusableToken, ReaderError, ClassifyFails,
     ExtractFatal, HandlerFails, FailRun
<1>5. CASE FinishRun
  <2>1. CASE reauth # NumBoxes
    BY <1>2, <1>5, <2>1 DEF FinishRun
  <2>2. CASE reauth = NumBoxes
    <3>1. pc # "stop" /\ pc # "idle"
      BY <1>0, <1>5, <2>2 DEF FinishRun, SkipInv
    <3>2. box = NumBoxes + 1
      BY <1>0, <2>2, <3>1 DEF SkipInv
    <3>3. \A b \in Boxes : cred[b] # "ok"
      BY <1>0, <2>2, <3>2 DEF SkipInv
    <3> QED
      BY <1>5, <3>3 DEF FinishRun, Forget, SkipInv, ReauthOnlyIfAllLost, world
  <2> QED
    BY <2>1, <2>2
<1>6. CASE StartRun
  BY <1>0, <1>6 DEF StartRun, SkipInv, ReauthOnlyIfAllLost
<1>7. CASE SkipMailbox
  <2>1. /\ pc' = "list" /\ box' = box + 1 /\ reauth' = reauth + 1
        /\ UNCHANGED <<cred, outcome>>
        /\ cred[box] # "ok" /\ box \in Boxes
    BY <1>7 DEF SkipMailbox, world, Connects, MoreBoxes, TypeOK
  <2> QED
    BY <1>0, <2>1 DEF SkipInv, ReauthOnlyIfAllLost
<1>8. CASE FinishMailbox
  <2>1. /\ pc' = "list" /\ box' = box + 1 /\ reauth' = reauth /\ UNCHANGED <<cred, outcome>>
        /\ box \in Boxes
    BY <1>8 DEF FinishMailbox, world, TypeOK
  <2> QED
    BY <1>0, <2>1 DEF SkipInv, ReauthOnlyIfAllLost
<1>9. CASE SelectBatch \/ ClassifyBatch \/ FetchBodies
  BY <1>1, <1>9 DEF SelectBatch, ClassifyBatch, FetchBodies, world
<1>10. CASE \E p \in Mail : Message(p)
  BY <1>1, <1>10 DEF Message, GateSkip, GateSkipFails, CheckBudget, BudgetExhausted,
     BudgetFails, ToHandler, NextMessage, world, TypeOK
<1>11. CASE Extraction /\ ~ ExtractFatal /\ ~ HandlerFails
  BY <1>1, <1>11 DEF Extraction, RedactFails, Extract, RecordCall, PersistItems,
     PersistFails, MarkDone, MarkFails, HandleFailure, ToHandler, NextMessage, world,
     scratch, TypeOK
<1> QED
  BY <1>3, <1>4, <1>5, <1>6, <1>7, <1>8, <1>9, <1>10, <1>11 DEF Next, JobStep, Mailboxes,
     Extraction

\* ReauthOnlyIfAllLost: "sign in again" is never shown while a mailbox works.
THEOREM ReauthIsTrue == Spec => []ReauthOnlyIfAllLost
<1>1. Init => SkipInv /\ ReauthOnlyIfAllLost
  BY DEF Init, SkipInv, ReauthOnlyIfAllLost
<1> QED
  BY <1>1, InitType, TypeStep, SkipStep, PTL DEF Spec
-----------------------------------------------------------------------------
\* The per-run cap.

\* A nonempty set of naturals has a least element.
LEMMA HasLeast ==
  ASSUME NEW S \in SUBSET Nat, S # {}
  PROVE  \E m \in S : \A r \in S : m <= r
<1>1. PICK m \in S : \A r \in S : ~(<<r, m>> \in OpToRel(<, Nat))
  BY NatLessThanWellFounded, WFMin
<1>2. \A r \in S : ~(r < m)
  BY <1>1 DEF OpToRel
<1> QED
  BY <1>2

\* A finite one has a greatest: the element with the fewest above it.
LEMMA HasGreatest ==
  ASSUME NEW S \in SUBSET Nat, IsFiniteSet(S), S # {}
  PROVE  \E m \in S : \A r \in S : r <= m
<1> DEFINE Above(x) == {r \in S : r > x}
<1> DEFINE Counts == {Cardinality(Above(x)) : x \in S}
<1>1. \A x \in S : IsFiniteSet(Above(x)) /\ Cardinality(Above(x)) \in Nat
  <2> SUFFICES ASSUME NEW x \in S
               PROVE  IsFiniteSet(Above(x)) /\ Cardinality(Above(x)) \in Nat
    OBVIOUS
  <2>1. Above(x) \in SUBSET S
    OBVIOUS
  <2> QED
    BY <2>1, FS_Subset, FS_CardinalityType
<1>2. Counts \in SUBSET Nat /\ Counts # {}
  BY <1>1
<1>3. PICK least \in Counts : \A c \in Counts : least <= c
  <2> HIDE DEF Counts
  <2> QED
    BY <1>2, HasLeast
<1>4. PICK m \in S : \A r \in S : Cardinality(Above(m)) <= Cardinality(Above(r))
  BY <1>3
<1>5. ASSUME NEW r \in S, r > m PROVE FALSE
  <2>1. Above(r) \in SUBSET Above(m) /\ r \in Above(m) /\ r \notin Above(r)
    <3>1. r \in Nat /\ m \in Nat /\ S \subseteq Nat
      OBVIOUS
    <3>2. \A q \in S : q > r => q > m
      BY <1>5, <3>1
    <3>3. Above(r) \in SUBSET Above(m)
      BY <3>2, Zenon
    <3>4. ~ (r > r)
      BY <3>1
    <3>5. r \in Above(m) /\ r \notin Above(r)
      BY <1>5, <3>4, Zenon
    <3> QED
      BY <3>3, <3>5
  <2>2. Cardinality(Above(r)) <= Cardinality(Above(m)) /\ Above(r) # Above(m)
    BY <1>1, <2>1, FS_Subset
  <2>3. Cardinality(Above(r)) # Cardinality(Above(m))
    BY <1>1, <2>1, <2>2, FS_Subset
  <2> QED
    BY <1>1, <1>4, <2>2, <2>3
<1> QED
  BY <1>5

\* The batch taken from a set holds at most as many mails as the run still may.
LEMMA BatchWithinRemaining ==
  ASSUME NEW S \in SUBSET Mail, Remaining \in Nat
  PROVE  IsFiniteSet(Batch(S)) /\ Cardinality(Batch(S)) <= Remaining
<1> USE MailAssumption
<1>1. IsFiniteSet(S)
  BY FS_Subset
<1>2. Batch(S) \in SUBSET S
  BY DEF Batch
<1>3. IsFiniteSet(Batch(S)) /\ Cardinality(Batch(S)) \in Nat
  BY <1>1, <1>2, FS_Subset, FS_CardinalityType
<1>4. CASE Batch(S) = {}
  BY <1>3, <1>4, FS_EmptySet
<1>5. CASE Batch(S) # {}
  <2>1. PICK m \in Batch(S) : \A r \in Batch(S) : r <= m
    BY <1>2, <1>3, <1>5, HasGreatest
  <2> DEFINE Older == {q \in S : q < m}
  <2>2. m \in Nat /\ S \subseteq Nat /\ Cardinality(Older) < Remaining
    BY <1>2, <2>1 DEF Batch
  <2>3. Older \in SUBSET S /\ Batch(S) \ {m} \in SUBSET Older
    <3>1. \A r \in Batch(S) \ {m} : r \in S /\ r < m
      BY <1>2, <2>1, <2>2
    <3> QED
      BY <3>1
  <2>4. /\ IsFiniteSet(Older) /\ Cardinality(Older) \in Nat
        /\ Cardinality(Batch(S) \ {m}) <= Cardinality(Older)
    BY <1>1, <2>3, FS_Subset, FS_CardinalityType
  <2>5. Cardinality(Batch(S) \ {m}) = Cardinality(Batch(S)) - 1
    BY <1>3, <2>1, FS_RemoveElement
  <2> QED
    BY <1>3, <2>2, <2>4, <2>5
<1> QED
  BY <1>4, <1>5

\* What the run has taken and what it holds fit in its allowance.
RoomInv == taken + Cardinality(todo) <= PerRunCap

\* RoomInv is inductive when no mailbox holds two copies of an id.
LEMMA RoomStep ==
  ASSUME UniqueIds
  PROVE  TypeOK /\ RoomInv /\ [Next]_vars => RoomInv'
<1> SUFFICES ASSUME TypeOK, RoomInv, [Next]_vars PROVE RoomInv'
  OBVIOUS
<1> USE SettingsAssumption DEF RoomInv
<1>0. /\ taken \in Nat /\ todo \subseteq Mail
      /\ IsFiniteSet(todo) /\ Cardinality(todo) \in Nat
  BY MailAssumption, FS_Subset, FS_CardinalityType DEF TypeOK
<1>1. ASSUME taken' \in {taken, 0}, todo' \subseteq todo PROVE RoomInv'
  <2>1. Cardinality(todo') \in Nat /\ Cardinality(todo') <= Cardinality(todo)
    BY <1>0, <1>1, FS_Subset, FS_CardinalityType
  <2> QED
    BY <1>0, <1>1, <2>1
<1>2. ASSUME NEW p \in todo, NextMessage(p) PROVE RoomInv'
  <2>1. Cardinality(todo') = Cardinality(todo) - 1 /\ taken' = taken + 1
    BY <1>0, <1>2, FS_RemoveElement DEF NextMessage
  <2> QED
    BY <1>0, <2>1
<1>3. CASE SelectBatch
  <2>1. /\ todo' = Copies(box, Batch(Unsynced(box))) /\ taken' = taken
        /\ taken < PerRunCap /\ Remaining = PerRunCap - taken
    BY <1>0, <1>3 DEF SelectBatch, Connects, MoreBoxes, Remaining
  <2>2. Unsynced(box) \in SUBSET Mail
    BY DEF Unsynced, Window, TypeOK
  <2>3. Copies(box, Batch(Unsynced(box))) = Batch(Unsynced(box))
    BY DEF Copies, Batch, Unsynced, Window, UniqueIds, TypeOK
  <2>4. IsFiniteSet(todo') /\ Cardinality(todo') <= PerRunCap - taken
    BY <1>0, <2>1, <2>2, <2>3, BatchWithinRemaining
  <2>5. Cardinality(todo') \in Nat
    BY <2>4, FS_CardinalityType
  <2> QED
    BY <1>0, <2>1, <2>4, <2>5
<1>4. CASE World \/ Crash \/ UNCHANGED vars
  BY <1>1, <1>4 DEF World, Arrive, BlockSender, LoseCredential, TokenExpires, NewDay,
     ResetFailed, Crash, Forget, vars, job, scratch
<1>5. CASE Mailboxes /\ ~ SelectBatch
  BY <1>1, <1>5 DEF Mailboxes, StartRun, FinishRun, StaleMailbox, SkipMailbox,
     UnusableToken, ReaderError, ClassifyBatch, ClassifyFails, FetchBodies, FinishMailbox,
     Forget, FailRun
<1>6. ASSUME NEW p \in Mail, Message(p) PROVE RoomInv'
  <2>1. CASE GateSkip(p)
    BY <1>2, <2>1 DEF GateSkip
  <2> QED
    BY <1>1, <1>6, <2>1 DEF Message, GateSkipFails, CheckBudget, BudgetExhausted,
       BudgetFails, ToHandler
<1>7. CASE MarkDone \/ HandleFailure
  <2>1. cur \in todo
    BY <1>7 DEF MarkDone, HandleFailure, TypeOK
  <2> QED
    BY <1>1, <1>2, <1>7, <2>1 DEF MarkDone, HandleFailure
<1>8. CASE Extraction /\ ~ MarkDone /\ ~ HandleFailure
  BY <1>1, <1>8 DEF Extraction, RedactFails, Extract, ExtractFatal, RecordCall, PersistItems,
     PersistFails, MarkFails, HandlerFails, ToHandler, Forget, FailRun, scratch
<1> QED
  BY <1>3, <1>4, <1>5, <1>6, <1>7, <1>8 DEF Next, JobStep

\* RunCap: however many mailboxes, copies apart, a run works off no more
\* messages than its cap.
THEOREM RunCapHolds == ASSUME UniqueIds PROVE Spec => []RunCap
<1>1. Init => RoomInv
  BY FS_EmptySet, SettingsAssumption DEF Init, RoomInv
<1>2. TypeOK /\ RoomInv => RunCap
  <2> SUFFICES ASSUME TypeOK, RoomInv PROVE RunCap
    OBVIOUS
  <2>1. Cardinality(todo) \in Nat
    BY MailAssumption, FS_Subset, FS_CardinalityType DEF TypeOK
  <2> QED
    BY <2>1, SettingsAssumption DEF RoomInv, RunCap, TypeOK
<1> QED
  BY <1>1, <1>2, InitType, TypeStep, RoomStep, PTL DEF Spec
=============================================================================
