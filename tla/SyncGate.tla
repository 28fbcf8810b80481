------------------------------ MODULE SyncGate ------------------------------
(***************************************************************************)
(* Who may run a user's sync, and when: the in-process registry            *)
(* (services/sync_state.py) between the sync endpoint, the hourly tick     *)
(* (services/auto_sync.py), the jobs they start and the app that polls     *)
(* GET /sync/status (frontend/lib/items/sync_service.dart).  The registry  *)
(* is only touched between two awaits, so each of its calls is one atomic  *)
(* step; a restart forgets it together with every job.                     *)
(***************************************************************************)
EXTENDS Naturals

CONSTANTS Users,
          Cooldown,    \* sync_cooldown_seconds, in ticks of the clock
          MaxPolls,    \* maxPolls of SyncService.run
          MaxRestarts  \* bound on restarts of the process

ASSUME GateAssumption == /\ Cooldown \in Nat /\ MaxPolls \in Nat \ {0}
                         /\ MaxRestarts \in Nat

VARIABLES
  active,      \* users the tick's query selects: not deleted, not dormant
  connected,   \* users with at least one mailbox
  status,      \* SyncState.status; "idle" also for a missing entry
  since,       \* time since finished_monotonic, up to Cooldown; Never if None
  queued,      \* users with a job added to BackgroundTasks, response not sent yet
  jobs,        \* running run_sync_job calls per user
  ticking,     \* is auto_sync_tick running?
  left,        \* its candidates not visited yet
  awaited,     \* the user whose job it awaits, as a set
  client,      \* what the app's sync call is doing
  polls,       \* polls it has made
  restarts,    \* bound
  rest,        \* history: time since the user's last job ended, up to Cooldown
  forgot,      \* history: users of whose last job's end the process has no memory
  fresh        \* history: users with a job ended since the app's last request

registry == <<status, since>>
tick == <<ticking, left, awaited>>
app == <<client, polls>>
people == <<active, connected>>
past == <<rest, forgot>>
vars == <<people, registry, queued, jobs, tick, app, restarts, past, fresh>>

Never == Cooldown + 1

TypeOK ==
  /\ active \subseteq Users /\ connected \subseteq Users
  /\ status \in [Users -> {"idle", "running", "done", "failed"}]
  /\ since \in [Users -> 0 .. Never]
  /\ queued \subseteq Users
  /\ jobs \in [Users -> Nat]
  /\ ticking \in BOOLEAN /\ left \subseteq Users /\ awaited \subseteq Users
  /\ client \in [Users -> {"off", "polling", "done", "failed", "timeout", "cooldown"}]
  /\ polls \in [Users -> 0 .. MaxPolls]
  /\ \A u \in Users : client[u] = "polling" => polls[u] < MaxPolls
  /\ restarts \in Nat
  /\ rest \in [Users -> 0 .. Never] /\ forgot \subseteq Users /\ fresh \subseteq Users

Init ==
  /\ active \in SUBSET Users /\ connected \in SUBSET Users
  /\ status = [u \in Users |-> "idle"] /\ since = [u \in Users |-> Never]
  /\ queued = {} /\ jobs = [u \in Users |-> 0]
  /\ ticking = FALSE /\ left = {} /\ awaited = {}
  /\ client = [u \in Users |-> "off"] /\ polls = [u \in Users |-> 0]
  /\ restarts = 0
  /\ rest = [u \in Users |-> Never] /\ forgot = {} /\ fresh = {}

-----------------------------------------------------------------------------
\* sync_state

\* Elapsed time is below the cooldown (a cooldown of 0 switches the check off).
CoolingDown(u) == since[u] < Cooldown

\* Bug: try_start looks only at the cooldown.
MayStartTwice(u) == ~ CoolingDown(u)

\* Bug: try_start looks only at the run in flight.
MayStartHot(u) == status[u] # "running"

\* try_start answers "started".
MayStart(u) == status[u] # "running" /\ ~ CoolingDown(u)

\* Bug: the entry is written by the job's first progress report only.
MarkRunningLater(u) == UNCHANGED registry

\* Its effect: a new entry without a completion time.
MarkRunning(u) ==
  /\ status' = [status EXCEPT ![u] = "running"]
  /\ since' = [since EXCEPT ![u] = Never]

-----------------------------------------------------------------------------
\* POST /sync and the app's polling loop.

\* The answer was "started": the job runs once the response is out.
StartSync(u) ==
  /\ client[u] # "polling" /\ MayStart(u)
  /\ MarkRunning(u)
  /\ queued' = queued \cup {u}
  /\ client' = [client EXCEPT ![u] = "polling"] /\ polls' = [polls EXCEPT ![u] = 0]
  /\ fresh' = fresh \ {u}
  /\ UNCHANGED <<people, jobs, tick, restarts, past>>

\* The answer was "already_running": the app polls the run in flight.
JoinSync(u) ==
  /\ client[u] # "polling" /\ status[u] = "running"
  /\ client' = [client EXCEPT ![u] = "polling"] /\ polls' = [polls EXCEPT ![u] = 0]
  /\ fresh' = fresh \ {u}
  /\ UNCHANGED <<people, registry, queued, jobs, tick, restarts, past>>

\* 429: the app reports the cooldown.
RefuseSync(u) ==
  /\ client[u] # "polling" /\ status[u] # "running" /\ CoolingDown(u)
  /\ client' = [client EXCEPT ![u] = "cooldown"]
  /\ UNCHANGED <<people, registry, queued, jobs, tick, polls, restarts, past, fresh>>

\* Bug: the app takes any registry entry that is not "running" for the outcome.
PollTrustsIdle(u) ==
  /\ client[u] = "polling"
  /\ polls' = [polls EXCEPT ![u] = @ + 1]
  /\ client' = [client EXCEPT ![u] = IF status[u] # "running" THEN "done"
                                     ELSE IF polls[u] + 1 = MaxPolls THEN "timeout" ELSE @]
  /\ UNCHANGED <<people, registry, queued, jobs, tick, restarts, past, fresh>>

\* Bug: the poll that times out is not counted as the last.
PollOnceMore(u) ==
  /\ client[u] = "polling"
  /\ polls' = [polls EXCEPT ![u] = @ + 1]
  /\ client' = [client EXCEPT ![u] = IF status[u] \in {"done", "failed"} THEN status[u]
                                     ELSE IF polls[u] = MaxPolls THEN "timeout" ELSE @]
  /\ UNCHANGED <<people, registry, queued, jobs, tick, restarts, past, fresh>>

Poll(u) ==
  /\ client[u] = "polling"
  /\ polls' = [polls EXCEPT ![u] = @ + 1]
  /\ client' = [client EXCEPT ![u] = IF status[u] \in {"done", "failed"} THEN status[u]
                                     ELSE IF polls[u] + 1 = MaxPolls THEN "timeout" ELSE @]
  /\ UNCHANGED <<people, registry, queued, jobs, tick, restarts, past, fresh>>

-----------------------------------------------------------------------------
\* Jobs.

RunQueued(u) ==
  /\ u \in queued
  /\ queued' = queued \ {u} /\ jobs' = [jobs EXCEPT ![u] = @ + 1]
  /\ UNCHANGED <<people, registry, tick, app, restarts, past, fresh>>

\* progress: writes a whole new "running" entry.
Progress(u) ==
  /\ jobs[u] > 0
  /\ MarkRunning(u)
  /\ UNCHANGED <<people, queued, jobs, tick, app, restarts, past, fresh>>

\* Bug: the exception handlers of the job do not call fail.
EndJobUnreported(u) ==
  /\ jobs[u] > 0
  /\ status' \in {status, [status EXCEPT ![u] = "done"]}
  /\ since' = [since EXCEPT ![u] = 0]
  /\ rest' = [rest EXCEPT ![u] = 0] /\ forgot' = forgot \ {u}
  /\ jobs' = [jobs EXCEPT ![u] = @ - 1]
  /\ awaited' = awaited \ {u}
  /\ fresh' = fresh \cup {u}
  /\ UNCHANGED <<people, queued, ticking, left, app, restarts>>

\* finish or fail: the last registry call of a job; the tick moves on if it
\* was waiting for this job.
EndJob(u) ==
  /\ jobs[u] > 0
  /\ \E s \in {"done", "failed"} : status' = [status EXCEPT ![u] = s]
  /\ since' = [since EXCEPT ![u] = 0]
  /\ rest' = [rest EXCEPT ![u] = 0] /\ forgot' = forgot \ {u}
  /\ jobs' = [jobs EXCEPT ![u] = @ - 1]
  /\ awaited' = awaited \ {u}
  /\ fresh' = fresh \cup {u}
  /\ UNCHANGED <<people, queued, ticking, left, app, restarts>>

-----------------------------------------------------------------------------
\* The hourly tick; the scheduler never runs two at a time.

BeginTick ==
  /\ ~ ticking
  /\ ticking' = TRUE /\ left' = active
  /\ UNCHANGED <<people, registry, queued, jobs, awaited, app, restarts, past, fresh>>

\* The next candidate: still connected, and try_start says "started".
TickStart(u) ==
  /\ ticking /\ awaited = {} /\ u \in left
  /\ u \in connected /\ MayStart(u)
  /\ MarkRunning(u)
  /\ left' = left \ {u} /\ awaited' = {u}
  /\ jobs' = [jobs EXCEPT ![u] = @ + 1]
  /\ UNCHANGED <<people, queued, ticking, app, restarts, past, fresh>>

TickSkip(u) ==
  /\ ticking /\ awaited = {} /\ u \in left
  /\ u \notin connected \/ ~ MayStart(u)
  /\ left' = left \ {u}
  /\ UNCHANGED <<people, registry, queued, jobs, ticking, awaited, app, restarts, past, fresh>>

EndTick ==
  /\ ticking /\ left = {} /\ awaited = {}
  /\ ticking' = FALSE
  /\ UNCHANGED <<people, registry, queued, jobs, left, awaited, app, restarts, past, fresh>>

-----------------------------------------------------------------------------
\* The world.

Older(n) == IF n < Cooldown THEN n + 1 ELSE n

PassTime ==
  /\ since' = [u \in Users |-> Older(since[u])] /\ rest' = [u \in Users |-> Older(rest[u])]
  /\ UNCHANGED <<people, status, queued, jobs, tick, app, restarts, forgot, fresh>>

\* A user signs in, becomes dormant or deletes the account.
ChangeActive(u) ==
  /\ active' = IF u \in active THEN active \ {u} ELSE active \cup {u}
  /\ UNCHANGED <<connected, registry, queued, jobs, tick, app, restarts, past, fresh>>

\* A user connects a first or disconnects the last mailbox.
ChangeConnected(u) ==
  /\ connected' = IF u \in connected THEN connected \ {u} ELSE connected \cup {u}
  /\ UNCHANGED <<active, registry, queued, jobs, tick, app, restarts, past, fresh>>

\* The process dies with its registry, its jobs and its tick; the app polls on.
Restart ==
  /\ restarts < MaxRestarts /\ restarts' = restarts + 1
  /\ status' = [u \in Users |-> "idle"] /\ since' = [u \in Users |-> Never]
  /\ forgot' = Users
  /\ queued' = {} /\ jobs' = [u \in Users |-> 0]
  /\ ticking' = FALSE /\ left' = {} /\ awaited' = {}
  /\ UNCHANGED <<people, app, rest, fresh>>

-----------------------------------------------------------------------------
JobStep(u) == RunQueued(u) \/ Progress(u) \/ EndJob(u)
Tick == BeginTick \/ EndTick \/ \E u \in Users : TickStart(u) \/ TickSkip(u)

Next == \/ \E u \in Users : \/ StartSync(u) \/ JoinSync(u) \/ RefuseSync(u) \/ Poll(u)
                            \/ JobStep(u) \/ ChangeActive(u)
                            \/ ChangeConnected(u)
        \/ Tick \/ PassTime \/ Restart

Spec == Init /\ [][Next]_vars

\* Jobs end (SyncRun's RunEnds), the scheduler keeps firing, time passes.
FairSpec ==
  /\ Spec
  /\ \A u \in Users : WF_vars(RunQueued(u)) /\ WF_vars(EndJob(u)) /\ WF_vars(Poll(u))
  /\ WF_vars(Tick) /\ WF_vars(PassTime)

-----------------------------------------------------------------------------
(* Properties *)

Pending(u) == IF u \in queued THEN 1 ELSE 0

\* Auto and manual syncs never double-run: a user has at most one job, counting
\* the one that waits for its response to be sent.
SingleFlight == \A u \in Users : jobs[u] + Pending(u) <= 1

\* The registry says "running" exactly while a job exists: no user is locked
\* out by a run that is gone, and no run is invisible to the gate.
RegistryTellsTruth ==
  \A u \in Users : status[u] = "running" <=> jobs[u] + Pending(u) > 0

Starts(u) == jobs'[u] + Pending(u)' > jobs[u] + Pending(u)

\* While the process that ran it lives, no job starts within the cooldown of the
\* end of the user's last one, whichever of the two paths starts it and however
\* often the entry with that time was written over in between.  "completed syncs
\* are separated by a cooldown" (routers/sync.py:35-36) promises more: the time
\* of that end is in memory, and after a restart the code does start one.
CooldownUnlessRestarted ==
  [][\A u \in Users : Starts(u) => rest[u] >= Cooldown \/ u \in forgot]_vars

\* The app reports "done" or "failed" only about a run that ended after its request.
OutcomeIsFresh == \A u \in Users : client[u] \in {"done", "failed"} => u \in fresh

\* A user who stays active and connected is synced over and over, by the tick or by hand:
\* neither a failing run, nor another user's long run, nor the cooldown, nor a
\* restart stops the tick for good.
SyncedAgainAndAgain == \A u \in Users : [](u \in active /\ u \in connected) => []<>(jobs[u] > 0)
=============================================================================
