--------------------------- MODULE SyncGateProofs ---------------------------
(***************************************************************************)
(* SyncGate's safety properties, for every set of users and every cooldown.*)
(***************************************************************************)
EXTENDS SyncGate, TLAPS

\* What the registry knows is what the jobs do: an entry that is not "running"
\* carries the age of the user's last run unless a restart lost it, and the app only ever sees "done" or
\* "failed" if a run ended after its request.
AgeKnown ==
  \A u \in Users : status[u] # "running" => since[u] = rest[u] \/ u \in forgot
AppUpToDate == \A u \in Users : client[u] = "polling" /\ status[u] \in {"done", "failed"}
                                => u \in fresh

IInv == TypeOK /\ SingleFlight /\ RegistryTellsTruth /\ AgeKnown /\ AppUpToDate
        /\ OutcomeIsFresh

\* The initial state satisfies the invariant.
LEMMA InitIInv == Init => IInv
<1> SUFFICES ASSUME Init PROVE IInv
  OBVIOUS
<1> USE GateAssumption DEF Init, Never
<1>0. Never \in 0 .. Never
  OBVIOUS
<1>1. TypeOK
  <2>1. polls \in [Users -> 0 .. MaxPolls] /\ client \in [Users -> {"off"}]
    OBVIOUS
  <2>2. /\ since \in [Users -> 0 .. Never] /\ rest \in [Users -> 0 .. Never]
        /\ jobs \in [Users -> Nat] /\ status \in [Users -> {"idle"}]
    BY <1>0
  <2> QED
    BY <2>1, <2>2 DEF TypeOK
<1>2. \A u \in Users : jobs[u] = 0 /\ Pending(u) = 0 /\ status[u] = "idle"
                       /\ client[u] = "off" /\ since[u] = rest[u]
  BY DEF Pending
<1> QED
  BY <1>1, <1>2 DEF IInv, SingleFlight, RegistryTellsTruth, AgeKnown, AppUpToDate,
     OutcomeIsFresh

\* The variables keep their types.
LEMMA TypeStep == TypeOK /\ [Next]_vars => TypeOK'
<1> SUFFICES ASSUME TypeOK, [Next]_vars PROVE TypeOK'
  OBVIOUS
<1> USE GateAssumption DEF TypeOK, Never
<1> USE DEF people, registry, tick, app, past
<1>1. ASSUME NEW u \in Users, StartSync(u) PROVE TypeOK'
  BY <1>1 DEF StartSync, MarkRunning
<1>2. ASSUME NEW u \in Users, JoinSync(u) PROVE TypeOK'
  BY <1>2 DEF JoinSync
<1>3. ASSUME NEW u \in Users, RefuseSync(u) PROVE TypeOK'
  BY <1>3 DEF RefuseSync
<1>4. ASSUME NEW u \in Users, Poll(u) PROVE TypeOK'
  <2>1. client' \in [Users -> {"off", "polling", "done", "failed", "timeout", "cooldown"}]
    BY <1>4 DEF Poll
  <2>2. polls' \in [Users -> 0 .. MaxPolls]
    BY <1>4 DEF Poll
  <2> QED
    BY <1>4, <2>1, <2>2 DEF Poll
<1>5. ASSUME NEW u \in Users, RunQueued(u) PROVE TypeOK'
  BY <1>5 DEF RunQueued
<1>6. ASSUME NEW u \in Users, Progress(u) PROVE TypeOK'
  BY <1>6 DEF Progress, MarkRunning
<1>7. ASSUME NEW u \in Users, EndJob(u) PROVE TypeOK'
  BY <1>7 DEF EndJob
<1>8. ASSUME NEW u \in Users, ChangeActive(u) \/ ChangeConnected(u) PROVE TypeOK'
  BY <1>8 DEF ChangeActive, ChangeConnected
<1>9. CASE BeginTick \/ EndTick
  BY <1>9 DEF BeginTick, EndTick
<1>10. ASSUME NEW u \in Users, TickStart(u) \/ TickSkip(u) PROVE TypeOK'
  BY <1>10 DEF TickStart, TickSkip, MarkRunning
<1>11. CASE PassTime
  <2>1. \A n \in 0 .. Never : Older(n) \in 0 .. Never
    BY DEF Older
  <2>2. /\ since' \in [Users -> 0 .. Never]
        /\ rest' \in [Users -> 0 .. Never]
    BY <1>11, <2>1 DEF PassTime
  <2> QED
    BY <1>11, <2>2 DEF PassTime
<1>12. CASE Restart
  <2>0. Never \in 0 .. Never
    OBVIOUS
  <2>1. /\ since' \in [Users -> 0 .. Never] /\ rest' \in [Users -> 0 .. Never]
        /\ jobs' \in [Users -> Nat] 
        /\ status' \in [Users -> {"idle", "running", "done", "failed"}]
    BY <1>12, <2>0 DEF Restart
  <2>2. /\ queued' = {} /\ ticking' = FALSE /\ left' = {} /\ awaited' = {}
        /\ restarts' \in Nat
    BY <1>12 DEF Restart
  <2>3. UNCHANGED <<active, connected, client, polls, rest, fresh>> /\ forgot' = Users
    BY <1>12 DEF Restart
  <2> QED
    BY <2>1, <2>2, <2>3
<1>13. CASE UNCHANGED vars
  BY <1>13 DEF vars
<1> QED
  BY <1>1, <1>2, <1>3, <1>4, <1>5, <1>6, <1>7, <1>8, <1>9, <1>10, <1>11, <1>12, <1>13
  DEF Next, JobStep, Tick

\* One user's part of the invariant, as one formula, so that a step that
\* touches one user leaves the others' parts alone.
Good(u) ==
  /\ jobs[u] + Pending(u) <= 1
  /\ status[u] = "running" <=> jobs[u] + Pending(u) > 0
  /\ status[u] # "running" => since[u] = rest[u] \/ u \in forgot
  /\ client[u] = "polling" /\ status[u] \in {"done", "failed"} => u \in fresh
  /\ client[u] \in {"done", "failed"} => u \in fresh

\* Every user's part is preserved by every step.
LEMMA GoodStep == TypeOK /\ (\A u \in Users : Good(u)) /\ [Next]_vars
                  => \A u \in Users : Good(u)'
<1> SUFFICES ASSUME TypeOK, \A u \in Users : Good(u), [Next]_vars, NEW v \in Users
             PROVE  Good(v)'
  OBVIOUS
<1> USE GateAssumption DEF TypeOK, Good, Pending
<1> USE DEF people, registry, tick, app, past
<1>1. ASSUME NEW u \in Users, StartSync(u) PROVE Good(v)'
  BY <1>1 DEF StartSync, MarkRunning, MayStart
<1>2. ASSUME NEW u \in Users, JoinSync(u) \/ RefuseSync(u) PROVE Good(v)'
  BY <1>2 DEF JoinSync, RefuseSync
<1>3. ASSUME NEW u \in Users, Poll(u) PROVE Good(v)'
  BY <1>3 DEF Poll
<1>4. ASSUME NEW u \in Users, RunQueued(u) PROVE Good(v)'
  BY <1>4 DEF RunQueued
<1>5. ASSUME NEW u \in Users, Progress(u) PROVE Good(v)'
  BY <1>5 DEF Progress, MarkRunning
<1>6. ASSUME NEW u \in Users, EndJob(u) PROVE Good(v)'
  BY <1>6 DEF EndJob
<1>7. ASSUME NEW u \in Users, ChangeActive(u) \/ ChangeConnected(u) PROVE Good(v)'
  BY <1>7 DEF ChangeActive, ChangeConnected
<1>8. CASE BeginTick \/ EndTick
  BY <1>8 DEF BeginTick, EndTick
<1>9. ASSUME NEW u \in Users, TickStart(u) PROVE Good(v)'
  BY <1>9 DEF TickStart, MarkRunning, MayStart
<1>10. ASSUME NEW u \in Users, TickSkip(u) PROVE Good(v)'
  BY <1>10 DEF TickSkip
<1>11. CASE PassTime
  BY <1>11 DEF PassTime
<1>12. CASE Restart
  BY <1>12 DEF Restart
<1>13. CASE UNCHANGED vars
  BY <1>13 DEF vars
<1> QED
  BY <1>1, <1>2, <1>3, <1>4, <1>5, <1>6, <1>7, <1>8, <1>9, <1>10, <1>11, <1>12, <1>13
  DEF Next, JobStep, Tick

\* The invariant holds in every reachable state.
THEOREM Invariance == Spec => []IInv
<1>1. IInv <=> TypeOK /\ \A u \in Users : Good(u)
  BY DEF IInv, SingleFlight, RegistryTellsTruth, AgeKnown, AppUpToDate, OutcomeIsFresh, Good
<1>2. IInv /\ [Next]_vars => IInv'
  BY <1>1, TypeStep, GoodStep DEF IInv, SingleFlight, RegistryTellsTruth, AgeKnown,
     AppUpToDate, OutcomeIsFresh, Good
<1> QED
  BY InitIInv, <1>2, PTL DEF Spec

\* The variables keep their types.
THEOREM TypeCorrect == Spec => []TypeOK
BY Invariance, PTL DEF IInv

\* Auto and manual syncs never double-run, for every set of users.
THEOREM NeverTwoRuns == Spec => []SingleFlight
BY Invariance, PTL DEF IInv

\* The registry's "running" and the jobs agree: nobody is locked out.
THEOREM NoPhantomRun == Spec => []RegistryTellsTruth
BY Invariance, PTL DEF IInv

\* The app never reports the outcome of a run that ended before its request.
THEOREM AppSeesOwnRun == Spec => []OutcomeIsFresh
BY Invariance, PTL DEF IInv

\* Every start, manual or by the tick, respects the cooldown of a run that ended
\* in this process.
THEOREM CooldownHolds == Spec => CooldownUnlessRestarted
<1>1. ASSUME IInv, [Next]_vars, NEW u \in Users, Starts(u)
      PROVE  rest[u] >= Cooldown \/ u \in forgot
  <2> USE GateAssumption DEF TypeOK, Starts, Pending, people, registry, tick, app, past
  <2>1. TypeOK /\ AgeKnown
    BY <1>1 DEF IInv
  <2>2. ASSUME NEW w \in Users, StartSync(w) \/ TickStart(w) PROVE w = u
    BY <1>1, <2>1, <2>2 DEF StartSync, TickStart
  <2>3. ASSUME StartSync(u) \/ TickStart(u)
        PROVE  rest[u] >= Cooldown \/ u \in forgot
    BY <2>1, <2>3 DEF StartSync, TickStart, MayStart, CoolingDown, AgeKnown, Never
  <2>4. ASSUME NEW w \in Users, JoinSync(w) \/ RefuseSync(w) \/ Poll(w) \/ JobStep(w)
                                \/ ChangeActive(w) \/ ChangeConnected(w) \/ TickSkip(w)
        PROVE  FALSE
    BY <1>1, <2>1, <2>4 DEF JoinSync, RefuseSync, Poll, JobStep, RunQueued, Progress,
       EndJob, ChangeActive, ChangeConnected, TickSkip
  <2>5. ASSUME BeginTick \/ EndTick \/ PassTime \/ Restart \/ UNCHANGED vars PROVE FALSE
    BY <1>1, <2>1, <2>5 DEF BeginTick, EndTick, PassTime, Restart, vars
  <2> QED
    BY <1>1, <2>2, <2>3, <2>4, <2>5 DEF Next, Tick
<1>2. IInv /\ [Next]_vars
      => [\A u \in Users : Starts(u) => rest[u] >= Cooldown \/ u \in forgot]_vars
  BY <1>1
<1> QED
  BY Invariance, <1>2, PTL DEF Spec, CooldownUnlessRestarted
=============================================================================
