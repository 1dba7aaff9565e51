--------------------- MODULE DispatcherExclusionProofs ---------------------
(***************************************************************************)
(* A worker works on one task at a time and holds the leases of that task, *)
(* so that two workers never work in one repository: for every number of   *)
(* workers and tasks, every dispatch and every timeout, and all handlers.  *)
(* What has to be assumed is no more than that a request which releases a  *)
(* lease, or frees a worker, does not come while work goes on under it     *)
(* (ReleasesUnderWork of Dispatcher).                                      *)
(*                                                                         *)
(* An attempt is under way from the claim to its end (Engaged).  Every     *)
(* function of runtime-state.ts keeps three facts about the tasks with     *)
(* such an attempt: their worker's currentTaskId names them, their leases  *)
(* last as long as the attempt, and their worker holds all of them.        *)
(***************************************************************************)
EXTENDS DispatcherAttemptProofs

(* The task has been claimed and its attempt has not ended. *)
Engaged(s, t) ==
    s.tasks[t].status \in {"assigned", "in_progress"} /\ ~Ended(s.taskAttempts[t])

TtlOf(s, t) == Latest(s.taskAttempts[t]).ttl

(* No lease that the worker of the attempt holds ends before the attempt. *)
LeasesLast(s, t) ==
    Engaged(s, t) =>
        \A r \in ResourcesOf(s, t) :
            HeldBy(s.leases, r, s.tasks[t].worker) => s.leases[r].ttl >= TtlOf(s, t)

Last(s) == \A t \in TaskIds : LeasesLast(s, t)

(* The worker's current task is the one it has claimed, and an idle worker  *)
(* has none.                                                                *)
HasCurrent(s, t) ==
    Engaged(s, t) =>
        s.tasks[t].worker \in Workers /\ s.workers[s.tasks[t].worker].currentTask = t

IdleFree(s) ==
    \A w \in Workers : s.workers[w].status \in {"absent", "idle"} =>
                            s.workers[w].currentTask = NoTask

One(s) == IdleFree(s) /\ \A t \in TaskIds : HasCurrent(s, t)

(* While the attempt lasts its worker holds every lease of the task. *)
LeasesHeld(s, t) ==
    Engaged(s, t) /\ TtlOf(s, t) > 0 =>
        \A r \in ResourcesOf(s, t) : HeldBy(s.leases, r, s.tasks[t].worker)

Held(s) == \A t \in TaskIds : LeasesHeld(s, t)

(* What a function keeps. *)
Kept(s, u) ==
    /\ Last(s) => Last(u)
    /\ One(s) => One(u)
    /\ Last(s) /\ One(s) /\ Held(s) => Held(u)

-----------------------------------------------------------------------------
(* What has to happen to a task for the facts to go *)

(* Whatever attempt is under way was under way before, as it is. *)
Stays(s, u, t) ==
    Engaged(u, t) =>
        /\ Engaged(s, t)
        /\ u.tasks[t].worker = s.tasks[t].worker /\ u.tasks[t].input = s.tasks[t].input
        /\ u.taskAttempts[t] = s.taskAttempts[t]

(* A lease goes to a worker that may have it. *)
Granted(s, u, r) ==
    \E w \in Workers : u.leases[r] = GrantedTo(w) /\ CanAcquire(s.leases, r, w)

LeasesMove(s, u) ==
    \A r \in Resources :
        u.leases[r] = s.leases[r] \/ u.leases[r] = NoLease \/ Granted(s, u, r)

(* The leases held for an attempt that is under way are not released. *)
SparesLeases(s, u, t) ==
    Engaged(u, t) =>
        \A r \in ResourcesOf(u, t) :
            HeldBy(s.leases, r, u.tasks[t].worker) =>
                u.leases[r] = s.leases[r] \/ Granted(s, u, r)

KeepsCurrent(s, u, t) ==
    Engaged(u, t) /\ u.tasks[t].worker \in Workers =>
        u.workers[u.tasks[t].worker].currentTask = s.workers[u.tasks[t].worker].currentTask

(* The resources of a task are among the resources that leases name. *)
LEMMA ResourcesOfType ==
    ASSUME NEW s, Sound(s), NEW t \in TaskIds
    PROVE  ResourcesOf(s, t) \subseteq Resources
<1> DEFINE input == s.tasks[t].input
           anchor == SessionAnchor(input)
<1>1. input \in TaskInput BY DEF Sound, RuntimeState, Task
<1>2. input.repo \in Repos /\ input.branch \in Branches BY <1>1 DEF TaskInput
<1>3. anchor \in TaskIds \cup {NoTask} BY <1>1 DEF TaskInput, SessionAnchor
<1>4. ResourcesOf(s, t) = {<<"assignment", t>>, <<"repo", input.repo>>,
                           <<"branch", input.repo, input.branch>>}
                          \cup IF anchor = NoTask THEN {}
                               ELSE {<<"session", input.repo, anchor>>}
  BY DEF ResourcesOf, TaskResources
<1> HIDE DEF input, anchor
<1>5. /\ <<"assignment", t>> \in Resources /\ <<"repo", input.repo>> \in Resources
      /\ <<"branch", input.repo, input.branch>> \in Resources
      /\ anchor # NoTask => <<"session", input.repo, anchor>> \in Resources
  BY <1>2, <1>3 DEF Resources
<1> QED BY <1>4, <1>5

(* The same input has the same resources. *)
LEMMA SameResources ==
    ASSUME NEW s, NEW u, NEW t, u.tasks[t].input = s.tasks[t].input
    PROVE  ResourcesOf(u, t) = ResourcesOf(s, t)
BY DEF ResourcesOf

LEMMA SameInputs ==
    ASSUME NEW s, NEW u, NEW t, u.tasks = s.tasks
    PROVE  ResourcesOf(u, t) = ResourcesOf(s, t)
BY DEF ResourcesOf

(* What two tasks need is of one repository. *)
LEMMA ResourceKinds ==
    ASSUME NEW s, NEW t, NEW r \in ResourcesOf(s, t)
    PROVE  \/ r[1] = "assignment" /\ r[2] = t
           \/ r[1] # "assignment" /\ r[2] = s.tasks[t].input.repo
BY DEF ResourcesOf, TaskResources

LEMMA SharedResource ==
    ASSUME NEW s, NEW t, NEW x, x # t, NEW r \in ResourcesOf(s, t), r \in ResourcesOf(s, x)
    PROVE  s.tasks[x].input.repo = s.tasks[t].input.repo
BY ResourceKinds

LEMMA SetStatusResources ==
    ASSUME NEW s, Sound(s), NEW t \in TaskIds, NEW status
    PROVE  ResourcesOf(SetStatus(s, t, status), t) = ResourcesOf(s, t)
<1>1. s \in RuntimeState /\ s.tasks \in [TaskIds -> Task] BY DEF Sound, RuntimeState
<1>2. SetStatus(s, t, status).tasks = [s.tasks EXCEPT ![t].status = status]
  BY <1>1 DEF SetStatus, RuntimeState
<1>3. SetStatus(s, t, status).tasks[t].input = s.tasks[t].input BY <1>1, <1>2 DEF Task
<1> QED BY <1>3, SameResources

(* An attempt under way is a task attempt. *)
LEMMA TtlType ==
    ASSUME NEW s, Sound(s), NEW t \in TaskIds, ~Ended(s.taskAttempts[t])
    PROVE  TtlOf(s, t) \in 0..LeaseTTL
<1>1. s.taskAttempts[t] \in Seq(Attempt) /\ s.taskAttempts[t] # <<>>
  BY AttemptsType DEF Ended
<1> QED BY <1>1, LatestType DEF TtlOf, Attempt

(* A held lease that is granted is granted to its holder. *)
LEMMA GrantedHeld ==
    ASSUME NEW s, NEW u, NEW r, NEW w \in Workers, HeldBy(s.leases, r, w), Granted(s, u, r)
    PROVE  u.leases[r] = GrantedTo(w)
BY DEF HeldBy, Granted, CanAcquire

LEMMA GrantedIsHeld ==
    ASSUME NEW u, NEW r, NEW w \in Workers, u.leases[r] = GrantedTo(w)
    PROVE  HeldBy(u.leases, r, w) /\ u.leases[r].ttl = LeaseTTL
BY LeasesAssumption DEF HeldBy, IsActive, GrantedTo

(* Nobody holds a lease that is free. *)
LEMMA FreeIsNotHeld ==
    ASSUME NEW u, NEW r, u.leases[r] = NoLease
    PROVE  \A w : ~HeldBy(u.leases, r, w)
BY DEF HeldBy, IsActive, NoLease

LEMMA StaysLast ==
    ASSUME NEW s, NEW u, Sound(u), NEW t \in TaskIds, Stays(s, u, t), LeasesMove(s, u),
           LeasesLast(s, t)
    PROVE  LeasesLast(u, t)
<1> DEFINE w == u.tasks[t].worker
<1> SUFFICES ASSUME Engaged(u, t), NEW r \in ResourcesOf(u, t), HeldBy(u.leases, r, w)
             PROVE  u.leases[r].ttl >= TtlOf(u, t)
  BY DEF LeasesLast
<1>1. /\ Engaged(s, t) /\ w = s.tasks[t].worker /\ ResourcesOf(u, t) = ResourcesOf(s, t)
      /\ TtlOf(u, t) = TtlOf(s, t)
  BY SameResources DEF Stays, TtlOf
<1>2. r \in Resources BY ResourcesOfType
<1>3. TtlOf(u, t) \in 0..LeaseTTL BY TtlType DEF Engaged
<1> HIDE DEF w
<1>4. CASE u.leases[r] = s.leases[r]
  <2>1. HeldBy(s.leases, r, w) BY <1>4 DEF HeldBy
  <2> QED BY <1>1, <1>4, <2>1 DEF LeasesLast
<1>5. CASE u.leases[r] = NoLease BY <1>5, FreeIsNotHeld
<1>6. CASE Granted(s, u, r)
  <2>1. u.leases[r].ttl = LeaseTTL BY <1>6, GrantedIsHeld DEF Granted
  <2> QED BY <1>3, <2>1, ConstantTypes
<1> QED BY <1>2, <1>4, <1>5, <1>6 DEF LeasesMove

LEMMA StaysHeld ==
    ASSUME NEW s, NEW u, Sound(s), Sound(u), NEW t \in TaskIds, Stays(s, u, t),
           SparesLeases(s, u, t), LeasesHeld(s, t)
    PROVE  LeasesHeld(u, t)
<1> DEFINE w == u.tasks[t].worker
<1> SUFFICES ASSUME Engaged(u, t), TtlOf(u, t) > 0, NEW r \in ResourcesOf(u, t)
             PROVE  HeldBy(u.leases, r, w)
  BY DEF LeasesHeld
<1>1. /\ Engaged(s, t) /\ w = s.tasks[t].worker /\ ResourcesOf(u, t) = ResourcesOf(s, t)
      /\ TtlOf(u, t) = TtlOf(s, t)
  BY SameResources DEF Stays, TtlOf
<1>2. w \in Workers \cup {None} BY DEF Sound, RuntimeState, Task
<1> HIDE DEF w
<1>3. HeldBy(s.leases, r, w) BY <1>1 DEF LeasesHeld
<1>4. w # None BY <1>3 DEF HeldBy, IsActive
<1>5. u.leases[r] = s.leases[r] \/ Granted(s, u, r) BY <1>3 DEF SparesLeases, w
<1>6. CASE u.leases[r] = s.leases[r] BY <1>3, <1>6 DEF HeldBy
<1>7. CASE Granted(s, u, r) BY <1>2, <1>3, <1>4, <1>7, GrantedHeld, GrantedIsHeld
<1> QED BY <1>5, <1>6, <1>7

LEMMA StaysCurrent ==
    ASSUME NEW s, NEW u, NEW t, Stays(s, u, t), KeepsCurrent(s, u, t), HasCurrent(s, t)
    PROVE  HasCurrent(u, t)
BY DEF Stays, KeepsCurrent, HasCurrent

(* A task whose leases have all just been granted to its worker. *)
LEMMA TakenLeases ==
    ASSUME NEW u, Sound(u), NEW t \in TaskIds, u.tasks[t].worker \in Workers,
           \A r \in ResourcesOf(u, t) : u.leases[r] = GrantedTo(u.tasks[t].worker)
    PROVE  LeasesLast(u, t) /\ LeasesHeld(u, t)
<1>1. Engaged(u, t) => TtlOf(u, t) \in 0..LeaseTTL BY TtlType DEF Engaged
<1>2. \A r \in ResourcesOf(u, t) :
        HeldBy(u.leases, r, u.tasks[t].worker) /\ u.leases[r].ttl = LeaseTTL
  BY GrantedIsHeld
<1> QED BY <1>1, <1>2, ConstantTypes DEF LeasesLast, LeasesHeld

(* A task that rests, or is cleaned up, is under way only if it was. *)
LEMMA CleansUpStays ==
    ASSUME NEW s, NEW u, NEW t, CleansUp(s, u, t)
    PROVE  Stays(s, u, t)
BY DEF CleansUp, Rests, Requeues, Expires, Stays, Engaged

LEMMA KeptTransitive ==
    ASSUME NEW s, NEW u, NEW v, Kept(s, u), Kept(u, v)
    PROVE  Kept(s, v)
BY DEF Kept

(* Tasks that stay, with their leases and workers, keep the three facts. *)
LEMMA StaysKept ==
    ASSUME NEW s, NEW u, Sound(s), Sound(u), LeasesMove(s, u),
           \A t \in TaskIds : Stays(s, u, t),
           One(s) => IdleFree(u) /\ \A t \in TaskIds : KeepsCurrent(s, u, t),
           One(s) => \A t \in TaskIds : SparesLeases(s, u, t)
    PROVE  Kept(s, u)
<1>1. Last(s) => Last(u) BY StaysLast DEF Last
<1>2. One(s) => One(u) BY StaysCurrent DEF One
<1>3. One(s) /\ Held(s) => Held(u) BY StaysHeld DEF Held
<1> QED BY <1>1, <1>2, <1>3 DEF Kept

-----------------------------------------------------------------------------
(* Leases *)

(* Attempts, workers and statuses are not leases. *)
LEMMA OthersKeepLeases ==
    ASSUME NEW s, Sound(s), NEW t \in TaskIds
    PROVE  /\ ReleaseWorkers(s, t).leases = s.leases
           /\ \A attempt : WithActiveAttempt(s, t, attempt).leases = s.leases
           /\ \A status : SetStatus(s, t, status).leases = s.leases
<1>1. s \in RuntimeState BY DEF Sound
<1>2. ReleaseWorkers(s, t).leases = s.leases BY <1>1 DEF ReleaseWorkers, RuntimeState
<1>3. \A attempt : WithActiveAttempt(s, t, attempt).leases = s.leases
  BY <1>1 DEF WithActiveAttempt, RuntimeState
<1>4. \A status : SetStatus(s, t, status).leases = s.leases BY <1>1 DEF SetStatus, RuntimeState
<1> QED BY <1>2, <1>3, <1>4

(* Leases are acquired only where nobody else has them, and all of them     *)
(* when there is no conflict.                                               *)
LEMMA AcquireEffect ==
    ASSUME NEW s, Sound(s), NEW t \in TaskIds, NEW w \in Workers
    PROVE  LET u == AcquireTaskLeases(s, t, w)
           IN /\ \A r \in Resources : u.leases[r] = s.leases[r] \/ Granted(s, u, r)
              /\ LeaseConflicts(s, t, w) = {} =>
                    \A r \in ResourcesOf(s, t) : u.leases[r] = GrantedTo(w)
<1> DEFINE u == AcquireTaskLeases(s, t, w)
           R == {r \in ResourcesOf(s, t) :
                    \A c \in LeaseConflicts(s, t, w) :
                        AcquisitionOrder[r[1]] < AcquisitionOrder[c[1]]}
<1>1. s \in RuntimeState /\ s.leases \in [Resources -> Lease] BY DEF Sound, RuntimeState
<1>2. u.leases = Acquire(s.leases, R, w) BY <1>1 DEF AcquireTaskLeases, RuntimeState
<1>3. \A r \in R : r \notin LeaseConflicts(s, t, w)
  <2> SUFFICES ASSUME NEW r \in R, r \in LeaseConflicts(s, t, w) PROVE FALSE OBVIOUS
  <2> DEFINE n == AcquisitionOrder[r[1]]
  <2>1. n < n OBVIOUS
  <2>2. r \in ResourcesOf(s, t) OBVIOUS
  <2>3. n \in Nat
    <3>1. r \in Resources BY <2>2, ResourcesOfType
    <3>2. r[1] \in {"assignment", "repo", "branch", "session"} BY <3>1 DEF Resources
    <3> QED BY <3>2 DEF AcquisitionOrder
  <2> QED BY <2>1, <2>3
<1>4. \A r \in R : CanAcquire(s.leases, r, w) BY <1>3 DEF LeaseConflicts
<1>5. LeaseConflicts(s, t, w) = {} => R = ResourcesOf(s, t) OBVIOUS
<1> HIDE DEF u, R
<1>6. \A r \in Resources : u.leases[r] = IF r \in R THEN GrantedTo(w) ELSE s.leases[r]
  BY <1>1, <1>2 DEF Acquire
<1>7. \A r \in Resources : u.leases[r] = s.leases[r] \/ Granted(s, u, r)
  BY <1>4, <1>6 DEF Granted
<1>8. LeaseConflicts(s, t, w) = {} => \A r \in ResourcesOf(s, t) : u.leases[r] = GrantedTo(w)
  BY <1>5, <1>6, ResourcesOfType
<1> QED BY <1>7, <1>8 DEF u

(* A worker releases its own leases only. *)
LEMMA ReleaseEffect ==
    ASSUME NEW s, Sound(s), NEW t \in TaskIds, NEW w
    PROVE  LET u == ReleaseTaskLeases(s, t, w)
           IN \A r \in Resources :
                \/ u.leases[r] = s.leases[r]
                \/ /\ u.leases[r] = NoLease /\ s.leases[r].owner = w
                   /\ r \in ResourcesOf(s, t)
<1>1. s \in RuntimeState /\ s.leases \in [Resources -> Lease] BY DEF Sound, RuntimeState
<1>2. ReleaseTaskLeases(s, t, w).leases = Release(s.leases, ResourcesOf(s, t), w)
  BY <1>1 DEF ReleaseTaskLeases, RuntimeState
<1> QED BY <1>1, <1>2 DEF Release

(* Those of a task that nobody has are nobody's. *)
LEMMA ReleaseOwnEffect ==
    ASSUME NEW s, Sound(s), NEW t \in TaskIds
    PROVE  LET u == ReleaseOwnTaskLeases(s, t)
           IN \A r \in Resources :
                \/ u.leases[r] = s.leases[r]
                \/ /\ u.leases[r] = NoLease /\ s.leases[r].owner = s.tasks[t].worker
                   /\ r \in ResourcesOf(s, t)
BY ReleaseEffect DEF ReleaseOwnTaskLeases

(* Acquiring spares what is held. *)
LEMMA AcquiresMoves ==
    ASSUME NEW s, NEW u, Sound(u),
           \A r \in Resources : u.leases[r] = s.leases[r] \/ Granted(s, u, r)
    PROVE  LeasesMove(s, u) /\ \A t \in TaskIds : SparesLeases(s, u, t)
BY ResourcesOfType DEF LeasesMove, SparesLeases

(* So does releasing what is another worker's. *)
LEMMA ReleasesMoves ==
    ASSUME NEW s, NEW u, Sound(u), NEW w,
           \A r \in Resources : \/ u.leases[r] = s.leases[r]
                                \/ u.leases[r] = NoLease /\ s.leases[r].owner = w
    PROVE  /\ LeasesMove(s, u)
           /\ \A t \in TaskIds : u.tasks[t].worker # w => SparesLeases(s, u, t)
BY ResourcesOfType DEF LeasesMove, SparesLeases, HeldBy

-----------------------------------------------------------------------------
(* reconcileRuntimeState *)

(* Only leases that have run out are reclaimed. *)
LEMMA ReclaimLeasesKept ==
    ASSUME NEW s, Sound(s), Owned(s)
    PROVE  Kept(s, ReclaimLeases(s))
<1> DEFINE u == ReclaimLeases(s)
<1>1. /\ Sound(u) /\ \A t \in TaskIds : Stays(s, u, t) BY ReclaimLeasesCleans, CleansUpStays
<1>2. s \in RuntimeState /\ s.leases \in [Resources -> Lease] BY DEF Sound, RuntimeState
<1>3. u.workers = s.workers /\ u.leases = ReclaimExpiredLeases(s.leases)
  BY <1>2 DEF ReclaimLeases, RuntimeState
<1> HIDE DEF u
<1>4. \A r \in Resources : u.leases[r] = IF IsActive(s.leases[r]) THEN s.leases[r] ELSE NoLease
  BY <1>2, <1>3 DEF ReclaimExpiredLeases
<1>5. LeasesMove(s, u) BY <1>4 DEF LeasesMove
<1>6. \A t \in TaskIds : SparesLeases(s, u, t)
  BY <1>1, <1>4, ResourcesOfType DEF SparesLeases, HeldBy
<1>7. One(s) => IdleFree(u) /\ \A t \in TaskIds : KeepsCurrent(s, u, t)
  BY <1>3 DEF One, IdleFree, KeepsCurrent
<1> QED BY <1>1, <1>5, <1>6, <1>7, StaysKept DEF u

(* Requeued tasks are ready; leases and workers are not touched. *)
LEMMA RequeueTasksEffect ==
    ASSUME NEW s, Sound(s), NEW T
    PROVE  LET u == RequeueTasks(s, T)
           IN /\ u.workers = s.workers /\ u.leases = s.leases
              /\ \A t \in TaskIds : t \in T => u.tasks[t].status = "ready"
              /\ \A t \in TaskIds : t \notin T => u.tasks[t] = s.tasks[t]
<1> DEFINE u == RequeueTasks(s, T)
           queued(t) == [s.tasks[t] EXCEPT !.status = "ready", !.worker = None,
                                           !.lastWorker = s.tasks[t].worker]
<1>1. s \in RuntimeState /\ s.tasks \in [TaskIds -> Task] BY DEF Sound, RuntimeState
<1>2. /\ u.workers = s.workers /\ u.leases = s.leases
      /\ \A t \in TaskIds : u.tasks[t] = IF t \in T THEN queued(t) ELSE s.tasks[t]
  BY <1>1 DEF RequeueTasks, RuntimeState
<1>3. \A t \in TaskIds : queued(t).status = "ready" BY <1>1 DEF Task
<1> HIDE DEF u, queued
<1> QED BY <1>2, <1>3 DEF u

(* Attempts that run out end with the leases of their workers. *)
LEMMA ReconcileExpiredAttemptsKept ==
    ASSUME NEW s, Sound(s), AttemptsGood(s)
    PROVE  Kept(s, ReconcileExpiredAttempts(s))
<1> DEFINE expired == ExpiredRunning(s)
           retried == {t \in expired : MayRetry(s, t)}
           failed == {t \in expired : ~MayRetry(s, t)}
           ended == EndExpiredAttempts(s)
           u == RequeueTasks(ended, retried)
           lost(r) == \E t \in expired : /\ r \in ResourcesOf(s, t)
                                         /\ s.leases[r].owner = s.tasks[t].worker
           let(w) == \E t \in expired : s.tasks[t].worker = w
<1>1. /\ s \in RuntimeState /\ s.workers \in [Workers -> Worker]
      /\ s.tasks \in [TaskIds -> Task] /\ s.leases \in [Resources -> Lease]
  BY DEF Sound, RuntimeState
<1>2. Sound(ended) BY EndExpiredAttemptsSound
<1>3. \A t \in expired : t \in TaskIds /\ Engaged(s, t)
  <2> SUFFICES ASSUME NEW t \in expired PROVE t \in TaskIds /\ Engaged(s, t) OBVIOUS
  <2>1. t \in TaskIds /\ s.tasks[t].status = "in_progress" /\ HasActiveAttempt(s, t)
    BY DEF ExpiredRunning
  <2> QED BY <2>1, EndedHasNone DEF Engaged
<1>4. ReconcileExpiredAttempts(s) = u BY DEF ReconcileExpiredAttempts
<1>5. Sound(u) /\ \A t \in TaskIds : Stays(s, u, t)
  BY <1>4, ReconcileExpiredAttemptsCleans, CleansUpStays
<1>6. /\ u.workers = ended.workers /\ u.leases = ended.leases
      /\ \A t \in TaskIds : t \in retried => u.tasks[t].status = "ready"
      /\ \A t \in TaskIds : t \notin retried => u.tasks[t] = ended.tasks[t]
  BY <1>2, RequeueTasksEffect
<1>7. \A r \in Resources : ended.leases[r] = IF lost(r) THEN NoLease ELSE s.leases[r]
  BY <1>1 DEF EndExpiredAttempts, RuntimeState
<1>8. \A w \in Workers : ended.workers[w] =
            IF let(w) THEN [s.workers[w] EXCEPT !.status = "offline", !.currentTask = NoTask]
            ELSE s.workers[w]
  BY <1>1 DEF EndExpiredAttempts, RuntimeState
<1>9. \A t \in failed : ended.tasks[t].status = "failed"
  <2>1. \A t \in failed : ended.tasks[t] = [s.tasks[t] EXCEPT !.status = "failed"]
    BY <1>1, <1>3 DEF EndExpiredAttempts, RuntimeState, ExpiredRunning
  <2>2. \A t \in failed : s.tasks[t] \in Task BY <1>1, <1>3
  <2> QED BY <2>1, <2>2 DEF Task
<1>10. \A x \in Worker : [x EXCEPT !.status = "offline", !.currentTask = NoTask].status = "offline"
  BY DEF Worker
<1>11. \A t \in expired : ~Engaged(u, t)
  <2> SUFFICES ASSUME NEW t \in expired PROVE u.tasks[t].status \in {"ready", "failed"}
    BY DEF Engaged
  <2>1. t \in TaskIds /\ (t \in retried \/ t \in failed) BY <1>3
  <2> HIDE DEF ended, u, expired, retried, failed
  <2>2. CASE t \in retried BY <1>6, <2>1, <2>2
  <2>3. CASE t \notin retried BY <1>6, <1>9, <2>1, <2>3
  <2> QED BY <2>2, <2>3
<1> HIDE DEF ended, u, expired, retried, failed
<1>12. ASSUME One(s), NEW t \in TaskIds, Engaged(u, t)
       PROVE  ~let(u.tasks[t].worker)
  <2> SUFFICES ASSUME NEW e \in expired, s.tasks[e].worker = u.tasks[t].worker PROVE FALSE
    OBVIOUS
  <2>1. Engaged(s, t) /\ s.tasks[t].worker = u.tasks[t].worker BY <1>5, <1>12 DEF Stays
  <2>2. e = t BY <1>3, <1>12, <2>1 DEF One, HasCurrent
  <2> QED BY <1>11, <1>12, <2>2
<1>13. LeasesMove(s, u) BY <1>6, <1>7 DEF LeasesMove
<1>14. ASSUME One(s), NEW t \in TaskIds PROVE SparesLeases(s, u, t)
  <2> SUFFICES ASSUME Engaged(u, t), NEW r \in ResourcesOf(u, t),
                      HeldBy(s.leases, r, u.tasks[t].worker)
               PROVE  u.leases[r] = s.leases[r]
    BY DEF SparesLeases
  <2>1. r \in Resources BY <1>5, ResourcesOfType
  <2>2. ~lost(r) BY <1>12, <1>14 DEF HeldBy
  <2> HIDE DEF lost
  <2> QED BY <1>6, <1>7, <2>1, <2>2
<1>15. ASSUME One(s) PROVE IdleFree(u)
  <2> SUFFICES ASSUME NEW w \in Workers, u.workers[w].status \in {"absent", "idle"}
               PROVE  u.workers[w].currentTask = NoTask
    BY DEF IdleFree
  <2>1. ~let(w)
    <3> SUFFICES ASSUME let(w) PROVE FALSE OBVIOUS
    <3>1. s.workers[w] \in Worker BY <1>1
    <3> HIDE DEF let
    <3>2. u.workers[w].status = "offline" BY <1>6, <1>8, <1>10, <3>1
    <3> QED BY <3>2
  <2> HIDE DEF let
  <2>2. u.workers[w] = s.workers[w] BY <1>6, <1>8, <2>1
  <2> QED BY <1>15, <2>2 DEF One, IdleFree
<1>16. ASSUME One(s), NEW t \in TaskIds PROVE KeepsCurrent(s, u, t)
  <2> SUFFICES ASSUME Engaged(u, t), u.tasks[t].worker \in Workers
               PROVE  u.workers[u.tasks[t].worker].currentTask
                        = s.workers[u.tasks[t].worker].currentTask
    BY DEF KeepsCurrent
  <2>1. ~let(u.tasks[t].worker) BY <1>12, <1>16
  <2> HIDE DEF let
  <2> QED BY <1>6, <1>8, <2>1
<1> QED BY <1>4, <1>5, <1>13, <1>14, <1>15, <1>16, StaysKept

(* A lost worker gives up the leases of the task it never claimed. *)
LEMMA ReconcileWorkersKept ==
    ASSUME NEW s, Sound(s), AttemptsGood(s)
    PROVE  Kept(s, ReconcileWorkers(s))
<1> DEFINE lost == LostWorkers(s)
           T == {s.workers[w].currentTask : w \in lost}
           offline == GoOffline(s)
           u == RequeueTasks(offline, T)
           gone == {w \in Workers : Registered(s, w)
                                    /\ (ResolvedStatus(s, w) = "offline" \/ w \in lost)}
           freed(r) == \E w \in lost : /\ r \in ResourcesOf(s, s.workers[w].currentTask)
                                       /\ s.leases[r].owner = w
           away(w) == [s.workers[w] EXCEPT
                        !.status = "offline",
                        !.currentTask = IF w \in lost THEN NoTask ELSE s.workers[w].currentTask]
<1>1. /\ s \in RuntimeState /\ s.workers \in [Workers -> Worker]
      /\ s.leases \in [Resources -> Lease]
  BY DEF Sound, RuntimeState
<1>2. Sound(offline) BY GoOfflineSound
<1>3. ReconcileWorkers(s) = u BY DEF ReconcileWorkers
<1>4. Sound(u) /\ \A t \in TaskIds : Stays(s, u, t)
  BY <1>3, ReconcileWorkersCleans, CleansUpStays
<1>5. /\ u.workers = offline.workers /\ u.leases = offline.leases
      /\ \A t \in TaskIds : t \in T => u.tasks[t].status = "ready"
  BY <1>2, RequeueTasksEffect
<1>6. \A r \in Resources : offline.leases[r] = IF freed(r) THEN NoLease ELSE s.leases[r]
  BY <1>1 DEF GoOffline, RuntimeState
<1>7. \A w \in Workers : offline.workers[w] = IF w \in gone THEN away(w) ELSE s.workers[w]
  BY <1>1 DEF GoOffline, RuntimeState
<1>8. \A w \in Workers : w \in lost => w \in gone BY DEF LostWorkers
<1>9. \A w \in Workers :
        /\ away(w).status = "offline"
        /\ w \notin lost => away(w).currentTask = s.workers[w].currentTask
  <2> SUFFICES ASSUME NEW w \in Workers
               PROVE  /\ away(w).status = "offline"
                      /\ w \notin lost => away(w).currentTask = s.workers[w].currentTask
    OBVIOUS
  <2>1. s.workers[w] \in Worker BY <1>1
  <2>2. \A x \in Worker : \A c : [x EXCEPT !.status = "offline", !.currentTask = c].status = "offline"
                                /\ [x EXCEPT !.status = "offline", !.currentTask = c].currentTask = c
    BY DEF Worker
  <2> HIDE DEF lost
  <2> QED BY <2>1, <2>2
<1> HIDE DEF offline, u, gone, away
<1>10. ASSUME One(s), NEW t \in TaskIds, Engaged(u, t)
       PROVE  u.tasks[t].worker \notin lost
  <2> SUFFICES ASSUME u.tasks[t].worker \in lost PROVE FALSE OBVIOUS
  <2>1. Engaged(s, t) /\ s.tasks[t].worker = u.tasks[t].worker BY <1>4, <1>10 DEF Stays
  <2>2. s.workers[u.tasks[t].worker].currentTask = t BY <1>10, <2>1 DEF One, HasCurrent
  <2>3. t \in T BY <2>2
  <2> QED BY <1>5, <1>10, <2>3 DEF Engaged
<1> HIDE DEF lost
<1>11. LeasesMove(s, u) BY <1>5, <1>6 DEF LeasesMove
<1>12. ASSUME One(s), NEW t \in TaskIds PROVE SparesLeases(s, u, t)
  <2> SUFFICES ASSUME Engaged(u, t), NEW r \in ResourcesOf(u, t),
                      HeldBy(s.leases, r, u.tasks[t].worker)
               PROVE  u.leases[r] = s.leases[r]
    BY DEF SparesLeases
  <2>1. r \in Resources BY <1>4, ResourcesOfType
  <2>2. ~freed(r) BY <1>10, <1>12 DEF HeldBy
  <2> HIDE DEF freed
  <2> QED BY <1>5, <1>6, <2>1, <2>2
<1>13. ASSUME One(s) PROVE IdleFree(u)
  <2> SUFFICES ASSUME NEW w \in Workers, u.workers[w].status \in {"absent", "idle"}
               PROVE  u.workers[w].currentTask = NoTask
    BY DEF IdleFree
  <2>1. u.workers[w] = s.workers[w] BY <1>5, <1>7, <1>9
  <2> QED BY <1>13, <2>1 DEF One, IdleFree
<1>14. ASSUME One(s), NEW t \in TaskIds PROVE KeepsCurrent(s, u, t)
  <2> SUFFICES ASSUME Engaged(u, t), u.tasks[t].worker \in Workers
               PROVE  u.workers[u.tasks[t].worker].currentTask
                        = s.workers[u.tasks[t].worker].currentTask
    BY DEF KeepsCurrent
  <2>1. u.tasks[t].worker \notin lost BY <1>10, <1>14
  <2> QED BY <1>5, <1>7, <1>9, <2>1
<1> QED BY <1>3, <1>4, <1>11, <1>12, <1>13, <1>14, StaysKept

(* What leaves leases and workers alone, and puts no task under way. *)
LEMMA SameLeasesKept ==
    ASSUME NEW s, NEW u, Sound(s), Sound(u), u.leases = s.leases, u.workers = s.workers,
           \A t \in TaskIds : Stays(s, u, t)
    PROVE  Kept(s, u)
<1>1. LeasesMove(s, u) /\ \A t \in TaskIds : SparesLeases(s, u, t)
  BY DEF LeasesMove, SparesLeases
<1>2. One(s) => IdleFree(u) /\ \A t \in TaskIds : KeepsCurrent(s, u, t)
  BY DEF One, IdleFree, KeepsCurrent
<1> QED BY <1>1, <1>2, StaysKept

LEMMA UnlockPlannedKept ==
    ASSUME NEW s, Sound(s), AttemptsGood(s)
    PROVE  Kept(s, UnlockPlanned(s))
<1> DEFINE u == UnlockPlanned(s)
<1>1. Sound(u) /\ \A t \in TaskIds : Stays(s, u, t) BY UnlockPlannedCleans, CleansUpStays
<1>2. s \in RuntimeState BY DEF Sound
<1>3. u.leases = s.leases /\ u.workers = s.workers BY <1>2 DEF UnlockPlanned, RuntimeState
<1> HIDE DEF u
<1> QED BY <1>1, <1>3, SameLeasesKept DEF u

(* So reconcileRuntimeState keeps them. *)
LEMMA ReconcileKept ==
    ASSUME NEW s, Sound(s), AttemptsGood(s)
    PROVE  Kept(s, Reconcile(s))
<1> DEFINE s1 == ReclaimLeases(s)
           s2 == ReconcileExpiredAttempts(s1)
           s3 == ReconcileWorkers(s2)
           s4 == UnlockPlanned(s3)
<1>1. Sound(s1) /\ AttemptsGood(s1) /\ Kept(s, s1)
  BY ReclaimLeasesCleans, CleansUpAttemptsGood, ReclaimLeasesKept DEF AttemptsGood
<1> HIDE DEF s1
<1>2. Sound(s2) /\ AttemptsGood(s2) /\ Kept(s1, s2)
  BY <1>1, ReconcileExpiredAttemptsCleans, CleansUpAttemptsGood, ReconcileExpiredAttemptsKept
<1> HIDE DEF s2
<1>3. Sound(s3) /\ AttemptsGood(s3) /\ Kept(s2, s3)
  BY <1>2, ReconcileWorkersCleans, CleansUpAttemptsGood, ReconcileWorkersKept
<1> HIDE DEF s3
<1>4. Kept(s3, s4) BY <1>3, UnlockPlannedKept
<1> HIDE DEF s4
<1>5. Kept(s, s4) BY <1>1, <1>2, <1>3, <1>4, KeptTransitive
<1> QED BY <1>5 DEF Reconcile, s1, s2, s3, s4

-----------------------------------------------------------------------------
(* Claim and start *)

(* Nothing is under way with the worker. *)
Free(s, w) == \A t \in TaskIds : Engaged(s, t) => s.tasks[t].worker # w

(* The worker has claimed no other task of the same repository. *)
ElsewhereBut(s, w, t) ==
    \A x \in TaskIds \ {t} : Engaged(s, x) /\ s.tasks[x].worker = w =>
        s.tasks[x].input.repo # s.tasks[t].input.repo

(* The worker has claimed no other task. *)
FreeBut(s, w, t) == \A x \in TaskIds \ {t} : Engaged(s, x) => s.tasks[x].worker # w

LEMMA FreeIsElsewhere ==
    ASSUME NEW s, NEW w, NEW t, FreeBut(s, w, t)
    PROVE  ElsewhereBut(s, w, t)
BY DEF FreeBut, ElsewhereBut

(* As is a worker whose current task is this one, or none. *)
LEMMA CurrentIsFreeBut ==
    ASSUME NEW s, One(s), NEW w \in Workers, NEW t, s.workers[w].currentTask \in {t, NoTask}
    PROVE  FreeBut(s, w, t)
<1>1. \A x \in TaskIds : x # NoTask BY ConstantTypes
<1> QED BY <1>1 DEF FreeBut, One, HasCurrent

(* A worker takes a task with all its leases, and had no other. *)
LEMMA TakesKept ==
    ASSUME NEW s, Sound(s), NEW u, Sound(u), NEW t \in TaskIds, NEW w \in Workers,
           u.tasks[t].worker = w, \A r \in ResourcesOf(u, t) : u.leases[r] = GrantedTo(w),
           \A r \in Resources : u.leases[r] = s.leases[r] \/ Granted(s, u, r),
           \A x \in TaskIds \ {t} : Stays(s, u, x),
           One(s) => FreeBut(s, w, t),
           u.workers[w].currentTask = t,
           u.workers[w].status = "busy" \/ u.workers[w] = s.workers[w],
           \A v \in Workers \ {w} : u.workers[v] = s.workers[v]
    PROVE  Kept(s, u)
<1>1. LeasesLast(u, t) /\ LeasesHeld(u, t) BY TakenLeases
<1>2. LeasesMove(s, u) /\ \A x \in TaskIds : SparesLeases(s, u, x) BY AcquiresMoves
<1>3. Last(s) => Last(u) BY <1>1, <1>2, StaysLast DEF Last
<1>4. Held(s) => Held(u) BY <1>1, <1>2, StaysHeld DEF Held
<1>5. ASSUME One(s) PROVE One(u)
  <2>1. IdleFree(u) BY <1>5 DEF One, IdleFree
  <2>2. HasCurrent(u, t) BY DEF HasCurrent
  <2>3. ASSUME NEW x \in TaskIds \ {t} PROVE HasCurrent(u, x)
    <3>1. Stays(s, u, x) /\ HasCurrent(s, x) /\ FreeBut(s, w, t) BY <1>5 DEF One
    <3>2. KeepsCurrent(s, u, x) BY <3>1 DEF KeepsCurrent, FreeBut, Stays
    <3> QED BY <3>1, <3>2, StaysCurrent
  <2> QED BY <2>1, <2>2, <2>3 DEF One
<1> QED BY <1>3, <1>4, <1>5 DEF Kept

(* A claim that meets a conflict keeps the leases it gained before it. *)
LEMMA AcquireKept ==
    ASSUME NEW s, Sound(s), NEW t \in TaskIds, NEW w \in Workers
    PROVE  Kept(s, AcquireTaskLeases(s, t, w))
<1> DEFINE u == AcquireTaskLeases(s, t, w)
<1>1. Sound(u) BY TaskLeasesSound
<1>2. u.tasks = s.tasks /\ u.taskAttempts = s.taskAttempts /\ u.workers = s.workers
  BY OthersKeepTasks, OthersKeepAttempts DEF KeepsTasks
<1>3. \A r \in Resources : u.leases[r] = s.leases[r] \/ Granted(s, u, r) BY AcquireEffect
<1> HIDE DEF u
<1>4. \A x \in TaskIds : Stays(s, u, x) BY <1>2 DEF Stays, Engaged
<1>5. LeasesMove(s, u) /\ \A x \in TaskIds : SparesLeases(s, u, x) BY <1>1, <1>3, AcquiresMoves
<1>6. One(s) => IdleFree(u) /\ \A x \in TaskIds : KeepsCurrent(s, u, x)
  BY <1>2 DEF One, IdleFree, KeepsCurrent
<1> QED BY <1>1, <1>4, <1>5, <1>6, StaysKept DEF u

(* The attempt of a claim is not a lease. *)
LEMMA TakeTaskLeases ==
    ASSUME NEW s, Sound(s), NEW t \in TaskIds, NEW w \in Workers
    PROVE  TakeTask(s, t, w).leases = AcquireTaskLeases(s, t, w).leases
<1> DEFINE a == AcquireTaskLeases(s, t, w)
<1>1. Sound(a) BY TaskLeasesSound
<1>2. TakeTask(s, t, w) = CreateOrReuseTaskAttempt(a, t, w) BY DEF TakeTask
<1> HIDE DEF a
<1>3. CreateOrReuseTaskAttempt(a, t, w).leases = a.leases
  BY <1>1, OthersKeepLeases DEF CreateOrReuseTaskAttempt, Sound, RuntimeState
<1> QED BY <1>2, <1>3 DEF a

(* What claims without a conflict have in common: a worker without another  *)
(* task takes this one.                                                     *)
LEMMA ClaimKept ==
    ASSUME NEW s, Sound(s), AttemptsGood(s), NEW t \in TaskIds, NEW w \in Workers, NEW v,
           Sound(v), LeaseConflicts(s, t, w) = {}, v.leases = TakeTask(s, t, w).leases,
           v.tasks[t].worker = w, v.tasks[t].input = s.tasks[t].input,
           ClaimsOrRests(s, v, w), \A x \in TaskIds \ {t} : Rests(s, v, x),
           s.workers[w].currentTask \in {t, NoTask}, v.workers[w].currentTask = t,
           v.workers[w].status = "busy" \/ v.workers[w] = s.workers[w],
           \A x \in Workers \ {w} : v.workers[x] = s.workers[x]
    PROVE  Kept(s, v)
<1> DEFINE a == AcquireTaskLeases(s, t, w)
<1>1. v.leases = a.leases BY TakeTaskLeases
<1>2. /\ \A r \in Resources : a.leases[r] = s.leases[r] \/ Granted(s, a, r)
      /\ \A r \in ResourcesOf(s, t) : a.leases[r] = GrantedTo(w)
  BY AcquireEffect
<1> HIDE DEF a
<1>3. /\ \A r \in Resources : v.leases[r] = s.leases[r] \/ Granted(s, v, r)
      /\ \A r \in ResourcesOf(v, t) : v.leases[r] = GrantedTo(w)
  BY <1>1, <1>2, SameResources DEF Granted
<1>4. \A x \in TaskIds \ {t} : Stays(s, v, x) BY CleansUpStays DEF CleansUp
<1>5. One(s) => FreeBut(s, w, t) BY CurrentIsFreeBut
<1> QED BY <1>3, <1>4, <1>5, TakesKept

(* A worker that has no task of its own has none at all. *)
LEMMA UnboundHasNone ==
    ASSUME NEW s, Sound(s), Follows(s), Owned(s), NEW w \in Workers, BoundTask(s, w) = NoTask
    PROVE  s.workers[w].currentTask = NoTask
<1> DEFINE t == s.workers[w].currentTask
<1> SUFFICES ASSUME t # NoTask PROVE FALSE OBVIOUS
<1>1. t \in TaskIds BY DEF Sound, RuntimeState, Worker
<1>2. s.tasks[t].status \in {"assigned", "in_progress"} BY DEF Owned
<1>3. RecordsAgree(s.tasks[t], s.assignments[t]) BY <1>1 DEF Follows
<1>4. s.assignments[t].status \in {"assigned", "in_progress"} BY <1>2, <1>3 DEF RecordsAgree
<1>5. BoundTask(s, w) = t BY <1>2, <1>4 DEF BoundTask
<1> QED BY <1>5

LEMMA ClaimBoundKept ==
    ASSUME NEW s, Sound(s), AttemptsGood(s), NEW t \in TaskIds, NEW w \in Workers,
           s.workers[w].currentTask = t, t # NoTask, Sound(ClaimBound(s, t, w))
    PROVE  Kept(s, ClaimBound(s, t, w))
<1>1. CASE LeaseConflicts(s, t, w) # {} BY <1>1, AcquireKept DEF ClaimBound
<1>2. CASE LeaseConflicts(s, t, w) = {}
  <2> DEFINE u == TakeTask(s, t, w)
             v == ClaimBound(s, t, w)
  <2>1. /\ u \in RuntimeState /\ u.tasks = s.tasks /\ u.reviews = s.reviews
        /\ u.workers = s.workers
        /\ \A x \in TaskIds \ {t} : u.taskAttempts[x] = s.taskAttempts[x]
    BY TakeTaskType, TakeTaskEffect DEF AttemptsGood
  <2>2. /\ v.tasks = u.tasks /\ v.reviews = u.reviews /\ v.workers = u.workers
        /\ v.taskAttempts = u.taskAttempts /\ v.leases = u.leases
    <3> HIDE DEF u, v
    <3>1. \A claimed : LET y == [u EXCEPT !.assignments[t].claimed = claimed]
                       IN /\ y.tasks = u.tasks /\ y.reviews = u.reviews /\ y.workers = u.workers
                          /\ y.taskAttempts = u.taskAttempts /\ y.leases = u.leases
      BY <2>1 DEF RuntimeState
    <3>2. PICK claimed : v = [u EXCEPT !.assignments[t].claimed = claimed]
      BY <1>2 DEF ClaimBound, u, v
    <3> QED BY <3>1, <3>2
  <2>3. ClaimsOrRests(s, v, w) BY ClaimBoundClaims
  <2>4. Sound(v) OBVIOUS
  <2> HIDE DEF v
  <2>5. v.leases = TakeTask(s, t, w).leases BY <2>2
  <2> HIDE DEF u
  <2>6. s.tasks[t].worker = w BY DEF AttemptsGood, Owned
  <2>7. \A x \in TaskIds \ {t} : Rests(s, v, x) BY <2>1, <2>2 DEF Rests
  <2> QED BY <1>2, <2>1, <2>2, <2>3, <2>4, <2>5, <2>6, <2>7, ClaimKept DEF v
<1> QED BY <1>1, <1>2

LEMMA ClaimPreAssignedKept ==
    ASSUME NEW s, Sound(s), AttemptsGood(s), NEW t \in TaskIds, NEW w \in Workers,
           t \in PreAssigned(s, w), s.workers[w].currentTask = NoTask,
           Sound(ClaimPreAssigned(s, t, w))
    PROVE  Kept(s, ClaimPreAssigned(s, t, w))
<1>1. CASE LeaseConflicts(s, t, w) # {} BY <1>1, AcquireKept DEF ClaimPreAssigned
<1>2. CASE LeaseConflicts(s, t, w) = {}
  <2> DEFINE u == TakeTask(s, t, w)
             v == ClaimPreAssigned(s, t, w)
  <2>1. /\ u \in RuntimeState /\ u.tasks = s.tasks /\ u.reviews = s.reviews
        /\ u.workers = s.workers
        /\ \A x \in TaskIds \ {t} : u.taskAttempts[x] = s.taskAttempts[x]
    BY TakeTaskType, TakeTaskEffect DEF AttemptsGood
  <2>2. /\ v.tasks = u.tasks /\ v.reviews = u.reviews /\ v.taskAttempts = u.taskAttempts
        /\ v.workers = [u.workers EXCEPT ![w] = Busy(u.workers[w], t)] /\ v.leases = u.leases
    <3> HIDE DEF u, v
    <3>1. v = [u EXCEPT !.assignments[t].claimed = TRUE, !.workers[w] = Busy(@, t)]
      BY <1>2 DEF ClaimPreAssigned, u, v
    <3> QED BY <2>1, <3>1 DEF RuntimeState
  <2>3. ClaimsOrRests(s, v, w) BY ClaimPreAssignedClaims
  <2>4. Sound(v) OBVIOUS
  <2> HIDE DEF v
  <2>5. v.leases = TakeTask(s, t, w).leases BY <2>2
  <2> HIDE DEF u
  <2>6. s.tasks[t].worker = w BY DEF PreAssigned
  <2>7. \A x \in TaskIds \ {t} : Rests(s, v, x) BY <2>1, <2>2 DEF Rests
  <2>8. u.workers[w] \in Worker /\ u.workers \in [Workers -> Worker] BY <2>1 DEF RuntimeState
  <2>9. /\ v.workers[w].currentTask = t /\ v.workers[w].status = "busy"
        /\ \A x \in Workers \ {w} : v.workers[x] = s.workers[x]
    BY <2>1, <2>2, <2>8 DEF Busy, Worker
  <2> QED BY <1>2, <2>1, <2>2, <2>3, <2>4, <2>5, <2>6, <2>7, <2>9, ClaimKept DEF v
<1> QED BY <1>1, <1>2

LEMMA ClaimReadyKept ==
    ASSUME NEW s, Sound(s), AttemptsGood(s), NEW t \in TaskIds, NEW w \in Workers,
           s.tasks[t].status = "ready", s.workers[w].currentTask = NoTask,
           Sound(ClaimReady(s, t, w))
    PROVE  Kept(s, ClaimReady(s, t, w))
<1>1. CASE LeaseConflicts(s, t, w) # {} BY <1>1, AcquireKept DEF ClaimReady
<1>2. CASE LeaseConflicts(s, t, w) = {}
  <2> DEFINE u == TakeTask(s, t, w)
             v == ClaimReady(s, t, w)
             task == [s.tasks[t] EXCEPT !.status = "assigned", !.worker = w, !.lastWorker = w]
  <2>1. /\ u \in RuntimeState /\ u.tasks = s.tasks /\ u.reviews = s.reviews
        /\ u.workers = s.workers
        /\ \A x \in TaskIds \ {t} : u.taskAttempts[x] = s.taskAttempts[x]
    BY TakeTaskType, TakeTaskEffect DEF AttemptsGood
  <2>2. /\ v.tasks = [s.tasks EXCEPT ![t] = task]
        /\ v.reviews = u.reviews /\ v.taskAttempts = u.taskAttempts
        /\ v.workers = [u.workers EXCEPT ![w] = Busy(u.workers[w], t)] /\ v.leases = u.leases
    <3> HIDE DEF u, v
    <3>1. v = [u EXCEPT
                !.tasks[t] = [@ EXCEPT !.status = "assigned", !.worker = w, !.lastWorker = w],
                !.assignments[t] = AssignedTo(w), !.workers[w] = Busy(@, t)]
      BY <1>2 DEF ClaimReady, u, v
    <3> QED BY <2>1, <3>1 DEF RuntimeState
  <2>3. ClaimsOrRests(s, v, w) BY ClaimReadyClaims
  <2>4. Sound(v) OBVIOUS
  <2> HIDE DEF v
  <2>5. v.leases = TakeTask(s, t, w).leases BY <2>2
  <2> HIDE DEF u
  <2>6. s.tasks \in [TaskIds -> Task] BY DEF Sound, RuntimeState
  <2>7. task.worker = w /\ task.input = s.tasks[t].input BY <2>6 DEF Task
  <2> HIDE DEF task
  <2>8. v.tasks[t] = task /\ \A x \in TaskIds \ {t} : v.tasks[x] = s.tasks[x] BY <2>2, <2>6
  <2>9. \A x \in TaskIds \ {t} : Rests(s, v, x) BY <2>1, <2>2, <2>8 DEF Rests
  <2>10. u.workers[w] \in Worker /\ u.workers \in [Workers -> Worker] BY <2>1 DEF RuntimeState
  <2>11. /\ v.workers[w].currentTask = t /\ v.workers[w].status = "busy"
         /\ \A x \in Workers \ {w} : v.workers[x] = s.workers[x]
    BY <2>1, <2>2, <2>10 DEF Busy, Worker
  <2> QED BY <1>2, <2>3, <2>4, <2>5, <2>7, <2>8, <2>9, <2>11, ClaimKept DEF v
<1> QED BY <1>1, <1>2

(* A worker that comes back online has no task. *)
LEMMA ReviveKept ==
    ASSUME NEW before, NEW s, Sound(s), NEW w \in Workers
    PROVE  LET u == Revive(before, s, w)
           IN /\ Sound(u) /\ Kept(s, u) /\ KeepsTasks(s, u)
              /\ u.taskAttempts = s.taskAttempts /\ u.reviews = s.reviews
              /\ \A x \in Workers : u.workers[x].currentTask = s.workers[x].currentTask
<1> DEFINE y == [s.workers[w] EXCEPT !.status = "idle", !.age = 0]
           u == Revive(before, s, w)
<1>1. s \in RuntimeState /\ s.workers \in [Workers -> Worker] BY DEF Sound, RuntimeState
<1>2. y \in Worker /\ y.currentTask = s.workers[w].currentTask
  BY <1>1, ConstantTypes DEF Worker
<1>3. \/ u = s
      \/ u = [s EXCEPT !.workers[w] = y] /\ s.workers[w].currentTask = NoTask
  BY DEF Revive
<1> HIDE DEF y, u
<1>4. Sound(u) BY <1>2, <1>3, WorkerSound
<1>5. /\ u.tasks = s.tasks /\ u.assignments = s.assignments
      /\ u.taskAttempts = s.taskAttempts /\ u.reviews = s.reviews /\ u.leases = s.leases
      /\ \A x \in Workers : /\ u.workers[x].currentTask = s.workers[x].currentTask
                            /\ \/ u.workers[x] = s.workers[x]
                               \/ s.workers[x].currentTask = NoTask
  BY <1>1, <1>2, <1>3 DEF RuntimeState
<1>6. /\ LeasesMove(s, u)
      /\ \A t \in TaskIds : Stays(s, u, t) /\ SparesLeases(s, u, t) /\ KeepsCurrent(s, u, t)
  BY <1>5 DEF LeasesMove, Stays, Engaged, SparesLeases, KeepsCurrent
<1>7. One(s) => IdleFree(u) BY <1>5 DEF One, IdleFree
<1>8. Kept(s, u) BY <1>4, <1>6, <1>7, StaysKept
<1> QED BY <1>4, <1>5, <1>8 DEF KeepsTasks, u

(* claimAssignedTaskForWorker. *)
LEMMA ClaimAssignedTaskKept ==
    ASSUME NEW s, Sound(s), AttemptsGood(s), Follows(s), NEW w \in Workers,
           Sound(ClaimAssignedTask(s, w))
    PROVE  Kept(s, ClaimAssignedTask(s, w))
<1> DEFINE reconciled == Reconcile(s)
           u == Revive(s, reconciled, w)
           claimed == ClaimOnceReconciled(u, w)
<1>1. Sound(reconciled) /\ AttemptsGood(reconciled) /\ Follows(reconciled) /\ Kept(s, reconciled)
  BY ReconcileCleans, ReconcileMoves, ReconcileKept
<1>2. ClaimAssignedTask(s, w) = IF reconciled.workers[w].disabled THEN reconciled ELSE claimed
  BY DEF ClaimAssignedTask
<1> HIDE DEF reconciled
<1>3. CASE reconciled.workers[w].disabled BY <1>1, <1>2, <1>3
<1>4. CASE ~reconciled.workers[w].disabled
  <2>1. /\ Sound(u) /\ Kept(reconciled, u) /\ KeepsTasks(reconciled, u)
        /\ u.taskAttempts = reconciled.taskAttempts /\ u.reviews = reconciled.reviews
        /\ \A x \in Workers : u.workers[x].currentTask = reconciled.workers[x].currentTask
    BY <1>1, ReviveKept
  <2>2. Sound(claimed) BY <1>2, <1>4
  <2> HIDE DEF u
  <2>3. AttemptsGood(u) /\ Follows(u)
    BY <1>1, <2>1 DEF KeepsTasks, AttemptsGood, Fits, Owned, Follows
  <2>4. CASE BoundTask(u, w) # NoTask
    <3>1. BoundTask(u, w) \in TaskIds /\ u.workers[w].currentTask = BoundTask(u, w)
      BY <2>1, <2>4 DEF BoundTask, Sound, RuntimeState, Worker
    <3>2. claimed = ClaimBound(u, BoundTask(u, w), w) BY <2>4 DEF ClaimOnceReconciled
    <3> HIDE DEF claimed
    <3>3. Kept(u, claimed) BY <2>1, <2>2, <2>3, <2>4, <3>1, <3>2, ClaimBoundKept
    <3> QED BY <1>1, <1>2, <1>4, <2>1, <3>3, KeptTransitive
  <2>5. CASE BoundTask(u, w) = NoTask
    <3>1. u.workers[w].currentTask = NoTask BY <2>1, <2>3, <2>5, UnboundHasNone DEF AttemptsGood
    <3>2. CASE PreAssigned(u, w) # {}
      <4> DEFINE t == FirstOf(PreAssigned(u, w))
      <4>1. t \in TaskIds /\ t \in PreAssigned(u, w)
        BY <3>2, FirstIsLeast, ConstantTypes DEF PreAssigned
      <4>2. claimed = ClaimPreAssigned(u, t, w) BY <2>5, <3>2 DEF ClaimOnceReconciled
      <4> HIDE DEF claimed, t
      <4>3. Kept(u, claimed) BY <2>1, <2>2, <2>3, <3>1, <4>1, <4>2, ClaimPreAssignedKept
      <4> QED BY <1>1, <1>2, <1>4, <2>1, <4>3, KeptTransitive
    <3>3. CASE PreAssigned(u, w) = {} /\ u.workers[w].status = "idle" /\ Claimable(u, w) # {}
      <4> DEFINE t == FirstOf(Claimable(u, w))
      <4>1. t \in TaskIds /\ u.tasks[t].status = "ready"
        <5>1. Claimable(u, w) \in SUBSET Nat BY ConstantTypes DEF Claimable
        <5>2. \A x \in Claimable(u, w) : x \in TaskIds /\ u.tasks[x].status = "ready"
          BY DEF Claimable
        <5> QED BY <3>3, <5>1, <5>2, FirstIsLeast
      <4>2. claimed = ClaimReady(u, t, w) BY <2>5, <3>3 DEF ClaimOnceReconciled
      <4> HIDE DEF claimed, t
      <4>3. Kept(u, claimed) BY <2>1, <2>2, <2>3, <3>1, <4>1, <4>2, ClaimReadyKept
      <4> QED BY <1>1, <1>2, <1>4, <2>1, <4>3, KeptTransitive
    <3>4. CASE /\ PreAssigned(u, w) = {}
               /\ ~(u.workers[w].status = "idle" /\ Claimable(u, w) # {})
      <4>1. claimed = u BY <2>5, <3>4 DEF ClaimOnceReconciled
      <4> QED BY <1>1, <1>2, <1>4, <2>1, <4>1, KeptTransitive
    <3> QED BY <3>2, <3>3, <3>4
  <2> QED BY <2>4, <2>5
<1> QED BY <1>3, <1>4

(* beginTaskForWorker: the worker has claimed the task it starts. *)
LEMMA BeginTaskKept ==
    ASSUME NEW s, Sound(s), AttemptsGood(s), NEW t \in TaskIds, NEW w \in Workers, NEW i,
           MayBegin(s, w, t, i), Sound(BeginTask(s, w, t))
    PROVE  Kept(s, BeginTask(s, w, t))
<1> DEFINE acquired == AcquireTaskLeases(s, t, w)
           attempt == [ActiveAttempt(s, t) EXCEPT !.status = "running", !.ttl = LeaseTTL]
           running == WithActiveAttempt(acquired, t, attempt)
           started == SetStatus(running, t, "in_progress")
           u == [started EXCEPT !.assignments[t].claimed = TRUE,
                                !.workers[w] = Busy(started.workers[w], t)]
<1>1. /\ HasActiveAttempt(s, t) /\ s.tasks[t].status = "assigned" /\ s.tasks[t].worker = w
      /\ LeaseConflicts(s, t, w) = {}
  BY DEF MayBegin, OwnsActiveAttempt
<1>2. ~Ended(s.taskAttempts[t]) BY <1>1, EndedHasNone
<1>3. Engaged(s, t) BY <1>1, <1>2 DEF Engaged
<1>4. attempt \in Attempt BY <1>1, ActiveAttemptType, ConstantTypes DEF Sound, Attempt
<1>5. BeginTask(s, w, t) = u BY DEF BeginTask
<1>6. /\ Begins(s, u, t) /\ KeepsAllBut(s, u, t) /\ Sound(u)
  BY <1>5, BeginTaskBegins
<1> HIDE DEF attempt
<1>7. /\ Sound(acquired) /\ acquired.tasks = s.tasks /\ acquired.workers = s.workers
      /\ acquired.taskAttempts = s.taskAttempts
      /\ \A r \in Resources : acquired.leases[r] = s.leases[r] \/ Granted(s, acquired, r)
      /\ \A r \in ResourcesOf(s, t) : acquired.leases[r] = GrantedTo(w)
  BY <1>1, TaskLeasesSound, OthersKeepTasks, OthersKeepAttempts, AcquireEffect DEF KeepsTasks
<1> HIDE DEF acquired
<1>8. /\ Sound(running) /\ running.tasks = s.tasks /\ running.leases = acquired.leases
      /\ running.workers = s.workers
  <2>1. LatestIs(s.taskAttempts[t], Active) BY <1>1, AttemptOpen, EndedHasNone DEF AttemptsGood
  <2> QED BY <1>4, <1>7, <2>1, WithActiveAttemptSound, WithActiveAttemptEffect, OthersKeepLeases
<1> HIDE DEF running
<1>9. /\ Sound(started) /\ started.leases = acquired.leases /\ started.workers = s.workers
  BY <1>8, SetStatusSound, OthersKeepAttempts, OthersKeepLeases
<1>10. started.tasks = [s.tasks EXCEPT ![t].status = "in_progress"]
  BY <1>8 DEF SetStatus, Sound, RuntimeState
<1> HIDE DEF started
<1>11. /\ u.tasks = started.tasks /\ u.leases = acquired.leases
       /\ u.workers = [s.workers EXCEPT ![w] = Busy(s.workers[w], t)]
  BY <1>9 DEF Sound, RuntimeState
<1> HIDE DEF u
<1>12. s.tasks \in [TaskIds -> Task] /\ s.workers \in [Workers -> Worker]
  BY DEF Sound, RuntimeState
<1>13. u.tasks[t].worker = w /\ u.tasks[t].input = s.tasks[t].input
  BY <1>1, <1>10, <1>11, <1>12 DEF Task
<1>14. /\ u.workers[w].currentTask = t /\ u.workers[w].status = "busy"
       /\ \A x \in Workers \ {w} : u.workers[x] = s.workers[x]
  BY <1>11, <1>12 DEF Busy, Worker
<1>15. /\ \A r \in Resources : u.leases[r] = s.leases[r] \/ Granted(s, u, r)
       /\ \A r \in ResourcesOf(u, t) : u.leases[r] = GrantedTo(w)
  BY <1>7, <1>11, <1>13, SameResources DEF Granted
<1>16. \A x \in TaskIds \ {t} : Stays(s, u, x)
  BY <1>6, CleansUpStays DEF KeepsAllBut, CleansUp
<1>17. One(s) => FreeBut(s, w, t)
  <2>1. One(s) => s.workers[w].currentTask = t BY <1>1, <1>3 DEF One, HasCurrent
  <2> QED BY <2>1, CurrentIsFreeBut
<1>18. Kept(s, u) BY <1>6, <1>13, <1>14, <1>15, <1>16, <1>17, TakesKept
<1> QED BY <1>5, <1>18

-----------------------------------------------------------------------------
(* Results, reviews and operator requests *)

(* A task is no longer worked on; w's leases of it are released.  This can  *)
(* only hurt another task of w in the same repository.                      *)
LEMMA LeavesKept ==
    ASSUME NEW s, Sound(s), NEW u, Sound(u), NEW t \in TaskIds, NEW w, ~Engaged(u, t),
           \A x \in TaskIds \ {t} : Rests(s, u, x),
           \A r \in Resources : \/ u.leases[r] = s.leases[r]
                                \/ /\ u.leases[r] = NoLease /\ s.leases[r].owner = w
                                   /\ r \in ResourcesOf(s, t),
           One(s) => \A v \in Workers :
                        \/ u.workers[v] = s.workers[v]
                        \/ s.workers[v].currentTask = t /\ u.workers[v].currentTask = NoTask
    PROVE  /\ Last(s) => Last(u)
           /\ One(s) => One(u)
           /\ One(s) /\ ElsewhereBut(s, w, t) /\ Held(s) => Held(u)
<1>1. \A x \in TaskIds : Stays(s, u, x)
  BY CleansUpStays DEF CleansUp, Stays
<1>2. LeasesMove(s, u) BY DEF LeasesMove
<1>3. Last(s) => Last(u) BY <1>1, <1>2, StaysLast DEF Last
<1>4. ASSUME One(s) PROVE One(u)
  <2>1. IdleFree(u) BY <1>4 DEF One, IdleFree
  <2>2. ASSUME NEW x \in TaskIds PROVE HasCurrent(u, x)
    <3> SUFFICES ASSUME Engaged(u, x)
                 PROVE  u.tasks[x].worker \in Workers /\ u.workers[u.tasks[x].worker].currentTask = x
      BY DEF HasCurrent
    <3>1. x # t OBVIOUS
    <3>2. Engaged(s, x) /\ u.tasks[x].worker = s.tasks[x].worker BY <1>1 DEF Stays
    <3>3. u.tasks[x].worker \in Workers /\ s.workers[u.tasks[x].worker].currentTask = x
      BY <1>4, <3>2 DEF One, HasCurrent
    <3> QED BY <1>4, <3>1, <3>3
  <2> QED BY <2>1, <2>2 DEF One
<1>5. ASSUME ElsewhereBut(s, w, t), Held(s) PROVE Held(u)
  <2> SUFFICES ASSUME NEW x \in TaskIds, Engaged(u, x) PROVE LeasesHeld(u, x)
    BY DEF Held, LeasesHeld
  <2>1. /\ x # t /\ Engaged(s, x) /\ u.tasks[x].worker = s.tasks[x].worker
        /\ ResourcesOf(u, x) = ResourcesOf(s, x)
    BY <1>1, SameResources DEF Stays
  <2>2. ASSUME NEW r \in ResourcesOf(u, x), HeldBy(s.leases, r, u.tasks[x].worker)
        PROVE  u.leases[r] = s.leases[r]
    <3>1. r \in Resources BY ResourcesOfType
    <3>2. r \in ResourcesOf(s, t) => s.tasks[x].input.repo = s.tasks[t].input.repo
      BY <2>1, SharedResource
    <3>3. r \in ResourcesOf(s, t) => s.tasks[x].worker # w
      BY <1>5, <2>1, <3>2 DEF ElsewhereBut
    <3> QED BY <2>1, <2>2, <3>1, <3>3 DEF HeldBy
  <2>3. SparesLeases(s, u, x) BY <2>2 DEF SparesLeases
  <2> QED BY <1>1, <1>5, <2>3, StaysHeld DEF Held
<1> QED BY <1>3, <1>4, <1>5

(* A worker that may deliver a result of a task works on no other. *)
LEMMA DelivererIsFree ==
    ASSUME NEW s, One(s), NEW t \in TaskIds, NEW w \in Workers, NEW i, MayRecordResult(s, w, t, i)
    PROVE  s.workers[w].currentTask = t /\ s.tasks[t].worker = w /\ FreeBut(s, w, t)
<1>1. /\ s.tasks[t].status \in {"assigned", "in_progress"} /\ s.tasks[t].worker = w
      /\ HasActiveAttempt(s, t)
  BY DEF MayRecordResult, OwnsActiveAttempt
<1>2. Engaged(s, t) BY <1>1, EndedHasNone DEF Engaged
<1>3. s.workers[w].currentTask = t BY <1>1, <1>2 DEF One, HasCurrent
<1> QED BY <1>1, <1>3, CurrentIsFreeBut

(* recordWorkerResult. *)
LEMMA RecordResultKept ==
    ASSUME NEW s, Sound(s), AttemptsGood(s), NEW t \in TaskIds, NEW w \in Workers, NEW i,
           MayRecordResult(s, w, t, i),
           NEW outcome \in {"passed", "recoverable", "unrecoverable"},
           Sound(RecordResult(s, w, t, outcome))
    PROVE  Kept(s, RecordResult(s, w, t, outcome))
<1> DEFINE passed == outcome = "passed"
           status == IF passed THEN "review" ELSE "failed"
           ending == IF passed THEN "succeeded" ELSE "failed"
           set == SetStatus(s, t, status)
           review == [set.reviews[t] EXCEPT !.decision = "pending",
                                            !.material = IF passed THEN ActiveNo(s, t) ELSE 0,
                                            !.result = outcome]
           recorded == [set EXCEPT !.workers[w] = Freed(set.workers[w]), !.reviews[t] = review]
           attempt == [ActiveAttempt(recorded, t) EXCEPT !.status = ending, !.ttl = 0]
           ended == WithActiveAttempt(recorded, t, attempt)
           u == ReleaseTaskLeases(ended, t, w)
<1>1. /\ s.tasks[t].status \in {"assigned", "in_progress"} /\ s.tasks[t].worker = w
      /\ HasActiveAttempt(s, t)
  BY DEF MayRecordResult, OwnsActiveAttempt
<1>2. RecordResult(s, w, t, outcome) = u BY DEF RecordResult, EndAttempt
<1>3. /\ Delivers(s, u, t) /\ \A x \in TaskIds \ {t} : Rests(s, u, x)
  BY <1>2, RecordResultDelivers
<1>4. ~Engaged(u, t) BY <1>3 DEF Delivers, Engaged
<1>5. s \in RuntimeState /\ s.workers \in [Workers -> Worker] BY DEF Sound, RuntimeState
<1>6. status \in {"review", "failed"} OBVIOUS
<1> HIDE DEF status
<1>7. /\ Sound(set) /\ set.workers = s.workers /\ set.leases = s.leases
      /\ set.taskAttempts = s.taskAttempts /\ set.reviews = s.reviews
      /\ ResourcesOf(set, t) = ResourcesOf(s, t)
  <2>1. Sound(set) BY <1>6, SetStatusSound
  <2>2. set.leases = s.leases BY OthersKeepLeases
  <2>3. ResourcesOf(set, t) = ResourcesOf(s, t) BY SetStatusResources
  <2> QED BY <2>1, <2>2, <2>3, OthersKeepAttempts
<1>8. review \in Review
  <2>1. ActiveNo(s, t) \in 0..AttemptBound BY <1>1, ActiveNoBound DEF AttemptNoOrZero
  <2>2. set.reviews[t] \in Review BY <1>7 DEF Sound, RuntimeState
  <2>3. 0 \in 0..AttemptBound BY ConstantTypes
  <2> QED BY <2>1, <2>2, <2>3 DEF Review
<1> HIDE DEF set, review
<1>9. /\ Sound(recorded) /\ recorded.leases = s.leases /\ recorded.taskAttempts = s.taskAttempts
      /\ recorded.workers = [s.workers EXCEPT ![w] = Freed(s.workers[w])]
      /\ recorded.tasks = set.tasks
  <2>1. Freed(s.workers[w]) \in Worker
    <3>1. s.workers[w] \in Worker BY <1>5
    <3> QED BY <1>1, <3>1, WorkerType
  <2>2. set \in RuntimeState /\ WithinBounds(set) BY <1>7 DEF Sound
  <2> QED BY <1>7, <1>8, <2>1, <2>2 DEF Sound, RuntimeState, WithinBounds
<1> HIDE DEF recorded
<1>10. /\ Sound(ended) /\ ended.leases = s.leases /\ ended.workers = recorded.workers
       /\ ended.tasks = recorded.tasks
  <2>1. LatestIs(recorded.taskAttempts[t], Active)
    BY <1>1, <1>9, AttemptOpen, EndedHasNone DEF AttemptsGood
  <2>2. ended = EndAttempt(recorded, t, ending) BY DEF EndAttempt
  <2>3. ending \in {"succeeded", "failed"} OBVIOUS
  <2> HIDE DEF attempt, ending
  <2>4. /\ ended.leases = s.leases /\ ended.workers = recorded.workers
        /\ ended.tasks = recorded.tasks
    BY <1>9, <2>1, OthersKeepLeases, WithActiveAttemptEffect
  <2>5. Sound(ended) BY <1>9, <2>2, <2>3, EndAttemptSound
  <2> QED BY <2>4, <2>5
<1> HIDE DEF attempt, ended
<1>11. /\ u.workers = recorded.workers
       /\ \A r \in Resources : \/ u.leases[r] = s.leases[r]
                               \/ /\ u.leases[r] = NoLease /\ s.leases[r].owner = w
                                  /\ r \in ResourcesOf(s, t)
  <2>1. ResourcesOf(ended, t) = ResourcesOf(s, t) BY <1>7, <1>9, <1>10, SameInputs
  <2> QED BY <1>10, <2>1, OthersKeepAttempts, ReleaseEffect
<1>12. Sound(u) BY <1>2
<1> HIDE DEF u
<1>13. u.workers[w].currentTask = NoTask /\ \A x \in Workers \ {w} : u.workers[x] = s.workers[x]
  BY <1>5, <1>9, <1>11 DEF Freed, Worker
<1>14. One(s) => s.workers[w].currentTask = t /\ FreeBut(s, w, t) BY DelivererIsFree
<1>15. Kept(s, u)
  <2>1. /\ Last(s) => Last(u)
        /\ One(s) => One(u)
        /\ One(s) /\ ElsewhereBut(s, w, t) /\ Held(s) => Held(u)
    BY <1>3, <1>4, <1>11, <1>12, <1>13, <1>14, LeavesKept
  <2> QED BY <1>14, <2>1, FreeIsElsewhere DEF Kept
<1> QED BY <1>2, <1>15

(* What releaseWorkerFromTask does to a worker. *)
LEMMA ReleaseWorkersEffect ==
    ASSUME NEW s, Sound(s), NEW t \in TaskIds
    PROVE  \A w \in Workers :
                LET u == ReleaseWorkers(s, t)
                IN \/ u.workers[w] = s.workers[w]
                   \/ s.workers[w].currentTask = t /\ u.workers[w].currentTask = NoTask
<1> SUFFICES ASSUME NEW w \in Workers
             PROVE  \/ ReleaseWorkers(s, t).workers[w] = s.workers[w]
                    \/ /\ s.workers[w].currentTask = t
                       /\ ReleaseWorkers(s, t).workers[w].currentTask = NoTask
  OBVIOUS
<1>1. s \in RuntimeState BY DEF Sound
<1>2. s.workers[w].currentTask # t => ReleaseWorkers(s, t).workers[w] = s.workers[w]
  BY <1>1 DEF ReleaseWorkers, RuntimeState
<1>3. s.workers[w].currentTask = t => ReleaseWorkers(s, t).workers[w].currentTask = NoTask
  BY OthersKeepAttempts
<1> QED BY <1>2, <1>3

(* What a review, an interruption or a cancellation keeps: the facts about  *)
(* leases that are held and about current tasks.  It may release a lease    *)
(* under another task of the worker in the same repository.                 *)
KeptBut(s, u, t) ==
    /\ Last(s) => Last(u)
    /\ One(s) => One(u)
    /\ One(s) /\ ElsewhereBut(s, s.tasks[t].worker, t) /\ Held(s) => Held(u)

(* recordReviewDecision. *)
LEMMA DecideReviewKept ==
    ASSUME NEW s, Sound(s), AttemptsGood(s), NEW t \in TaskIds, NEW i \in 1..AttemptBound,
           NEW decision \in {"merge", "block", "rework"}, NEW canRedrive \in BOOLEAN,
           MayDecide(s, t, i), Sound(DecideReview(s, t, i, decision, canRedrive))
    PROVE  KeptBut(s, DecideReview(s, t, i, decision, canRedrive), t)
<1> DEFINE status == IF decision = "merge" THEN "merged" ELSE "blocked"
           set == SetStatus(s, t, status)
           review == [set.reviews[t] EXCEPT !.decision = decision, !.reviewed = i,
                                            !.canRedrive = canRedrive]
           decided == [set EXCEPT !.reviews[t] = review]
           u == ReleaseOwnTaskLeases(decided, t)
           w == s.tasks[t].worker
<1>1. DecideReview(s, t, i, decision, canRedrive) = u BY DEF DecideReview
<1>2. Decides(s, u, t) /\ \A x \in TaskIds \ {t} : Rests(s, u, x) BY <1>1, DecideReviewDecides
<1>3. Sound(u) /\ ~Engaged(u, t) BY <1>1, <1>2 DEF Decides, Engaged
<1>4. status \in {"merged", "blocked"} OBVIOUS
<1> HIDE DEF status
<1>5. Sound(set) /\ set.workers = s.workers /\ set.leases = s.leases /\ set.reviews = s.reviews
      /\ set.tasks = [s.tasks EXCEPT ![t].status = status]
      /\ ResourcesOf(set, t) = ResourcesOf(s, t)
  <2>1. Sound(set) BY <1>4, SetStatusSound
  <2>2. set.leases = s.leases BY OthersKeepLeases
  <2>3. set.tasks = [s.tasks EXCEPT ![t].status = status]
    BY DEF SetStatus, Sound, RuntimeState
  <2>4. ResourcesOf(set, t) = ResourcesOf(s, t) BY SetStatusResources
  <2> QED BY <2>1, <2>2, <2>3, <2>4, OthersKeepAttempts
<1> HIDE DEF set
<1>6. review \in Review
  <2>1. set.reviews[t] \in Review BY <1>5 DEF Sound, RuntimeState
  <2>2. i \in 0..AttemptBound BY ConstantTypes
  <2> QED BY <2>1, <2>2 DEF Review
<1> HIDE DEF review
<1>7. /\ Sound(decided) /\ decided.tasks = set.tasks /\ decided.workers = s.workers
      /\ decided.leases = s.leases
  BY <1>5, <1>6 DEF Sound, RuntimeState, WithinBounds
<1> HIDE DEF decided
<1>8. decided.tasks[t].worker = w
  <2>1. s.tasks \in [TaskIds -> Task] BY DEF Sound, RuntimeState
  <2> QED BY <1>5, <1>7, <2>1 DEF Task
<1>9. /\ u.workers = s.workers
      /\ \A r \in Resources : \/ u.leases[r] = s.leases[r]
                              \/ /\ u.leases[r] = NoLease /\ s.leases[r].owner = w
                                 /\ r \in ResourcesOf(s, t)
  <2>1. ResourcesOf(decided, t) = ResourcesOf(s, t) BY <1>5, <1>7, SameInputs
  <2> QED BY <1>7, <1>8, <2>1, OthersKeepAttempts, ReleaseOwnEffect
<1> HIDE DEF u, w
<1>10. KeptBut(s, u, t) BY <1>2, <1>3, <1>9, LeavesKept DEF KeptBut, w
<1> QED BY <1>1, <1>10

(* interruptTaskForInput. *)
LEMMA InterruptTaskKept ==
    ASSUME NEW s, Sound(s), AttemptsGood(s), NEW t \in TaskIds, MayInterrupt(s, t),
           NEW inputTtl \in 0..NoExpiry, Sound(InterruptTask(s, t, inputTtl))
    PROVE  KeptBut(s, InterruptTask(s, t, inputTtl), t)
<1> DEFINE freed == ReleaseWorkers(s, t)
           set == SetStatus(freed, t, "waiting_for_input")
           task == [set.tasks[t] EXCEPT !.worker = None, !.inputTtl = inputTtl,
                                        !.waitingAttempt = AttemptNoOrZero(s, t)]
           record == [set.assignments[t] EXCEPT !.worker = None]
           table == ReleaseOwnTaskLeases(s, t).leases
           waiting == [set EXCEPT !.tasks[t] = task, !.assignments[t] = record, !.leases = table]
           attempt == [ActiveAttempt(s, t) EXCEPT !.status = "checkpointed"]
           u == InterruptTask(s, t, inputTtl)
           w == s.tasks[t].worker
<1>1. Asks(s, u, t) /\ \A x \in TaskIds \ {t} : Rests(s, u, x) BY InterruptTaskAsks
<1>2. Sound(u) /\ ~Engaged(u, t) BY <1>1 DEF Asks, Engaged
<1>3. /\ Sound(freed)
      /\ \A x \in Workers : \/ freed.workers[x] = s.workers[x]
                            \/ /\ s.workers[x].currentTask = t
                               /\ freed.workers[x].currentTask = NoTask
  BY ReleaseWorkersSound, ReleaseWorkersEffect
<1>4. Sound(set) /\ set.workers = freed.workers
  <2> HIDE DEF freed
  <2>1. Sound(set) BY <1>3, SetStatusSound
  <2> QED BY <1>3, <2>1, OthersKeepAttempts
<1>5. u = WithActiveAttempt(waiting, t, attempt) BY DEF InterruptTask
<1> HIDE DEF freed, set, task, record, table
<1>6. waiting.leases = table /\ waiting.workers = freed.workers
  BY <1>4 DEF Sound, RuntimeState
<1>7. \A y : [waiting EXCEPT !.taskAttempts = y].leases = waiting.leases
             /\ [waiting EXCEPT !.taskAttempts = y].workers = waiting.workers
  BY <1>4 DEF Sound, RuntimeState
<1> HIDE DEF waiting
<1>8. u.leases = table /\ u.workers = freed.workers
  <2>1. u = waiting \/ \E y : u = [waiting EXCEPT !.taskAttempts = y]
    BY <1>5 DEF WithActiveAttempt
  <2> HIDE DEF u
  <2> QED BY <1>6, <1>7, <2>1
<1> HIDE DEF u
<1>9. \A r \in Resources : \/ u.leases[r] = s.leases[r]
                           \/ /\ u.leases[r] = NoLease /\ s.leases[r].owner = w
                              /\ r \in ResourcesOf(s, t)
  BY <1>8, ReleaseOwnEffect DEF table
<1> HIDE DEF w
<1>10. KeptBut(s, u, t) BY <1>1, <1>2, <1>3, <1>8, <1>9, LeavesKept DEF KeptBut, w
<1> QED BY <1>10 DEF u

(* A worker whose result asks for input works on no other task. *)
LEMMA AskKept ==
    ASSUME NEW s, Sound(s), AttemptsGood(s), NEW t \in TaskIds, NEW w \in Workers, NEW i,
           MayRecordResult(s, w, t, i), NEW inputTtl \in 0..NoExpiry,
           Sound(InterruptTask(s, t, inputTtl))
    PROVE  Kept(s, InterruptTask(s, t, inputTtl))
<1>1. MayInterrupt(s, t) BY DEF MayRecordResult, MayInterrupt
<1>2. KeptBut(s, InterruptTask(s, t, inputTtl), t) BY <1>1, InterruptTaskKept
<1>3. One(s) => FreeBut(s, s.tasks[t].worker, t) BY DelivererIsFree
<1> QED BY <1>2, <1>3, FreeIsElsewhere DEF KeptBut, Kept

(* cancelTask. *)
LEMMA CancelTaskKept ==
    ASSUME NEW s, Sound(s), AttemptsGood(s), NEW t \in TaskIds, MayCancel(s, t),
           Sound(CancelTask(s, t))
    PROVE  KeptBut(s, CancelTask(s, t), t)
<1> DEFINE freed == ReleaseWorkers(s, t)
           set == SetStatus(freed, t, "cancelled")
           released == ReleaseOwnTaskLeases(set, t)
           attempt == [ActiveAttempt(released, t) EXCEPT !.status = "cancelled", !.ttl = 0]
           u == WithActiveAttempt(released, t, attempt)
           w == s.tasks[t].worker
<1>1. CancelTask(s, t) = u BY DEF CancelTask, EndAttempt
<1>2. Cancels(s, u, t) /\ \A x \in TaskIds \ {t} : Rests(s, u, x) BY <1>1, CancelTaskCancels
<1>3. Sound(u) /\ ~Engaged(u, t) BY <1>1, <1>2 DEF Cancels, Engaged
<1>4. /\ Sound(freed) /\ freed.tasks = s.tasks /\ freed.leases = s.leases
      /\ \A x \in Workers : \/ freed.workers[x] = s.workers[x]
                            \/ /\ s.workers[x].currentTask = t
                               /\ freed.workers[x].currentTask = NoTask
  BY ReleaseWorkersSound, ReleaseWorkersEffect, OthersKeepTasks, OthersKeepLeases DEF KeepsTasks
<1> HIDE DEF freed
<1>5. /\ Sound(set) /\ set.workers = freed.workers /\ set.leases = s.leases
      /\ set.tasks = [s.tasks EXCEPT ![t].status = "cancelled"]
      /\ ResourcesOf(set, t) = ResourcesOf(s, t)
  <2>1. Sound(set) BY <1>4, SetStatusSound
  <2>2. set.leases = s.leases BY <1>4, OthersKeepLeases
  <2>3. set.tasks = [s.tasks EXCEPT ![t].status = "cancelled"]
    BY <1>4 DEF SetStatus, Sound, RuntimeState
  <2>4. ResourcesOf(set, t) = ResourcesOf(s, t) BY <1>4, SetStatusResources, SameInputs
  <2> QED BY <1>4, <2>1, <2>2, <2>3, <2>4, OthersKeepAttempts
<1> HIDE DEF set
<1>6. set.tasks[t].worker = w
  <2>1. s.tasks \in [TaskIds -> Task] BY DEF Sound, RuntimeState
  <2> QED BY <1>5, <2>1 DEF Task
<1>7. /\ Sound(released) /\ released.workers = freed.workers
      /\ \A r \in Resources : \/ released.leases[r] = s.leases[r]
                              \/ /\ released.leases[r] = NoLease /\ s.leases[r].owner = w
                                 /\ r \in ResourcesOf(s, t)
  <2>1. Sound(released) BY <1>5, ReleaseOwnTaskLeasesSound
  <2>2. released.workers = freed.workers BY <1>5, OthersKeepAttempts
  <2>3. \A r \in Resources : \/ released.leases[r] = set.leases[r]
                             \/ /\ released.leases[r] = NoLease
                                /\ set.leases[r].owner = set.tasks[t].worker
                                /\ r \in ResourcesOf(set, t)
    <3>1. released = ReleaseOwnTaskLeases(set, t) /\ Sound(set) BY <1>5
    <3> HIDE DEF released, w
    <3> QED BY <3>1, ReleaseOwnEffect
  <2> HIDE DEF released, w
  <2> QED BY <1>5, <1>6, <2>1, <2>2, <2>3
<1> HIDE DEF released
<1>8. u.leases = released.leases /\ u.workers = released.workers
  <2>1. u = released \/ \E y : u = [released EXCEPT !.taskAttempts = y] BY DEF WithActiveAttempt
  <2>2. \A y : [released EXCEPT !.taskAttempts = y].leases = released.leases
               /\ [released EXCEPT !.taskAttempts = y].workers = released.workers
    BY <1>7 DEF Sound, RuntimeState
  <2> HIDE DEF u
  <2> QED BY <2>1, <2>2
<1> HIDE DEF u, w
<1>9. KeptBut(s, u, t) BY <1>2, <1>3, <1>4, <1>7, <1>8, LeavesKept DEF KeptBut, w
<1> QED BY <1>1, <1>9

-----------------------------------------------------------------------------
(* The functions that write worker records, and time *)

(* A worker record that keeps its task: only the task of an idle worker     *)
(* matters.                                                                 *)
LEMMA WorkerRecordKept ==
    ASSUME NEW s, Sound(s), NEW w \in Workers, NEW x \in Worker,
           x.currentTask = s.workers[w].currentTask
    PROVE  LET u == [s EXCEPT !.workers[w] = x]
           IN /\ Sound(u) /\ u.leases = s.leases /\ u.tasks = s.tasks
              /\ u.taskAttempts = s.taskAttempts
              /\ u.workers[w] = x /\ \A v \in Workers \ {w} : u.workers[v] = s.workers[v]
              /\ Last(s) => Last(u)
              /\ (One(s) /\ x.status \in {"absent", "idle"} => x.currentTask = NoTask) => Kept(s, u)
<1> DEFINE u == [s EXCEPT !.workers[w] = x]
<1>1. s \in RuntimeState /\ s.workers \in [Workers -> Worker] BY DEF Sound, RuntimeState
<1>2. Sound(u) BY WorkerSound
<1>3. /\ u.leases = s.leases /\ u.tasks = s.tasks /\ u.taskAttempts = s.taskAttempts
      /\ u.workers[w] = x /\ \A v \in Workers \ {w} : u.workers[v] = s.workers[v]
  BY <1>1 DEF RuntimeState
<1> HIDE DEF u
<1>4. /\ LeasesMove(s, u)
      /\ \A t \in TaskIds : Stays(s, u, t) /\ SparesLeases(s, u, t) /\ KeepsCurrent(s, u, t)
  BY <1>3 DEF LeasesMove, Stays, Engaged, SparesLeases, KeepsCurrent
<1>5. Last(s) => Last(u) BY <1>2, <1>4, StaysLast DEF Last
<1>6. ASSUME One(s) /\ x.status \in {"absent", "idle"} => x.currentTask = NoTask
      PROVE  Kept(s, u)
  <2>1. One(s) => IdleFree(u) BY <1>3, <1>6 DEF One, IdleFree
  <2> QED BY <1>2, <1>4, <2>1, StaysKept
<1> QED BY <1>2, <1>3, <1>5, <1>6 DEF u

(* registerWorker: a worker that was not known has no task. *)
LEMMA RegisterWorkerKept ==
    ASSUME NEW s, Sound(s), NEW w \in Workers
    PROVE  Kept(s, RegisterWorker(s, w))
<1> DEFINE status == IF s.workers[w].status = "absent" THEN "idle" ELSE s.workers[w].status
           x == [status |-> status, disabled |-> FALSE, age |-> 0,
                 currentTask |-> s.workers[w].currentTask]
<1>1. s.workers[w] \in Worker BY DEF Sound, RuntimeState
<1>2. x \in Worker BY <1>1, ConstantTypes DEF Worker
<1>3. x.currentTask = s.workers[w].currentTask OBVIOUS
<1>4. One(s) /\ x.status \in {"absent", "idle"} => x.currentTask = NoTask
  BY DEF One, IdleFree
<1>5. RegisterWorker(s, w) = [s EXCEPT !.workers[w] = x] BY DEF RegisterWorker
<1> HIDE DEF x
<1> QED BY <1>2, <1>3, <1>4, <1>5, WorkerRecordKept

(* disableWorker. *)
LEMMA DisableWorkerKept ==
    ASSUME NEW s, Sound(s), NEW w \in Workers
    PROVE  Kept(s, DisableWorker(s, w))
<1> DEFINE x == [s.workers[w] EXCEPT !.status = "disabled", !.disabled = TRUE]
<1>1. s.workers[w] \in Worker BY DEF Sound, RuntimeState
<1>2. x \in Worker /\ x.currentTask = s.workers[w].currentTask /\ x.status = "disabled"
  BY <1>1 DEF Worker
<1>3. DisableWorker(s, w) = [s EXCEPT !.workers[w] = x] BY DEF DisableWorker
<1> HIDE DEF x
<1> QED BY <1>2, <1>3, WorkerRecordKept

(* enableWorker calls a worker idle that may still have a task: then only   *)
(* the leases are as they were.                                             *)
LEMMA EnableWorkerKept ==
    ASSUME NEW s, Sound(s), NEW w \in Workers
    PROVE  LET u == EnableWorker(s, w)
           IN (Last(s) => Last(u)) /\ (s.workers[w].currentTask = NoTask => Kept(s, u))
<1> DEFINE x == [s.workers[w] EXCEPT !.status = "idle", !.disabled = FALSE, !.age = 0]
<1>1. s.workers[w] \in Worker BY DEF Sound, RuntimeState
<1>2. x \in Worker /\ x.currentTask = s.workers[w].currentTask
  BY <1>1, ConstantTypes DEF Worker
<1>3. EnableWorker(s, w) = [s EXCEPT !.workers[w] = x] BY DEF EnableWorker
<1> HIDE DEF x
<1> QED BY <1>2, <1>3, WorkerRecordKept

(* markWorkerOffline releases the leases under the task that the worker     *)
(* keeps.                                                                   *)
LEMMA MarkWorkerOfflineKept ==
    ASSUME NEW s, Sound(s), NEW w \in Workers
    PROVE  LET u == MarkWorkerOffline(s, w)
           IN /\ Last(s) => Last(u)
              /\ One(s) => One(u)
              /\ Free(s, w) /\ Held(s) => Held(u)
<1> DEFINE t == s.workers[w].currentTask
           released == IF t = NoTask THEN s ELSE ReleaseTaskLeases(s, t, w)
           x == [released.workers[w] EXCEPT !.status = "offline", !.age = 0]
           u == [released EXCEPT !.workers[w] = x]
<1>1. MarkWorkerOffline(s, w) = u BY DEF MarkWorkerOffline
<1>2. s.workers \in [Workers -> Worker] BY DEF Sound, RuntimeState
<1>3. t \in TaskIds \cup {NoTask} BY <1>2 DEF Worker
<1>4. /\ Sound(released) /\ released.tasks = s.tasks /\ released.workers = s.workers
      /\ released.taskAttempts = s.taskAttempts
      /\ \A r \in Resources : \/ released.leases[r] = s.leases[r]
                              \/ released.leases[r] = NoLease /\ s.leases[r].owner = w
  <2>1. CASE t = NoTask BY <2>1
  <2>2. CASE t # NoTask
    <3>1. t \in TaskIds /\ released = ReleaseTaskLeases(s, t, w) BY <1>3, <2>2
    <3> HIDE DEF t, released
    <3>2. Sound(released) BY <3>1, TaskLeasesSound
    <3>3. /\ released.tasks = s.tasks /\ released.workers = s.workers
          /\ released.taskAttempts = s.taskAttempts
      BY <3>1, OthersKeepTasks, OthersKeepAttempts DEF KeepsTasks
    <3> QED BY <3>1, <3>2, <3>3, ReleaseEffect
  <2> QED BY <2>1, <2>2
<1> HIDE DEF t, released
<1>5. s.workers[w] \in Worker BY <1>2
<1>6. x \in Worker /\ x.currentTask = s.workers[w].currentTask /\ x.status = "offline"
  BY <1>4, <1>5, ConstantTypes DEF Worker
<1> HIDE DEF x
<1>7. /\ Sound(u) /\ u.leases = released.leases /\ u.tasks = s.tasks
      /\ u.taskAttempts = s.taskAttempts
      /\ u.workers[w] = x /\ \A v \in Workers \ {w} : u.workers[v] = s.workers[v]
  BY <1>4, <1>6, WorkerRecordKept
<1> HIDE DEF u
<1>8. LeasesMove(s, u) BY <1>4, <1>7 DEF LeasesMove
<1>9. \A y \in TaskIds : Stays(s, u, y) /\ KeepsCurrent(s, u, y)
  BY <1>6, <1>7 DEF Stays, Engaged, KeepsCurrent
<1>10. Last(s) => Last(u) BY <1>7, <1>8, <1>9, StaysLast DEF Last
<1>11. One(s) => IdleFree(u) BY <1>6, <1>7 DEF One, IdleFree
<1>12. One(s) => One(u) BY <1>9, <1>11, StaysCurrent DEF One
<1>13. ASSUME Free(s, w), Held(s) PROVE Held(u)
  <2>1. \A y \in TaskIds : u.tasks[y].worker # w => SparesLeases(s, u, y)
    BY <1>4, <1>7, ReleasesMoves
  <2>2. ASSUME NEW y \in TaskIds PROVE LeasesHeld(u, y)
    <3>1. CASE ~Engaged(u, y) BY <3>1 DEF LeasesHeld
    <3>2. CASE Engaged(u, y)
      <4>1. u.tasks[y].worker # w BY <1>7, <1>13, <3>2 DEF Free, Engaged
      <4> QED BY <1>7, <1>9, <1>13, <2>1, <4>1, StaysHeld DEF Held
    <3> QED BY <3>1, <3>2
  <2> QED BY <2>2 DEF Held
<1> QED BY <1>1, <1>10, <1>12, <1>13

(* heartbeatWorker renews the attempt of the worker's task and every lease  *)
(* of it, all of which the worker holds.                                    *)
LEMMA HeartbeatWorkerKept ==
    ASSUME NEW s, Sound(s), AttemptsGood(s), NEW w \in Workers
    PROVE  Kept(s, HeartbeatWorker(s, w))
<1> DEFINE t == s.workers[w].currentTask
           status == IF t # NoTask THEN "busy"
                     ELSE IF s.workers[w].status = "offline" THEN "idle" ELSE s.workers[w].status
           x == [s.workers[w] EXCEPT !.age = 0, !.status = status]
           beat == [s EXCEPT !.workers[w] = x]
           renewed == [beat EXCEPT !.leases = Acquire(beat.leases, ResourcesOf(beat, t), w)]
           attempt == [ActiveAttempt(beat, t) EXCEPT !.ttl = LeaseTTL]
           u == HeartbeatWorker(s, w)
<1>1. s.workers \in [Workers -> Worker] /\ s \in RuntimeState BY DEF Sound, RuntimeState
<1>2. u = IF RenewsTask(beat, w) THEN Renew(beat, t, w) ELSE beat
  BY <1>1 DEF HeartbeatWorker, RuntimeState
<1>3. x \in Worker /\ x.currentTask = t /\ (x.status \in {"absent", "idle"} => t = NoTask)
  <2>1. s.workers[w] \in Worker BY <1>1
  <2> QED BY <2>1, ConstantTypes DEF Worker
<1> HIDE DEF x
<1>4. /\ Sound(beat) /\ Kept(s, beat) /\ beat.tasks = s.tasks /\ beat.leases = s.leases
      /\ beat.taskAttempts = s.taskAttempts /\ beat.workers[w].currentTask = t
  BY <1>3, WorkerRecordKept
<1>5. Sound(u) BY HeartbeatWorkerSound
<1> HIDE DEF beat, u
<1>6. CASE ~RenewsTask(beat, w) BY <1>2, <1>4, <1>6 DEF u
<1>7. CASE RenewsTask(beat, w)
  <2>1. HasActiveAttempt(beat, t) /\ t # NoTask /\ HoldsTaskLeases(beat, t, w)
    BY <1>4, <1>7 DEF RenewsTask
  <2>2. t \in TaskIds BY <1>1, <2>1 DEF Worker
  <2>3. beat.tasks[t].worker = w BY <1>4, <2>1 DEF AttemptsGood, Owned
  <2>4. HasActiveAttempt(s, t) BY <1>4, <2>1, SameAttempts
  <2>5. LatestIs(beat.taskAttempts[t], Active)
    BY <1>4, <2>2, <2>4, AttemptOpen DEF AttemptsGood
  <2>6. /\ Sound(renewed) /\ renewed.tasks = beat.tasks /\ renewed.workers = beat.workers
        /\ renewed.taskAttempts = beat.taskAttempts
        /\ renewed.leases = Acquire(beat.leases, ResourcesOf(beat, t), w)
    <3>1. Acquire(beat.leases, ResourcesOf(beat, t), w) \in [Resources -> Lease]
      BY <1>4, LeaseTableType DEF Sound, RuntimeState
    <3> QED BY <1>4, <3>1, LeasesSound DEF Sound, RuntimeState
  <2>7. Renew(beat, t, w) = WithActiveAttempt(renewed, t, attempt)
    BY <1>4 DEF Renew, Sound, RuntimeState
  <2> HIDE DEF renewed, attempt
  <2>8. /\ u.tasks = beat.tasks /\ u.workers = beat.workers /\ u.leases = renewed.leases
        /\ \A v \in TaskIds \ {t} : u.taskAttempts[v] = beat.taskAttempts[v]
    BY <1>2, <1>7, <2>2, <2>5, <2>6, <2>7, WithActiveAttemptEffect, OthersKeepLeases
  <2>9. \A r \in ResourcesOf(beat, t) : r \in Resources /\ CanAcquire(beat.leases, r, w)
    BY <1>4, <2>1, <2>2, ResourcesOfType DEF HoldsTaskLeases, HeldBy, CanAcquire
  <2>10. beat.leases \in [Resources -> Lease] BY <1>4 DEF Sound, RuntimeState
  <2>11. \A r \in Resources :
            u.leases[r] = IF r \in ResourcesOf(beat, t) THEN GrantedTo(w) ELSE beat.leases[r]
    BY <2>6, <2>8, <2>10 DEF Acquire
  <2>12. ResourcesOf(u, t) = ResourcesOf(beat, t) BY <2>8, SameResources
  <2>13. /\ \A r \in Resources : u.leases[r] = beat.leases[r] \/ Granted(beat, u, r)
         /\ \A r \in ResourcesOf(u, t) : u.leases[r] = GrantedTo(w)
    BY <2>9, <2>11, <2>12 DEF Granted
  <2>14. \A v \in TaskIds \ {t} : Stays(beat, u, v) BY <2>8 DEF Stays, Engaged
  <2>15. One(beat) => FreeBut(beat, w, t) BY <1>4, CurrentIsFreeBut
  <2> HIDE DEF t
  <2>16. Kept(beat, u)
    BY <1>4, <1>5, <2>2, <2>3, <2>8, <2>13, <2>14, <2>15, TakesKept
  <2>17. Kept(s, u) BY <1>4, <2>16, KeptTransitive
  <2> QED BY <2>17 DEF u
<1> QED BY <1>6, <1>7 DEF u

-----------------------------------------------------------------------------
(* Resumption and dispatch *)

(* A resumed task is queued. *)
LEMMA ResumeTaskKept ==
    ASSUME NEW s, Sound(s), AttemptsGood(s), NEW t \in TaskIds, MayResume(s, t),
           Sound(ResumeTask(s, t))
    PROVE  Kept(s, ResumeTask(s, t))
<1> DEFINE u == ResumeTask(s, t)
<1>1. Resumes(s, u, t) /\ \A v \in TaskIds \ {t} : Rests(s, u, v) BY ResumeTaskResumes
<1>2. s \in RuntimeState BY DEF Sound
<1>3. u.leases = s.leases /\ u.workers = s.workers BY <1>2 DEF ResumeTask, RuntimeState
<1> HIDE DEF u
<1>4. Stays(s, u, t) BY <1>1 DEF Resumes, Stays, Engaged
<1>5. \A v \in TaskIds \ {t} : Stays(s, u, v) BY <1>1 DEF Rests, Stays, Engaged
<1>6. Sound(u) BY DEF u
<1> QED BY <1>3, <1>4, <1>5, <1>6, SameLeasesKept DEF u

(* An idle worker has claimed nothing. *)
LEMMA IdleIsFree ==
    ASSUME NEW s, One(s), NEW w \in Workers, s.workers[w].status = "idle"
    PROVE  Free(s, w)
<1>1. s.workers[w].currentTask = NoTask BY DEF One, IdleFree
<1>2. \A t \in TaskIds : t # NoTask BY ConstantTypes
<1> QED BY <1>1, <1>2 DEF Free, One, HasCurrent

LEMMA StaysFree ==
    ASSUME NEW s, NEW u, \A t \in TaskIds : Stays(s, u, t), NEW w, Free(s, w)
    PROVE  Free(u, w)
BY DEF Stays, Free

(* A dispatch gives a new task to a worker that is idle, or was when it     *)
(* began.                                                                   *)
LEMMA DispatchTaskKept ==
    ASSUME NEW began, NEW s, Sound(s), AttemptsGood(s), Dense(s), NEW input \in TaskInput,
           NextTaskId(s) \in TaskIds, NEW u \in DispatchTask(began, s, input)
    PROVE  /\ \A t \in TaskIds : Stays(s, u, t)
           /\ Last(s) => Last(u)
           /\ One(s) /\ (\A w \in Workers : began.workers[w].status = "idle" => Free(s, w)) =>
                One(u) /\ (Held(s) => Held(u))
<1> DEFINE n == NextTaskId(s)
<1>1. PICK w \in Candidates(began, s, input) : u = AddTask(s, n, input, w) BY DEF DispatchTask
<1>2. s.workers \in [Workers -> Worker] /\ s \in RuntimeState BY DEF Sound, RuntimeState
<1>3. /\ u.leases = s.leases
      /\ u.workers = [v \in Workers |-> IF v = w THEN Busy(s.workers[v], n) ELSE s.workers[v]]
  BY <1>1, <1>2 DEF AddTask, RuntimeState
<1>4. Sound(u) BY DispatchTaskSound
<1>5. \A t \in TaskIds : Grows(s, u, t) BY DispatchTaskGrows
<1>6. ASSUME NEW t \in TaskIds PROVE Stays(s, u, t)
  <2>1. CASE Rests(s, u, t) BY <2>1 DEF Rests, Stays, Engaged
  <2>2. CASE Creates(s, u, t)
    <3>1. u.taskAttempts[t] = <<>>
      BY <2>2 DEF AttemptsGood, Fits, TaskGood, AttemptsFit, Creates
    <3> QED BY <3>1 DEF Stays, Engaged, Ended
  <2> QED BY <1>5, <2>1, <2>2 DEF Grows
<1>7. LeasesMove(s, u) /\ \A t \in TaskIds : SparesLeases(s, u, t)
  BY <1>3 DEF LeasesMove, SparesLeases
<1>8. Last(s) => Last(u) BY <1>4, <1>6, <1>7, StaysLast DEF Last
<1>9. Held(s) => Held(u) BY <1>4, <1>6, <1>7, StaysHeld DEF Held
<1>10. ASSUME One(s), \A v \in Workers : began.workers[v].status = "idle" => Free(s, v)
       PROVE  One(u)
  <2>1. w \in Workers => Free(s, w)
    <3>1. w \in Workers => began.workers[w].status = "idle" \/ s.workers[w].status = "idle"
      BY LeasesAssumption DEF Candidates, IdleWorkers
    <3> QED BY <1>10, <3>1, IdleIsFree
  <2>2. IdleFree(u)
    <3>1. \A v \in Workers : Busy(s.workers[v], n).status = "busy" BY <1>2 DEF Busy, Worker
    <3> QED BY <1>3, <1>10, <3>1 DEF One, IdleFree
  <2>3. ASSUME NEW t \in TaskIds PROVE HasCurrent(u, t)
    <3>1. Stays(s, u, t) /\ HasCurrent(s, t) BY <1>6, <1>10 DEF One
    <3>2. KeepsCurrent(s, u, t) BY <1>3, <2>1, <3>1 DEF KeepsCurrent, Free, Stays
    <3> QED BY <3>1, <3>2, StaysCurrent
  <2> QED BY <2>2, <2>3 DEF One
<1> QED BY <1>6, <1>8, <1>9, <1>10

(* A pair may give one worker two tasks: it has claimed neither. *)
LEMMA CreateDispatchKept ==
    ASSUME NEW s, Sound(s), AttemptsGood(s), Ordered(s), NEW d \in Dispatches,
           NextTaskId(s) + Len(d) - 1 \in TaskIds, NEW u \in CreateDispatch(s, d)
    PROVE  Kept(s, u)
<1>1. d \in Seq(TaskInput) /\ Len(d) \in {1, 2} /\ \A i \in 1..Len(d) : d[i] \in TaskInput
  BY DispatcherAssumption, ElementOfSeq
<1>2. NextTaskId(s) \in Nat \ {0} BY NextTaskIdType
<1>3. TaskIds = 1..MaxTasks /\ MaxTasks \in Nat BY ConstantTypes DEF TaskIds
<1>4. NextTaskId(s) \in TaskIds
  <2> DEFINE n == NextTaskId(s)
             k == Len(d)
  <2>1. n \in Nat \ {0} /\ k \in {1, 2} /\ n + k - 1 \in TaskIds BY <1>1, <1>2
  <2> HIDE DEF n, k
  <2>2. n \in TaskIds BY <1>3, <2>1
  <2> QED BY <2>2 DEF n
<1>5. One(s) => \A w \in Workers : s.workers[w].status = "idle" => Free(s, w) BY IdleIsFree
<1>6. Follows(s) /\ Dense(s) /\ DepsFirst(s) BY DEF Ordered
<1>7. CASE Len(d) = 1
  <2>1. d[1] \in TaskInput BY <1>1, <1>7
  <2>2. u \in DispatchTask(s, s, d[1]) BY <1>7 DEF CreateDispatch
  <2> QED BY <1>4, <1>5, <1>6, <2>1, <2>2, DispatchTaskKept DEF Kept
<1>8. CASE Len(d) = 2
  <2>1. d[1] \in TaskInput /\ d[2] \in TaskInput BY <1>1, <1>8
  <2>2. PICK first \in DispatchTask(s, s, d[1]) : u \in DispatchTask(s, first, d[2])
    BY <1>8 DEF CreateDispatch
  <2>3. Sound(first) /\ NextTaskId(first) \in 1..(NextTaskId(s) + 1)
    BY <1>4, <2>1, <2>2, DispatchTaskSound
  <2>4. NextTaskId(first) \in TaskIds BY <1>2, <1>3, <1>8, <2>3
  <2>5. Dense(first) BY <1>4, <1>6, <2>1, <2>2, DispatchTaskMoves
  <2>6. Owned(first) /\ \A t \in TaskIds : Grows(s, first, t)
    BY <1>4, <1>6, <2>1, <2>2, DispatchTaskGrows
  <2>7. AttemptsGood(first) BY <2>6, GrowsGood DEF AttemptsGood, KeepsGood
  <2>8. /\ \A t \in TaskIds : Stays(s, first, t)
        /\ Last(s) => Last(first)
        /\ One(s) => One(first) /\ (Held(s) => Held(first))
    BY <1>4, <1>5, <1>6, <2>1, <2>2, DispatchTaskKept
  <2>9. One(s) => \A w \in Workers : s.workers[w].status = "idle" => Free(first, w)
    BY <1>5, <2>8, StaysFree
  <2>10. /\ Last(first) => Last(u)
         /\ One(first) /\ (\A w \in Workers : s.workers[w].status = "idle" => Free(first, w)) =>
              One(u) /\ (Held(first) => Held(u))
    BY <2>1, <2>2, <2>3, <2>4, <2>5, <2>7, DispatchTaskKept
  <2> QED BY <2>8, <2>9, <2>10 DEF Kept
<1> QED BY <1>1, <1>7, <1>8

-----------------------------------------------------------------------------
(* Time *)

(* The leases count down with the attempt: held leases that last as long as *)
(* it are still held when it has time left.                                 *)
LEMMA TickKept ==
    ASSUME AttemptInv, Tick
    PROVE  Kept(State, State')
<1> DEFINE s == State
<1>1. PICK u : u = State' OBVIOUS
<1>2. Sound(s) /\ Sound(u) BY <1>1, AttemptInvFacts, TickRefreshes
<1>3. SameCurrent(s, u) /\ \A t \in TaskIds : Refreshes(s, u, t) BY <1>1, TickRefreshes
<1>4. /\ s.workers \in [Workers -> Worker] /\ s.tasks \in [TaskIds -> Task]
      /\ s.leases \in [Resources -> Lease]
  BY <1>2 DEF Sound, RuntimeState
<1>5. \A w \in Workers : u.workers[w].status = s.workers[w].status
  <2>1. \A x \in Worker : \A n : [x EXCEPT !.age = n].status = x.status BY DEF Worker
  <2>2. u.workers = [w \in Workers |-> IF Registered(s, w)
                        THEN [s.workers[w] EXCEPT !.age = Older(@, Stale)] ELSE s.workers[w]]
    BY <1>1 DEF Tick, State
  <2> HIDE DEF s
  <2> SUFFICES ASSUME NEW w \in Workers PROVE u.workers[w].status = s.workers[w].status OBVIOUS
  <2> DEFINE n == Older(s.workers[w].age, Stale)
  <2>3. u.workers[w] = s.workers[w] \/ u.workers[w] = [s.workers[w] EXCEPT !.age = n] BY <2>2
  <2> HIDE DEF n
  <2> QED BY <1>4, <2>1, <2>3
<1>6. \A t \in TaskIds : u.tasks[t].input = s.tasks[t].input
  <2>1. \A x \in Task : \A n : [x EXCEPT !.inputTtl = n].input = x.input BY DEF Task
  <2> SUFFICES ASSUME NEW t \in TaskIds PROVE u.tasks[t].input = s.tasks[t].input OBVIOUS
  <2> DEFINE n == IF s.tasks[t].inputTtl = NoExpiry THEN NoExpiry
                  ELSE CountDown(s.tasks[t].inputTtl)
  <2>2. u.tasks[t] = [s.tasks[t] EXCEPT !.inputTtl = n] BY <1>1 DEF Tick, State
  <2> HIDE DEF n, s
  <2> QED BY <1>4, <2>1, <2>2
<1>7. \A r \in Resources : /\ u.leases[r].owner = s.leases[r].owner
                           /\ u.leases[r].ttl = CountDown(s.leases[r].ttl)
                           /\ s.leases[r].ttl \in Nat
  <2>1. \A x \in Lease : LET y == [x EXCEPT !.ttl = CountDown(@)]
                         IN y.owner = x.owner /\ y.ttl = CountDown(x.ttl) /\ x.ttl \in Nat
    BY ConstantTypes DEF Lease
  <2>2. u.leases = [r \in Resources |-> [s.leases[r] EXCEPT !.ttl = CountDown(@)]]
    BY <1>1, <1>4 DEF Tick, AgeLeases, State
  <2> HIDE DEF s
  <2> QED BY <1>4, <2>1, <2>2
<1>8. \A t \in TaskIds : u.taskAttempts[t] = [i \in DOMAIN s.taskAttempts[t] |->
                            [s.taskAttempts[t][i] EXCEPT !.ttl = CountDown(@)]]
  BY <1>1 DEF Tick, State
<1> HIDE DEF s
<1>9. ASSUME NEW t \in TaskIds, Engaged(u, t)
      PROVE  /\ Engaged(s, t) /\ u.tasks[t].worker = s.tasks[t].worker
             /\ ResourcesOf(u, t) = ResourcesOf(s, t)
             /\ TtlOf(u, t) = CountDown(TtlOf(s, t)) /\ TtlOf(s, t) \in Nat
  <2> DEFINE seq == s.taskAttempts[t]
             new == u.taskAttempts[t]
  <2>1. seq \in Seq(Attempt) /\ new \in Seq(Attempt) BY <1>2, AttemptsType
  <2>2. Len(new) = Len(seq) /\ \A i \in DOMAIN seq : Over(seq[i]) => new[i] = seq[i]
    BY <1>3 DEF Refreshes
  <2>3. DOMAIN new = DOMAIN seq BY <2>1, <2>2
  <2>4. Ended(seq) => Ended(new) BY <2>2, <2>3 DEF Ended
  <2>5. ~Ended(new) BY <1>9 DEF Engaged
  <2>6. seq # <<>> BY <2>4, <2>5 DEF Ended
  <2>7. Len(seq) \in DOMAIN seq /\ Latest(seq) \in Attempt BY <2>1, <2>6, LatestType
  <2>8. new[Len(seq)] = [seq[Len(seq)] EXCEPT !.ttl = CountDown(@)] BY <1>8, <2>7
  <2> HIDE DEF new, seq
  <2>9. Latest(new) = [Latest(seq) EXCEPT !.ttl = CountDown(@)] BY <2>2, <2>8 DEF Latest
  <2>10. Latest(new).ttl = CountDown(Latest(seq).ttl) /\ Latest(seq).ttl \in Nat
    BY <2>7, <2>9, ConstantTypes DEF Attempt
  <2>11. u.tasks[t].status = s.tasks[t].status /\ u.tasks[t].worker = s.tasks[t].worker
    BY <1>3 DEF Refreshes
  <2> QED BY <1>6, <1>9, <2>4, <2>5, <2>10, <2>11, SameResources DEF Engaged, TtlOf, new, seq
<1>10. ASSUME NEW t \in TaskIds, LeasesLast(s, t) PROVE LeasesLast(u, t)
  <2> SUFFICES ASSUME Engaged(u, t), NEW r \in ResourcesOf(u, t),
                      HeldBy(u.leases, r, u.tasks[t].worker)
               PROVE  u.leases[r].ttl >= TtlOf(u, t)
    BY DEF LeasesLast
  <2>1. r \in Resources BY <1>2, ResourcesOfType
  <2>2. s.leases[r].ttl > 0 BY <1>7, <2>1 DEF HeldBy, IsActive, CountDown
  <2>3. HeldBy(s.leases, r, s.tasks[t].worker) BY <1>7, <1>9, <2>1, <2>2 DEF HeldBy, IsActive
  <2>4. s.leases[r].ttl >= TtlOf(s, t) BY <1>9, <1>10, <2>3 DEF LeasesLast
  <2> QED BY <1>7, <1>9, <2>1, <2>2, <2>4 DEF CountDown
<1>11. ASSUME NEW t \in TaskIds, LeasesLast(s, t), LeasesHeld(s, t) PROVE LeasesHeld(u, t)
  <2> SUFFICES ASSUME Engaged(u, t), TtlOf(u, t) > 0, NEW r \in ResourcesOf(u, t)
               PROVE  HeldBy(u.leases, r, u.tasks[t].worker)
    BY DEF LeasesHeld
  <2>1. r \in Resources BY <1>2, ResourcesOfType
  <2>2. TtlOf(s, t) > 1 BY <1>9 DEF CountDown
  <2>3. HeldBy(s.leases, r, s.tasks[t].worker) BY <1>9, <1>11, <2>2 DEF LeasesHeld
  <2>4. s.leases[r].ttl >= TtlOf(s, t) BY <1>9, <1>11, <2>3 DEF LeasesLast
  <2>5. u.leases[r].ttl > 0 BY <1>7, <1>9, <2>1, <2>2, <2>4 DEF CountDown
  <2> QED BY <1>7, <1>9, <2>1, <2>3, <2>5 DEF HeldBy, IsActive
<1>12. One(s) => One(u) BY <1>3, <1>5, <1>9 DEF One, IdleFree, HasCurrent, SameCurrent
<1>13. Kept(s, u) BY <1>10, <1>11, <1>12 DEF Kept, Last, Held
<1> QED BY <1>1, <1>13 DEF s

-----------------------------------------------------------------------------
(* The handlers *)

(* A handler that writes expiries and reconciles. *)
LEMMA ReconcilesKept ==
    ASSUME NEW s, Sound(s), AttemptsGood(s), NEW fresh, Sound(fresh), SameCurrent(s, fresh),
           \A t \in TaskIds : Refreshes(s, fresh, t), Kept(s, fresh)
    PROVE  Kept(s, Reconcile(fresh))
<1>1. AttemptsGood(fresh) BY RefreshesAttemptsGood
<1>2. Kept(fresh, Reconcile(fresh)) BY <1>1, ReconcileKept
<1> DEFINE u == Reconcile(fresh)
<1> HIDE DEF u
<1> QED BY <1>2, KeptTransitive DEF u

LEMMA RegistrationKept ==
    ASSUME NEW s, Sound(s), AttemptsGood(s), NEW w \in Workers
    PROVE  LET u == Reconcile(RegisterWorker(s, w)) IN Sound(u) /\ Kept(s, u)
<1> DEFINE fresh == RegisterWorker(s, w)
<1>1. Sound(fresh) BY RegisterWorkerSound
<1>2. SameCurrent(s, fresh) /\ \A t \in TaskIds : Refreshes(s, fresh, t)
  BY WorkerFunctionsRefresh
<1>3. Kept(s, fresh) BY RegisterWorkerKept
<1> HIDE DEF fresh
<1>4. Sound(Reconcile(fresh)) BY <1>1, ReconcileSound
<1> QED BY <1>1, <1>2, <1>3, <1>4, ReconcilesKept DEF fresh

LEMMA BeatKept ==
    ASSUME NEW s, Sound(s), AttemptsGood(s), NEW w \in Workers
    PROVE  LET u == Reconcile(HeartbeatWorker(s, w)) IN Sound(u) /\ Kept(s, u)
<1> DEFINE fresh == HeartbeatWorker(s, w)
<1>1. Sound(fresh) BY HeartbeatWorkerSound
<1>2. SameCurrent(s, fresh) /\ \A t \in TaskIds : Refreshes(s, fresh, t)
  BY HeartbeatWorkerRefreshes
<1>3. Kept(s, fresh) BY HeartbeatWorkerKept
<1> HIDE DEF fresh
<1>4. Sound(Reconcile(fresh)) BY <1>1, ReconcileSound
<1> QED BY <1>1, <1>2, <1>3, <1>4, ReconcilesKept DEF fresh

(* What every step keeps, and what only those keep that leave work alone. *)
KeptUnlessReleased ==
    /\ Last(State) => Last(State')
    /\ ~EnabledAtWork => (One(State) => One(State'))
    /\ ~ReleasesUnderWork => Kept(State, State')

LEMMA KeptIsKept ==
    ASSUME Kept(State, State')
    PROVE  KeptUnlessReleased
BY DEF Kept, KeptUnlessReleased

(* An attempt under way was claimed by the task's worker. *)
LEMMA EngagedIsClaimed ==
    ASSUME AttemptInv, NEW t \in TaskIds, Engaged(State, t)
    PROVE  HasClaimed(State.tasks[t].worker, t) /\ State.tasks[t] = tasks[t]
<1>1. Sound(State) /\ Fits(State, t) BY AttemptInvFacts DEF AttemptsGood
<1>2. HasActiveAttempt(State, t) BY <1>1, AttemptOpen DEF Engaged
<1>3. State.tasks = tasks BY DEF State
<1> QED BY <1>2, <1>3 DEF HasClaimed, Engaged

(* Going offline releases the leases of the worker's own work. *)
LEMMA OfflineKept ==
    ASSUME AttemptInv, NEW w \in Workers, Offline(w)
    PROVE  KeptUnlessReleased
<1> DEFINE s == State
           u == MarkWorkerOffline(s, w)
<1>1. Sound(s) BY AttemptInvFacts
<1>2. Save(u) BY DEF Offline
<1>3. ~OfflineAtWork => Free(s, w) BY EngagedIsClaimed DEF OfflineAtWork, Free
<1> HIDE DEF s
<1>4. /\ Last(s) => Last(u)
      /\ One(s) => One(u)
      /\ Free(s, w) /\ Held(s) => Held(u)
  BY <1>1, MarkWorkerOfflineKept
<1>5. State' = u BY <1>1, <1>2, MarkWorkerOfflineSound, SavedState
<1> HIDE DEF u
<1> QED BY <1>3, <1>4, <1>5 DEF s, KeptUnlessReleased, ReleasesUnderWork, Kept

LEMMA WorkerRequestKept ==
    ASSUME AttemptInv, NEW w \in Workers, WorkerRequest(w), ~Offline(w)
    PROVE  Kept(State, State')
<1> DEFINE s == State
<1>1. Sound(s) /\ AttemptsGood(s) /\ Follows(s) BY AttemptInvFacts DEF Ordered
<1>2. State = s OBVIOUS
<1>3. taskAttempts = s.taskAttempts BY DEF State
<1> HIDE DEF s
<1>5. ASSUME Register(w) PROVE Kept(s, State')
  <2> DEFINE u == Reconcile(RegisterWorker(s, w))
  <2>1. Sound(u) /\ Kept(s, u) BY <1>1, RegistrationKept
  <2>2. Save(u) BY <1>2, <1>5 DEF Register
  <2> HIDE DEF u
  <2> QED BY <2>1, <2>2, SavedState
<1>6. ASSUME Heartbeat(w) PROVE Kept(s, State')
  <2> DEFINE u == Reconcile(HeartbeatWorker(s, w))
  <2>1. Sound(u) /\ Kept(s, u) BY <1>1, BeatKept
  <2>2. Save(u) BY <1>2, <1>6 DEF Heartbeat
  <2> HIDE DEF u
  <2> QED BY <2>1, <2>2, SavedState
<1>7. ASSUME Claim(w) PROVE Kept(s, State')
  <2>1. Sound(ClaimAssignedTask(s, w))
    BY <1>1, <1>2, <1>7, ClaimAssignedTaskType DEF Claim, Sound
  <2>2. State' = ClaimAssignedTask(s, w) BY <1>2, <1>7, <2>1, SavedState DEF Claim
  <2> QED BY <1>1, <2>1, <2>2, ClaimAssignedTaskKept
<1>8. ASSUME NEW t \in TaskIds, NEW i \in DOMAIN taskAttempts[t], Start(w, t, i)
      PROVE  Kept(s, State')
  <2> DEFINE u == BeginTask(s, w, t)
  <2>1. MayBegin(s, w, t, i) /\ Save(u) BY <1>2, <1>8 DEF Start
  <2>2. Sound(u) BY <1>1, <2>1, BeginTaskSound DEF MayBegin, OwnsActiveAttempt
  <2>3. Kept(s, u) BY <1>1, <2>1, <2>2, BeginTaskKept
  <2> HIDE DEF u
  <2>4. State' = u BY <2>1, <2>2, SavedState
  <2> QED BY <2>3, <2>4
<1>9. ASSUME NEW t \in TaskIds, NEW i \in DOMAIN taskAttempts[t],
             NEW outcome \in {"passed", "recoverable", "unrecoverable"}, Result(w, t, i, outcome)
      PROVE  Kept(s, State')
  <2> DEFINE u == RecordResult(s, w, t, outcome)
  <2>1. MayRecordResult(s, w, t, i) /\ Save(u) BY <1>2, <1>9 DEF Result
  <2>2. Sound(u) BY <1>1, <2>1, RecordResultSound DEF MayRecordResult, OwnsActiveAttempt
  <2>3. Kept(s, u) BY <1>1, <2>1, <2>2, RecordResultKept
  <2> HIDE DEF u
  <2>4. State' = u BY <2>1, <2>2, SavedState
  <2> QED BY <2>3, <2>4
<1>10. ASSUME NEW t \in TaskIds, NEW i \in DOMAIN taskAttempts[t],
              NEW inputTtl \in {InputTTL, NoExpiry}, ResultAsksForInput(w, t, i, inputTtl)
       PROVE  Kept(s, State')
  <2> DEFINE u == InterruptTask(s, t, inputTtl)
  <2>1. MayRecordResult(s, w, t, i) /\ Save(u) BY <1>2, <1>10 DEF ResultAsksForInput
  <2>2. inputTtl \in 0..NoExpiry BY ConstantTypes
  <2>3. Sound(u) BY <1>1, <2>2, InterruptTaskSound
  <2>4. Kept(s, u) BY <1>1, <2>1, <2>2, <2>3, AskKept
  <2> HIDE DEF u
  <2>5. State' = u BY <2>1, <2>3, SavedState
  <2> QED BY <2>4, <2>5
<1> QED BY <1>2, <1>5, <1>6, <1>7, <1>8, <1>9, <1>10 DEF WorkerRequest

(* An operator's decision, interruption or cancellation releases the leases *)
(* of the task's last worker, whatever it works on now.                     *)
LEMMA KeptButReleases ==
    ASSUME AttemptInv, NEW t \in TaskIds, ReleasesTask(t), KeptBut(State, State', t)
    PROVE  KeptUnlessReleased
<1>1. ASSUME ~ReleasedAtWork PROVE ElsewhereBut(State, State.tasks[t].worker, t)
  <2> SUFFICES ASSUME NEW x \in TaskIds \ {t}, Engaged(State, x),
                      State.tasks[x].worker = State.tasks[t].worker
               PROVE  State.tasks[x].input.repo # State.tasks[t].input.repo
    BY DEF ElsewhereBut
  <2>1. HasClaimed(State.tasks[x].worker, x) BY EngagedIsClaimed
  <2>2. State.tasks = tasks BY DEF State
  <2> QED BY <1>1, <2>1, <2>2 DEF ReleasedAtWork
<1> QED BY <1>1 DEF KeptBut, Kept, KeptUnlessReleased, ReleasesUnderWork

LEMMA OperatorRequestKept ==
    ASSUME AttemptInv, OperatorRequest
    PROVE  KeptUnlessReleased
<1> DEFINE s == State
<1>1. Sound(s) /\ AttemptsGood(s) /\ Ordered(s) /\ Follows(s) /\ Dense(s)
  BY AttemptInvFacts DEF Ordered
<1>2. State = s OBVIOUS
<1>3. tasks = s.tasks BY DEF State
<1> HIDE DEF s
<1>4. ASSUME NEW w \in Workers, Disable(w) PROVE KeptUnlessReleased
  <2> DEFINE u == DisableWorker(s, w)
  <2>1. Save(u) BY <1>2, <1>4 DEF Disable
  <2>2. Kept(s, u) BY <1>1, DisableWorkerKept
  <2>3. State' = u BY <1>1, <2>1, DisableWorkerSound, SavedState
  <2> HIDE DEF u
  <2> QED BY <1>2, <2>2, <2>3, KeptIsKept
<1>5. ASSUME NEW w \in Workers, Enable(w) PROVE KeptUnlessReleased
  <2> DEFINE u == EnableWorker(s, w)
  <2>1. Save(u) BY <1>2, <1>5 DEF Enable
  <2>2. (Last(s) => Last(u)) /\ (s.workers[w].currentTask = NoTask => Kept(s, u))
    BY <1>1, EnableWorkerKept
  <2>3. State' = u BY <1>1, <2>1, DisableWorkerSound, SavedState
  <2>4. ~EnabledAtWork => s.workers[w].currentTask = NoTask
    BY <1>2, <1>5 DEF EnabledAtWork, State
  <2> HIDE DEF u
  <2> QED BY <1>2, <2>2, <2>3, <2>4 DEF KeptUnlessReleased, ReleasesUnderWork, Kept
<1>6. ASSUME NEW d \in Dispatches, Dispatch(d) PROVE KeptUnlessReleased
  <2>1. NextTaskId(s) + Len(d) - 1 \in TaskIds BY <1>2, <1>6 DEF Dispatch
  <2>2. PICK u \in CreateDispatch(s, d) : Save(u) BY <1>2, <1>6 DEF Dispatch
  <2>3. Sound(u) BY <1>1, <2>1, CreateDispatchSound
  <2>4. Kept(s, u) BY <1>1, <2>1, CreateDispatchKept
  <2>5. State' = u BY <2>2, <2>3, SavedState
  <2> QED BY <1>2, <2>4, <2>5, KeptIsKept
<1>7. ASSUME NEW t \in TaskIds, Redrive(t) PROVE KeptUnlessReleased
  <2>1. NextTaskId(s) \in TaskIds /\ FreeRounds(s, s.tasks[t].input.branch) # {}
    BY <1>2, <1>3, <1>7 DEF Redrive
  <2>2. PICK u \in RedriveTask(s, t) : Save(u) BY <1>2, <1>7 DEF Redrive
  <2>3. Sound(u) BY <1>1, <2>1, RedriveTaskSound
  <2>4. RedriveInput(s, t) \in TaskInput BY <1>1, <2>1, RedriveInputType
  <2>5. u \in DispatchTask(s, s, RedriveInput(s, t)) BY DEF RedriveTask
  <2>6. One(s) => \A w \in Workers : s.workers[w].status = "idle" => Free(s, w) BY IdleIsFree
  <2>7. /\ Last(s) => Last(u)
        /\ One(s) /\ (\A w \in Workers : s.workers[w].status = "idle" => Free(s, w)) =>
             One(u) /\ (Held(s) => Held(u))
    BY <1>1, <2>1, <2>4, <2>5, DispatchTaskKept
  <2>8. Kept(s, u) BY <2>6, <2>7 DEF Kept
  <2>9. State' = u BY <2>2, <2>3, SavedState
  <2> QED BY <1>2, <2>8, <2>9, KeptIsKept
<1>8. ASSUME NEW t \in TaskIds, Resume(t) PROVE KeptUnlessReleased
  <2> DEFINE u == ResumeTask(s, t)
  <2>1. MayResume(s, t) /\ Save(u) BY <1>2, <1>8 DEF Resume
  <2>2. Sound(u) BY <1>1, <2>1, ResumeTaskSound
  <2>3. Kept(s, u) BY <1>1, <2>1, <2>2, ResumeTaskKept
  <2> HIDE DEF u
  <2>4. State' = u BY <2>1, <2>2, SavedState
  <2> QED BY <1>2, <2>3, <2>4, KeptIsKept
<1>9. ASSUME NEW t \in TaskIds, Cancel(t) PROVE KeptUnlessReleased
  <2> DEFINE u == CancelTask(s, t)
  <2>1. MayCancel(s, t) /\ Save(u) BY <1>2, <1>9 DEF Cancel
  <2>2. Sound(u) BY <1>1, CancelTaskSound
  <2>3. KeptBut(s, u, t) BY <1>1, <2>1, <2>2, CancelTaskKept
  <2> HIDE DEF u
  <2>4. State' = u BY <2>1, <2>2, SavedState
  <2>5. ReleasesTask(t) BY <1>9 DEF ReleasesTask
  <2> QED BY <1>2, <2>3, <2>4, <2>5, KeptButReleases
<1>10. ASSUME NEW t \in TaskIds, NEW inputTtl \in {InputTTL, NoExpiry}, Interrupt(t, inputTtl)
       PROVE  KeptUnlessReleased
  <2> DEFINE u == InterruptTask(s, t, inputTtl)
  <2>1. MayInterrupt(s, t) /\ Save(u) BY <1>2, <1>10 DEF Interrupt
  <2>2. inputTtl \in 0..NoExpiry BY ConstantTypes
  <2>3. Sound(u) BY <1>1, <2>2, InterruptTaskSound
  <2>4. KeptBut(s, u, t) BY <1>1, <2>1, <2>2, <2>3, InterruptTaskKept
  <2> HIDE DEF u
  <2>5. State' = u BY <2>1, <2>3, SavedState
  <2>6. ReleasesTask(t) BY <1>10 DEF ReleasesTask
  <2> QED BY <1>2, <2>4, <2>5, <2>6, KeptButReleases
<1>11. ASSUME NEW t \in TaskIds, NEW i \in 1..AttemptBound,
              NEW decision \in {"merge", "block", "rework"}, NEW canRedrive \in BOOLEAN,
              Decide(t, i, decision, canRedrive)
       PROVE  KeptUnlessReleased
  <2> DEFINE u == DecideReview(s, t, i, decision, canRedrive)
  <2>1. MayDecide(s, t, i) /\ Save(u) BY <1>2, <1>11 DEF Decide
  <2>2. Sound(u) BY <1>1, <2>1, DecideReviewSound
  <2>3. KeptBut(s, u, t) BY <1>1, <2>1, <2>2, DecideReviewKept
  <2> HIDE DEF u
  <2>4. State' = u BY <2>1, <2>2, SavedState
  <2>5. ReleasesTask(t) BY <1>11 DEF ReleasesTask
  <2> QED BY <1>2, <2>3, <2>4, <2>5, KeptButReleases
<1> QED BY <1>2, <1>4, <1>5, <1>6, <1>7, <1>8, <1>9, <1>10, <1>11 DEF OperatorRequest

LEMMA NextKept ==
    ASSUME AttemptInv, [Next]_vars
    PROVE  KeptUnlessReleased
<1>1. Sound(State) /\ AttemptsGood(State) BY AttemptInvFacts
<1>2. ASSUME NEW w \in Workers, WorkerRequest(w) PROVE KeptUnlessReleased
  <2>1. CASE Offline(w) BY <2>1, OfflineKept
  <2>2. CASE ~Offline(w) BY <1>2, <2>2, WorkerRequestKept, KeptIsKept
  <2> QED BY <2>1, <2>2
<1>3. CASE OperatorRequest BY <1>3, OperatorRequestKept
<1>4. CASE Tick BY <1>4, TickKept, KeptIsKept
<1>5. CASE GetAssignedTask
  <2>1. State' = Reconcile(State) BY <1>1, <1>5, ReconcileSound, SavedState DEF GetAssignedTask
  <2>2. Kept(State, State') BY <1>1, <2>1, ReconcileKept
  <2> QED BY <2>2, KeptIsKept
<1>6. CASE UNCHANGED vars
  <2>1. State' = State BY <1>6 DEF vars, State
  <2>2. Kept(State, State') BY <2>1 DEF Kept
  <2> QED BY <2>2, KeptIsKept
<1> QED BY <1>2, <1>3, <1>4, <1>5, <1>6 DEF Next

(* Nothing is under way in the empty runtime state. *)
LEMMA InitKept == Init => Last(State) /\ One(State) /\ Held(State)
<1> SUFFICES ASSUME Init PROVE Last(State) /\ One(State) /\ Held(State) OBVIOUS
<1>1. \A t \in TaskIds : ~Engaged(State, t) BY DEF Init, State, Engaged
<1>2. IdleFree(State) BY DEF Init, State, IdleFree
<1> QED BY <1>1, <1>2 DEF Last, LeasesLast, One, HasCurrent, Held, LeasesHeld

(* The three facts of the next state. *)
LEMMA PrimedFacts ==
    /\ Last(State') => Last(State)'
    /\ One(State') => One(State)'
    /\ Held(State') => Held(State)'
BY DEF Last, LeasesLast, One, IdleFree, HasCurrent, Held, LeasesHeld, Engaged, Ended, Over,
       Terminal, TtlOf, Latest, ResourcesOf, HeldBy, IsActive

-----------------------------------------------------------------------------
(* The theorems *)

(* A task whose result would be taken has an attempt under way. *)
LEMMA WorkedOnIsEngaged ==
    ASSUME AttemptInv, NEW t \in TaskIds, WorkedOn(t)
    PROVE  /\ Engaged(State, t) /\ ActiveAttempt(State, t).ttl = TtlOf(State, t)
           /\ TtlOf(State, t) > 0 /\ tasks[t] = State.tasks[t]
<1>1. Sound(State) /\ Fits(State, t) BY AttemptInvFacts DEF AttemptsGood
<1>2. tasks[t] = State.tasks[t] /\ State.tasks[t].status = "in_progress" BY DEF WorkedOn, State
<1> DEFINE s == State
           seq == s.taskAttempts[t]
<1>3. ActiveAttempt(s, t).ttl > 0 BY DEF WorkedOn
<1> HIDE DEF s
<1>4. LatestIs(seq, {"running"}) BY <1>1, <1>2 DEF Fits, TaskGood, AttemptsFit, s
<1>5. LatestIs(seq, Active) BY <1>4 DEF LatestIs, Active
<1>6. HasActiveAttempt(s, t) /\ ActiveAttempt(s, t) = Latest(seq)
  BY <1>1, <1>5, ActiveIsLatest DEF s
<1>7. ~Ended(seq) BY <1>1, <1>6, EndedHasNone DEF s
<1> QED BY <1>2, <1>3, <1>6, <1>7 DEF Engaged, TtlOf, s

LEMMA LastIsOutlasting == AttemptInv /\ Last(State) => LeasesOutlastAttempt
<1> SUFFICES ASSUME AttemptInv, Last(State), NEW t \in TaskIds, WorkedOn(t),
                    NEW r \in ResourcesOf(State, t), HeldBy(leases, r, tasks[t].worker)
             PROVE  leases[r].ttl >= ActiveAttempt(State, t).ttl
  BY DEF LeasesOutlastAttempt
<1>1. /\ Engaged(State, t) /\ ActiveAttempt(State, t).ttl = TtlOf(State, t)
      /\ tasks[t] = State.tasks[t]
  BY WorkedOnIsEngaged
<1>2. State.leases = leases BY DEF State
<1>3. State.leases[r].ttl >= TtlOf(State, t) BY <1>1, <1>2 DEF Last, LeasesLast
<1> QED BY <1>1, <1>2, <1>3

(* An attempt and its leases are renewed together and end together: no      *)
(* lease that the worker of a running attempt holds ends before the         *)
(* attempt, whatever the requests were.                                     *)
THEOREM LeasesOutlastAttemptHolds == Spec => []LeasesOutlastAttempt
<1>1. Init => Last(State) BY InitKept
<1>2. AttemptInv /\ Last(State) /\ [Next]_vars => Last(State)'
  BY NextKept, PrimedFacts DEF KeptUnlessReleased
<1> QED BY LastIsOutlasting, <1>1, <1>2, AttemptInvHolds, PTL DEF Spec

LEMMA OneIsOne == AttemptInv /\ One(State) => OneTaskPerWorker
<1> SUFFICES ASSUME AttemptInv, One(State), NEW t \in TaskIds, WorkedOn(t)
             PROVE  workers[tasks[t].worker].currentTask = t
  BY DEF OneTaskPerWorker
<1>1. Engaged(State, t) /\ tasks[t] = State.tasks[t] BY WorkedOnIsEngaged
<1>2. State.workers = workers BY DEF State
<1> QED BY <1>1, <1>2 DEF One, HasCurrent

(* As long as no worker is enabled while it has a current task, a worker    *)
(* works on one task at a time, whatever else is requested: the task whose  *)
(* result the dispatcher would take is its current task, which is what      *)
(* heartbeats renew and what a reconciliation cleans up when the worker is  *)
(* lost.  (enableWorker sets the status to idle and keeps currentTaskId: a  *)
(* worker at work looks free.)                                              *)
THEOREM OneTaskPerWorkerHolds == Spec /\ [][~EnabledAtWork]_vars => []OneTaskPerWorker
<1>1. Init => One(State) BY InitKept
<1>2. ASSUME AttemptInv, One(State), [Next]_vars, [~EnabledAtWork]_vars PROVE One(State)'
  <2>1. CASE ~EnabledAtWork
    BY <1>2, <2>1, NextKept, PrimedFacts DEF KeptUnlessReleased
  <2>2. CASE UNCHANGED vars
    <3>1. State' = State BY <2>2 DEF vars, State
    <3> QED BY <1>2, <3>1, PrimedFacts
  <2> QED BY <1>2, <2>1, <2>2
<1> QED BY OneIsOne, <1>1, <1>2, AttemptInvHolds, PTL DEF Spec

LEMMA CarefulIsSpec == CarefulSpec => Spec
<1>1. [Next /\ ~ReleasesUnderWork]_vars => [Next]_vars OBVIOUS
<1> QED BY <1>1, PTL DEF CarefulSpec, Spec

LEMMA HeldHolds == CarefulSpec => [](AttemptInv /\ Held(State))
<1> DEFINE Inv == Last(State) /\ One(State) /\ Held(State)
<1>1. Init => Inv BY InitKept
<1>2. ASSUME AttemptInv, Inv, [Next /\ ~ReleasesUnderWork]_vars PROVE Inv'
  <2>1. CASE Next /\ ~ReleasesUnderWork
    BY <1>2, <2>1, NextKept, PrimedFacts DEF KeptUnlessReleased, Kept
  <2>2. CASE UNCHANGED vars
    <3>1. State' = State BY <2>2 DEF vars, State
    <3> QED BY <1>2, <3>1, PrimedFacts
  <2> QED BY <1>2, <2>1, <2>2
<1>3. Inv => Held(State) OBVIOUS
<1> HIDE DEF Inv
<1> QED BY <1>1, <1>2, <1>3, CarefulIsSpec, AttemptInvHolds, PTL DEF CarefulSpec

LEMMA HeldIsHeld == AttemptInv /\ Held(State) => WorkHoldsLeases
<1> SUFFICES ASSUME AttemptInv, Held(State), NEW t \in TaskIds, WorkedOn(t)
             PROVE  HoldsTaskLeases(State, t, tasks[t].worker)
  BY DEF WorkHoldsLeases
<1>1. Engaged(State, t) /\ TtlOf(State, t) > 0 /\ tasks[t] = State.tasks[t]
  BY WorkedOnIsEngaged
<1> QED BY <1>1 DEF Held, LeasesHeld, HoldsTaskLeases

(* A worker holds the assignment, repo, branch and session leases of what   *)
(* it works on, through every request of every handler at any moment, but   *)
(* for the moments that ReleasesUnderWork names: an offline report or an    *)
(* enabling of a worker at work, and a decision, interruption or            *)
(* cancellation of a task while its last worker works on another one of     *)
(* the repository.                                                          *)
THEOREM WorkHoldsLeasesHolds == CarefulSpec => []WorkHoldsLeases
BY HeldHolds, HeldIsHeld, PTL

LEMMA HoldersAreApart == WorkHoldsLeases => RepoIsExclusive
<1> SUFFICES ASSUME WorkHoldsLeases, NEW t \in TaskIds, NEW u \in TaskIds,
                    WorkedOn(t), WorkedOn(u), tasks[t].input.repo = tasks[u].input.repo
             PROVE  tasks[t].worker = tasks[u].worker
  BY DEF RepoIsExclusive
<1> DEFINE r == <<"repo", tasks[t].input.repo>>
<1>1. r \in ResourcesOf(State, t) /\ r \in ResourcesOf(State, u)
  BY DEF ResourcesOf, TaskResources, State
<1> HIDE DEF r
<1>2. HeldBy(State.leases, r, tasks[t].worker) /\ HeldBy(State.leases, r, tasks[u].worker)
  BY <1>1 DEF WorkHoldsLeases, HoldsTaskLeases
<1> QED BY <1>2 DEF HeldBy

(* And so two workers never work in one repository, but for the same        *)
(* moments: the repo lease is one lease, of one owner.                      *)
THEOREM RepoIsExclusiveHolds == CarefulSpec => []RepoIsExclusive
BY HoldersAreApart, WorkHoldsLeasesHolds, PTL
=============================================================================
