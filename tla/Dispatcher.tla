----------------------------- MODULE Dispatcher -----------------------------
(***************************************************************************)
(* The runtime state machine of the ForgeFlow dispatcher: workers, tasks,  *)
(* assignments, task attempts, resource leases and reviews, as             *)
(* apps/dispatcher/src/modules/server/runtime-state.ts keeps them.         *)
(*                                                                         *)
(* The code is a set of pure functions from RuntimeState to RuntimeState;  *)
(* a request handler loads the state under the state lock, applies one or  *)
(* two of them and saves the result (withStateAsync).  The module has the  *)
(* same shape: `State' is the record of the variables, every function of   *)
(* the code is an operator on such a record, and every handler is an       *)
(* action that saves what its functions return.  A function that throws    *)
(* saves nothing: its condition is a guard.                                *)
(*                                                                         *)
(* Task ids are the order of creation.  Time is relative: countdowns to    *)
(* the expiry of a lease, ages since a heartbeat or an assignment.         *)
(*                                                                         *)
(* A definition whose comment begins with "Defect" is not part of the      *)
(* model: it is the definition after it with a bug one could write, which  *)
(* a property of this module must tell from the code.                      *)
(***************************************************************************)
EXTENDS Leases, Sequences, FiniteSets

CONSTANTS
    Repos, BranchNames, Pools,
    PoolOf,             \* the pool each worker registers with
    HeartbeatTimeout,   \* ticks without a heartbeat before a worker is offline
    AssignmentTimeout,  \* ticks an assignment may wait for its worker
    InputTTL,           \* ticks until an input request with an expiresAt expires
    MaxTaskAttempts,    \* DEFAULT_MAX_TASK_ATTEMPTS
    Dispatches,         \* the dispatches clients may post, sequences of task inputs
    Handlers,           \* the handlers this instance exercises
    MaxTasks,           \* bound: tasks ever created
    AttemptBound        \* bound: attempts of one task

TaskIds == 1..MaxTasks

NoTask == 0

(* Redrives number the branch: name, name-r2, name-r3... *)
Branches == BranchNames \X TaskIds

TaskInput ==
    [repo : Repos, branch : Branches, pool : Pools, target : Workers \cup {None},
     deps : SUBSET TaskIds, continueFrom : TaskIds \cup {NoTask},
     followUp : TaskIds \cup {NoTask}, redrive : BOOLEAN]

ASSUME DispatcherAssumption ==
    /\ MaxTasks \in Nat \ {0} /\ AttemptBound \in Nat \ {0}
    /\ MaxTaskAttempts \in Nat \ {0}
    /\ HeartbeatTimeout \in Nat /\ AssignmentTimeout \in Nat /\ InputTTL \in Nat
    /\ Repos # {} /\ BranchNames # {} /\ Pools # {}
    /\ PoolOf \in [Workers -> Pools]
    /\ \A d \in Dispatches :
        /\ d \in Seq(TaskInput) /\ Len(d) \in {1, 2}
        /\ \A i \in DOMAIN d : ~d[i].redrive

VARIABLES
    workers,        \* [Workers -> Worker]: RuntimeState.workers
    tasks,          \* [TaskIds -> Task]: RuntimeState.tasks
    assignments,    \* [TaskIds -> Assignment]: RuntimeState.assignments
    taskAttempts,   \* [TaskIds -> Seq(Attempt)]: RuntimeState.taskAttempts by task
    leases,         \* [Resources -> Lease]: RuntimeState.leases
    reviews         \* [TaskIds -> Review]: RuntimeState.reviews

vars == <<workers, tasks, assignments, taskAttempts, leases, reviews>>

State == [workers |-> workers, tasks |-> tasks, assignments |-> assignments,
          taskAttempts |-> taskAttempts, leases |-> leases, reviews |-> reviews]

-----------------------------------------------------------------------------
(* Types *)

(* Ages saturate one tick past the longest timeout.  An assignment's age    *)
(* may exceed the oldest heartbeat by one, so that "the worker's last       *)
(* heartbeat came after the assignment" survives the saturation.            *)
Stale == 1 + IF HeartbeatTimeout > AssignmentTimeout THEN HeartbeatTimeout
                                                     ELSE AssignmentTimeout

Worker == [status : {"absent", "idle", "busy", "offline", "disabled"},
           disabled : BOOLEAN,                  \* disabledAt is set
           age : 0..Stale,                      \* of lastHeartbeatAt
           currentTask : TaskIds \cup {NoTask}]

(* An input request may have no expiry: InputTTL + 1. *)
NoExpiry == InputTTL + 1

Task == [status : {"absent", "planned", "ready", "assigned", "in_progress", "review",
                   "merged", "blocked", "failed", "cancelled", "waiting_for_input"},
         worker : Workers \cup {None},          \* assignedWorkerId
         lastWorker : Workers \cup {None},      \* lastAssignedWorkerId
         waitingAttempt : 0..AttemptBound,      \* waitingForInput.attemptId, 0 when null
         inputTtl : 0..NoExpiry,                \* of waitingForInput.expiresAt
         input : TaskInput]                     \* what the dispatch said

Assignment == [worker : Workers \cup {None},
               status : {"pending", "assigned", "in_progress", "review", "merged",
                         "blocked", "failed", "cancelled", "waiting_for_input"},
               age : 0..Stale + 1,              \* of assignedAt
               claimed : BOOLEAN]               \* claimedAt is set

Attempt == [worker : Workers,
            status : {"leased", "running", "checkpointed",
                      "succeeded", "failed", "expired", "cancelled"},
            ttl : 0..LeaseTTL]                  \* of leaseExpiresAt

Review == [decision : {"pending", "merge", "block", "rework"},
           material : 0..AttemptBound,          \* reviewMaterial.freshness.attemptId
           reviewed : 0..AttemptBound,          \* evidence.reviewedFreshness
           result : {"none", "passed", "recoverable", "unrecoverable"},
           canRedrive : BOOLEAN]                \* evidence.canRedrive

Resources == ({"assignment"} \X TaskIds) \cup ({"repo"} \X Repos)
             \cup ({"branch"} \X Repos \X Branches)
             \cup ({"session"} \X Repos \X TaskIds)

(* The values a RuntimeState may have. *)
RuntimeState ==
    [workers : [Workers -> Worker], tasks : [TaskIds -> Task],
     assignments : [TaskIds -> Assignment], taskAttempts : [TaskIds -> Seq(Attempt)],
     leases : [Resources -> Lease], reviews : [TaskIds -> Review]]

-----------------------------------------------------------------------------
(* Task attempts *)

Terminal(attempt) == attempt.status \in {"succeeded", "failed", "expired", "cancelled"}

ActiveAttempts(s, t) == {i \in DOMAIN s.taskAttempts[t] : ~Terminal(s.taskAttempts[t][i])}

HasActiveAttempt(s, t) == ActiveAttempts(s, t) # {}

(* findActiveTaskAttempt returns the first attempt that has not ended. *)
ActiveNo(s, t) ==
    CHOOSE i \in ActiveAttempts(s, t) : \A j \in ActiveAttempts(s, t) : i <= j

ActiveAttempt(s, t) == s.taskAttempts[t][ActiveNo(s, t)]

AttemptNoOrZero(s, t) == IF HasActiveAttempt(s, t) THEN ActiveNo(s, t) ELSE 0

(* updateActiveTaskAttempt: nothing to do for a task without one. *)
WithActiveAttempt(s, t, attempt) ==
    IF HasActiveAttempt(s, t)
    THEN [s EXCEPT !.taskAttempts[t][ActiveNo(s, t)] = attempt]
    ELSE s

(* The expiry of an ended attempt is never read: it is 0. *)
EndAttempt(s, t, status) ==
    WithActiveAttempt(s, t, [ActiveAttempt(s, t) EXCEPT !.status = status, !.ttl = 0])

(* Defect: a claim reuses the last attempt even when it has ended. *)
CreateOrReviveTaskAttempt(s, t, w) ==
    IF s.taskAttempts[t] # <<>>
    THEN [s EXCEPT !.taskAttempts[t][Len(s.taskAttempts[t])] =
            [worker |-> w, status |-> "leased", ttl |-> LeaseTTL]]
    ELSE [s EXCEPT !.taskAttempts[t] = <<[worker |-> w, status |-> "leased", ttl |-> LeaseTTL]>>]

CreateOrReuseTaskAttempt(s, t, w) ==
    IF HasActiveAttempt(s, t)
    THEN WithActiveAttempt(s, t,
            [worker |-> w,
             status |-> IF ActiveAttempt(s, t).status = "checkpointed"
                        THEN "leased" ELSE ActiveAttempt(s, t).status,
             ttl |-> LeaseTTL])
    ELSE [s EXCEPT !.taskAttempts[t] =
            Append(@, [worker |-> w, status |-> "leased", ttl |-> LeaseTTL])]

(* Defect: the attempt is not named by the write. *)
OwnsSomeActiveAttempt(s, w, t, i) ==
    /\ HasActiveAttempt(s, t)
    /\ ActiveAttempt(s, t).worker = w
    /\ ActiveAttempt(s, t).ttl > 0

(* assertActiveAttemptLease: a write of attempt i of task t by worker w is  *)
(* admitted only while i is the active attempt, w owns it and its lease     *)
(* has not expired.                                                         *)
OwnsActiveAttempt(s, w, t, i) ==
    /\ HasActiveAttempt(s, t)
    /\ ActiveAttempt(s, t).worker = w
    /\ i = ActiveNo(s, t)
    /\ ActiveAttempt(s, t).ttl > 0

-----------------------------------------------------------------------------
(* Resource leases of a task *)

SessionAnchor(input) ==
    IF input.continueFrom # NoTask THEN input.continueFrom ELSE input.followUp

(* Defect: the repo is not among the resources. *)
TaskResourcesWithoutRepo(t, input) ==
    {<<"assignment", t>>, <<"branch", input.repo, input.branch>>}
    \cup IF SessionAnchor(input) = NoTask THEN {}
         ELSE {<<"session", input.repo, SessionAnchor(input)>>}

TaskResources(t, input) ==
    {<<"assignment", t>>, <<"repo", input.repo>>, <<"branch", input.repo, input.branch>>}
    \cup IF SessionAnchor(input) = NoTask THEN {}
         ELSE {<<"session", input.repo, SessionAnchor(input)>>}

ResourcesOf(s, t) == TaskResources(t, s.tasks[t].input)

(* Defect: a conflict on the repo goes unnoticed. *)
LeaseConflictsButRepo(s, t, w) ==
    {r \in ResourcesOf(s, t) : r[1] # "repo" /\ ~CanAcquire(s.leases, r, w)}

LeaseConflicts(s, t, w) == {r \in ResourcesOf(s, t) : ~CanAcquire(s.leases, r, w)}

(* acquireTaskResourceLeases takes the leases in this order, stops at the   *)
(* first conflict and keeps the ones it already has.                        *)
AcquisitionOrder == [assignment |-> 1, repo |-> 2, branch |-> 3, session |-> 4]

AcquireTaskLeases(s, t, w) ==
    [s EXCEPT !.leases =
        Acquire(@, {r \in ResourcesOf(s, t) :
                        \A c \in LeaseConflicts(s, t, w) :
                            AcquisitionOrder[r[1]] < AcquisitionOrder[c[1]]}, w)]

HoldsTaskLeases(s, t, w) == \A r \in ResourcesOf(s, t) : HeldBy(s.leases, r, w)

ReleaseTaskLeases(s, t, w) == [s EXCEPT !.leases = Release(@, ResourcesOf(s, t), w)]

ReleaseOwnTaskLeases(s, t) ==
    IF s.tasks[t].worker = None THEN s ELSE ReleaseTaskLeases(s, t, s.tasks[t].worker)

-----------------------------------------------------------------------------
(* Workers *)

Registered(s, w) == s.workers[w].status # "absent"

(* resolveWorkerStatus *)
ResolvedStatus(s, w) ==
    IF s.workers[w].disabled THEN "disabled"
    ELSE IF s.workers[w].age > HeartbeatTimeout THEN "offline"
    ELSE s.workers[w].status

(* selectWorkerForDispatch looks at the stored status, not the resolved one. *)
IdleWorkers(s, pool) ==
    {w \in Workers : s.workers[w].status = "idle" /\ ~s.workers[w].disabled
                     /\ PoolOf[w] = pool}

HasHealthyIdleAlternative(s, w) ==
    \E v \in IdleWorkers(s, PoolOf[w]) \ {w} : ResolvedStatus(s, v) = "idle"

Busy(worker, t) == [worker EXCEPT !.status = "busy", !.currentTask = t, !.age = 0]

(* Defect: a worker that delivered keeps its currentTaskId. *)
FreedKeepingTask(worker) == [worker EXCEPT !.status = "idle", !.age = 0]

(* A worker that delivered its result is idle, a disabled one too. *)
Freed(worker) == [worker EXCEPT !.status = "idle", !.currentTask = NoTask, !.age = 0]

(* releaseWorkerFromTask, and the same code in cancelTask. *)
ReleaseWorkers(s, t) ==
    [s EXCEPT !.workers = [w \in Workers |->
        IF @[w].currentTask = t
        THEN [@[w] EXCEPT !.status = IF s.workers[w].disabled THEN "disabled" ELSE "idle",
                          !.currentTask = NoTask, !.age = 0]
        ELSE @[w]]]

-----------------------------------------------------------------------------
(* Assignments *)

(* Defect: the queued assignment gets the status of its task. *)
UnassignedReady(assignment) ==
    [assignment EXCEPT !.worker = None, !.status = "ready", !.age = 0, !.claimed = FALSE]

Unassigned(assignment) ==
    [assignment EXCEPT !.worker = None, !.status = "pending", !.age = 0, !.claimed = FALSE]

AssignedTo(w) == [worker |-> w, status |-> "assigned", age |-> 0, claimed |-> FALSE]

(* Defect: the assignment stays with the worker that lost the task. *)
RequeueTasksOnly(s, T) ==
    [s EXCEPT !.tasks = [t \in TaskIds |->
                  IF t \in T THEN [@[t] EXCEPT !.status = "ready", !.worker = None,
                                               !.lastWorker = s.tasks[t].worker]
                  ELSE @[t]]]

(* Task and assignment go back to the queue, remembering who had the task. *)
RequeueTasks(s, T) ==
    [s EXCEPT !.tasks = [t \in TaskIds |->
                  IF t \in T THEN [@[t] EXCEPT !.status = "ready", !.worker = None,
                                               !.lastWorker = s.tasks[t].worker]
                  ELSE @[t]],
              !.assignments = [t \in TaskIds |-> IF t \in T THEN Unassigned(@[t]) ELSE @[t]]]

(* Assignment state follows task state.  Only an assigned one's age is read. *)
SetStatus(s, t, status) ==
    [s EXCEPT !.tasks[t].status = status,
              !.assignments[t].status = status, !.assignments[t].age = 0]

(* Defect: what is in review is taken for merged. *)
MergedOrInReview(s, T) == \A d \in T : s.tasks[d].status \in {"review", "merged"}

Merged(s, T) == \A d \in T : s.tasks[d].status = "merged"

(* didWorkerHeartbeatAfterAssignment *)
HeardFromSince(s, w, t) == s.workers[w].age < s.assignments[t].age

AssignmentTimedOut(s, w, t) ==
    /\ ~s.assignments[t].claimed
    /\ s.assignments[t].age > AssignmentTimeout
    /\ ~HeardFromSince(s, w, t)

-----------------------------------------------------------------------------
(* reconcileRuntimeState: every worker poll runs it. *)

ReclaimLeases(s) == [s EXCEPT !.leases = ReclaimExpiredLeases(@)]

(* Defect: a worker that was reported offline is passed over. *)
ExpiredRunningOfBusy(s) ==
    {t \in TaskIds : /\ s.tasks[t].status = "in_progress" /\ s.tasks[t].worker # None
                     /\ s.workers[s.tasks[t].worker].status = "busy"
                     /\ HasActiveAttempt(s, t) /\ ActiveAttempt(s, t).ttl = 0}

ExpiredRunning(s) ==
    {t \in TaskIds : /\ s.tasks[t].status = "in_progress" /\ s.tasks[t].worker # None
                     /\ HasActiveAttempt(s, t) /\ ActiveAttempt(s, t).ttl = 0}

(* Defect: one retry too many. *)
MayRetryOnceMore(s, t) == Len(s.taskAttempts[t]) <= MaxTaskAttempts

MayRetry(s, t) == Len(s.taskAttempts[t]) < MaxTaskAttempts

(* An expired attempt ends, its leases are released and its worker is       *)
(* offline; a task that has no attempts left fails.                         *)
EndExpiredAttempts(s) ==
    LET expired == ExpiredRunning(s)
        failed == {t \in expired : ~MayRetry(s, t)}
        lost(r) == \E t \in expired : /\ r \in ResourcesOf(s, t)
                                      /\ s.leases[r].owner = s.tasks[t].worker
    IN [s EXCEPT
            !.taskAttempts = [t \in TaskIds |->
                IF t \in expired
                THEN [@[t] EXCEPT ![ActiveNo(s, t)].status = "expired", ![ActiveNo(s, t)].ttl = 0]
                ELSE @[t]],
            !.leases = [r \in DOMAIN @ |-> IF lost(r) THEN NoLease ELSE @[r]],
            !.workers = [w \in Workers |->
                IF \E t \in expired : s.tasks[t].worker = w
                THEN [@[w] EXCEPT !.status = "offline", !.currentTask = NoTask]
                ELSE @[w]],
            !.tasks = [t \in TaskIds |->
                IF t \in failed THEN [@[t] EXCEPT !.status = "failed"] ELSE @[t]],
            !.assignments = [t \in TaskIds |->
                IF t \in failed THEN [@[t] EXCEPT !.status = "failed"] ELSE @[t]]]

(* reconcileExpiredRunningAttempts *)
ReconcileExpiredAttempts(s) ==
    RequeueTasks(EndExpiredAttempts(s), {t \in ExpiredRunning(s) : MayRetry(s, t)})

(* Defect: a task that was leased once is left to the attempt lease. *)
BoundUnleased(s, w, t) ==
    /\ t # NoTask /\ ~HasActiveAttempt(s, t)
    /\ s.tasks[t].status = "assigned" /\ s.tasks[t].worker = w
    /\ s.assignments[t].status = "assigned" /\ s.assignments[t].worker = w

(* The task a worker is bound to and has not started. *)
BoundUnstarted(s, w, t) ==
    /\ t # NoTask
    /\ s.tasks[t].status = "assigned" /\ s.tasks[t].worker = w
    /\ s.assignments[t].status = "assigned" /\ s.assignments[t].worker = w

(* shouldRequeueBecauseOffline, shouldRequeueBecauseTimeout *)
LostBeforeClaim(s, w) ==
    LET t == s.workers[w].currentTask
    IN /\ ResolvedStatus(s, w) = "offline"
       /\ BoundUnstarted(s, w, t) /\ ~s.assignments[t].claimed

TimedOutBeforeClaim(s, w) ==
    LET t == s.workers[w].currentTask
    IN BoundUnstarted(s, w, t) /\ AssignmentTimedOut(s, w, t)

LostWorkers(s) ==
    {w \in Workers : Registered(s, w) /\ (LostBeforeClaim(s, w) \/ TimedOutBeforeClaim(s, w))}

(* A lost worker gives up its task and the task's leases; it is offline, as *)
(* is one whose heartbeat is too old.                                       *)
GoOffline(s) ==
    LET lost == LostWorkers(s)
        gone == {w \in Workers : Registered(s, w)
                                 /\ (ResolvedStatus(s, w) = "offline" \/ w \in lost)}
        freed(r) == \E w \in lost : /\ r \in ResourcesOf(s, s.workers[w].currentTask)
                                    /\ s.leases[r].owner = w
    IN [s EXCEPT
            !.leases = [r \in DOMAIN @ |-> IF freed(r) THEN NoLease ELSE @[r]],
            !.workers = [w \in Workers |->
                IF w \in gone
                THEN [@[w] EXCEPT !.status = "offline",
                                  !.currentTask = IF w \in lost THEN NoTask
                                                  ELSE s.workers[w].currentTask]
                ELSE @[w]]]

(* The loop of reconcileRuntimeState over the workers.  A worker reads and  *)
(* writes its own record, its own task and its own leases only, so the      *)
(* order of the loop does not matter.                                       *)
ReconcileWorkers(s) ==
    RequeueTasks(GoOffline(s), {s.workers[w].currentTask : w \in LostWorkers(s)})

(* A planned task is unlocked once every dependency is merged. *)
UnlockPlanned(s) ==
    LET unlocked == {t \in TaskIds : /\ s.tasks[t].status = "planned"
                                     /\ s.tasks[t].input.deps # {}
                                     /\ Merged(s, s.tasks[t].input.deps)}
    IN [s EXCEPT
          !.tasks = [t \in TaskIds |->
              IF t \in unlocked THEN [@[t] EXCEPT !.status = "ready", !.worker = None] ELSE @[t]],
          !.assignments = [t \in TaskIds |-> IF t \in unlocked THEN Unassigned(@[t]) ELSE @[t]]]

Reconcile(s) == UnlockPlanned(ReconcileWorkers(ReconcileExpiredAttempts(ReclaimLeases(s))))

-----------------------------------------------------------------------------
(* Worker lifecycle *)

(* registerWorker keeps the status and the task of a known worker, and drops *)
(* its disabledAt: the new record has no such field.                         *)
RegisterWorker(s, w) ==
    [s EXCEPT !.workers[w] =
        [status |-> IF @.status = "absent" THEN "idle" ELSE @.status,
         disabled |-> FALSE, age |-> 0, currentTask |-> @.currentTask]]

(* heartbeatWorker renews the attempt and every lease of the current task,  *)
(* or none of them.                                                         *)
RenewsTask(s, w) ==
    LET t == s.workers[w].currentTask
    IN /\ t # NoTask
       /\ HasActiveAttempt(s, t)
       /\ ActiveAttempt(s, t).worker = w /\ ActiveAttempt(s, t).ttl > 0
       /\ HoldsTaskLeases(s, t, w)

(* Defect: the attempt's new expiry is not the leases'. *)
RenewAttemptOnly(s, t, w) ==
    WithActiveAttempt(s, t, [ActiveAttempt(s, t) EXCEPT !.ttl = LeaseTTL])

Renew(s, t, w) ==
    WithActiveAttempt([s EXCEPT !.leases = Acquire(@, ResourcesOf(s, t), w)],
                      t, [ActiveAttempt(s, t) EXCEPT !.ttl = LeaseTTL])

HeartbeatWorker(s, w) ==
    LET beat == [s EXCEPT !.workers[w] =
            [@ EXCEPT !.age = 0,
                      !.status = IF s.workers[w].currentTask # NoTask THEN "busy"
                                 ELSE IF s.workers[w].status = "offline" THEN "idle"
                                 ELSE s.workers[w].status]]
    IN IF RenewsTask(beat, w) THEN Renew(beat, s.workers[w].currentTask, w) ELSE beat

(* markWorkerOffline releases the leases of the current task and keeps it. *)
MarkWorkerOffline(s, w) ==
    LET t == s.workers[w].currentTask
        released == IF t = NoTask THEN s ELSE ReleaseTaskLeases(s, t, w)
    IN [released EXCEPT !.workers[w] = [@ EXCEPT !.status = "offline", !.age = 0]]

DisableWorker(s, w) ==
    [s EXCEPT !.workers[w] = [@ EXCEPT !.status = "disabled", !.disabled = TRUE]]

EnableWorker(s, w) ==
    [s EXCEPT !.workers[w] = [@ EXCEPT !.status = "idle", !.disabled = FALSE, !.age = 0]]

-----------------------------------------------------------------------------
(* Dispatch and redrive *)

Exists(s, t) == s.tasks[t].status # "absent"

NextTaskId(s) == 1 + Cardinality({t \in TaskIds : Exists(s, t)})

(* The worker a redrive or a follow-up goes back to. *)
SourceWorker(s, t) ==
    IF s.tasks[t].lastWorker # None THEN s.tasks[t].lastWorker
    ELSE IF s.tasks[t].worker # None THEN s.tasks[t].worker
    ELSE IF s.assignments[t].worker # None THEN s.assignments[t].worker
    ELSE s.tasks[t].input.target

TargetOf(s, input) ==
    IF input.target = None /\ input.followUp # NoTask
    THEN SourceWorker(s, input.followUp) ELSE input.target

(* Defect: the target need not be idle. *)
CandidatesEvenBusy(began, s, input) ==
    LET target == TargetOf(s, input)
        idle == IdleWorkers(s, input.pool)
    IN IF input.deps # {} THEN {None}
       ELSE IF target # None
       THEN IF PoolOf[target] = input.pool /\ began.workers[target].status \in {"idle", "busy"}
            THEN {target} ELSE {None}
       ELSE IF idle = {} THEN {None} ELSE idle

(* The workers createDispatch may give a task to.  The target is looked up  *)
(* in the state the dispatch began with, and disabledAt is not looked at;   *)
(* among idle workers the one with the oldest heartbeat is taken, and       *)
(* heartbeats of the same tick may come in any order.                       *)
Candidates(began, s, input) ==
    LET target == TargetOf(s, input)
        idle == IdleWorkers(s, input.pool)
    IN IF input.deps # {} THEN {None}
       ELSE IF target # None
       THEN IF PoolOf[target] = input.pool /\ began.workers[target].status = "idle"
            THEN {target} ELSE {None}
       ELSE IF idle = {} THEN {None}
       ELSE {w \in idle : \A v \in idle : s.workers[v].age <= s.workers[w].age}

AddTask(s, t, input, w) ==
    [s EXCEPT
        !.tasks[t] = [status |-> IF input.deps # {} THEN "planned"
                                 ELSE IF w = None THEN "ready" ELSE "assigned",
                      worker |-> w, lastWorker |-> w, waitingAttempt |-> 0, inputTtl |-> 0,
                      input |-> [input EXCEPT !.target = TargetOf(s, input)]],
        !.assignments[t] = IF w = None THEN Unassigned(@) ELSE AssignedTo(w),
        !.workers = [v \in Workers |-> IF v = w THEN Busy(@[v], t) ELSE @[v]],
        !.reviews[t] = [decision |-> "pending", material |-> 0, reviewed |-> 0,
                        result |-> "none", canRedrive |-> TRUE]]

DispatchTask(began, s, input) ==
    {AddTask(s, NextTaskId(s), input, w) : w \in Candidates(began, s, input)}

(* createDispatch: the states it may lead to. *)
CreateDispatch(s, d) ==
    IF Len(d) = 1 THEN DispatchTask(s, s, d[1])
    ELSE UNION {DispatchTask(s, first, d[2]) : first \in DispatchTask(s, s, d[1])}

(* resolveSourceTaskForFollowUp throws when the source is unknown. *)
FollowUpKnown(s, input) == input.followUp # NoTask => Exists(s, input.followUp)

(* findExistingManualRedrive *)
Redriven(s, t) ==
    \E u \in TaskIds : Exists(s, u) /\ s.tasks[u].input.redrive
                                     /\ s.tasks[u].input.continueFrom = t

(* resolveFailedTaskFailure: the latest result the worker delivered decides, *)
(* even when a later attempt failed by expiry.                               *)
RecoverableFailure(s, t) ==
    IF s.reviews[t].result = "none"
    THEN s.taskAttempts[t] # <<>> /\ s.taskAttempts[t][Len(s.taskAttempts[t])].status = "expired"
    ELSE s.reviews[t].result = "recoverable"

(* Defect: a redrive that exists is not looked for. *)
CanRedriveAgain(s, t) ==
    \/ s.tasks[t].status = "failed" /\ RecoverableFailure(s, t)
    \/ /\ s.tasks[t].status = "blocked"
       /\ s.reviews[t].decision = "rework" /\ s.reviews[t].canRedrive

CanRedrive(s, t) ==
    /\ ~Redriven(s, t)
    /\ \/ s.tasks[t].status = "failed" /\ RecoverableFailure(s, t)
       \/ /\ s.tasks[t].status = "blocked"
          /\ s.reviews[t].decision = "rework" /\ s.reviews[t].canRedrive

(* nextAvailableRedriveBranchName *)
FreeRounds(s, branch) ==
    {n \in TaskIds : /\ n > branch[2]
                     /\ \A u \in TaskIds : Exists(s, u) =>
                            s.tasks[u].input.branch # <<branch[1], n>>}

NextBranch(s, branch) ==
    <<branch[1], CHOOSE n \in FreeRounds(s, branch) : \A m \in FreeRounds(s, branch) : n <= m>>

RedriveInput(s, t) ==
    [s.tasks[t].input EXCEPT
        !.branch = NextBranch(s, @), !.target = SourceWorker(s, t), !.deps = {},
        !.continueFrom = t, !.followUp = NoTask, !.redrive = TRUE]

RedriveTask(s, t) == DispatchTask(s, s, RedriveInput(s, t))

-----------------------------------------------------------------------------
(* Claim and start *)

(* getAssignedTaskForWorker: the task the worker is bound to is still to be done. *)
BoundTask(s, w) ==
    LET t == s.workers[w].currentTask
    IN IF /\ t # NoTask
          /\ s.tasks[t].status \in {"assigned", "in_progress"}
          /\ s.assignments[t].status \in {"assigned", "in_progress"}
       THEN t ELSE NoTask

(* The Trae flow may assign a task before it writes currentTaskId.  The    *)
(* claim throws when assignment and task disagree here: they never do, by  *)
(* AssignmentFollowsTask below.                                            *)
PreAssigned(s, w) ==
    {t \in TaskIds : s.tasks[t].status = "assigned" /\ s.tasks[t].worker = w}

(* A task does not go back to its last worker while a healthy one is idle, *)
(* even a task that may go to that worker only.                            *)
Claimable(s, w) ==
    {t \in TaskIds :
        LET task == s.tasks[t]
        IN /\ task.status = "ready" /\ task.input.pool = PoolOf[w]
           /\ Merged(s, task.input.deps)
           /\ task.input.target \in {None, w}
           /\ task.lastWorker = w => ~HasHealthyIdleAlternative(s, w)}

FirstOf(T) == CHOOSE t \in T : \A u \in T : t <= u

(* The leases and the attempt of a claim.  When one of the leases is not   *)
(* available only the ones gained before it stay.                          *)
TakeTask(s, t, w) == CreateOrReuseTaskAttempt(AcquireTaskLeases(s, t, w), t, w)

ClaimBound(s, t, w) ==
    IF LeaseConflicts(s, t, w) # {} THEN AcquireTaskLeases(s, t, w)
    ELSE [TakeTask(s, t, w) EXCEPT !.assignments[t].claimed =
            \/ @
            \/ s.tasks[t].status = "assigned" /\ s.assignments[t].status = "assigned"]

ClaimPreAssigned(s, t, w) ==
    IF LeaseConflicts(s, t, w) # {} THEN AcquireTaskLeases(s, t, w)
    ELSE [TakeTask(s, t, w) EXCEPT !.assignments[t].claimed = TRUE,
                                      !.workers[w] = Busy(@, t)]

ClaimReady(s, t, w) ==
    IF LeaseConflicts(s, t, w) # {} THEN AcquireTaskLeases(s, t, w)
    ELSE [TakeTask(s, t, w) EXCEPT
            !.tasks[t] = [@ EXCEPT !.status = "assigned", !.worker = w, !.lastWorker = w],
            !.assignments[t] = AssignedTo(w),
            !.workers[w] = Busy(@, t)]

(* A claim by a worker that has no task brings it back online. *)
Revive(before, s, w) ==
    IF /\ s.workers[w].status = "offline" /\ s.workers[w].currentTask = NoTask
       /\ before.workers[w].currentTask = NoTask /\ before.workers[w].status # "busy"
    THEN [s EXCEPT !.workers[w] = [@ EXCEPT !.status = "idle", !.age = 0]]
    ELSE s

ClaimOnceReconciled(s, w) ==
    IF BoundTask(s, w) # NoTask THEN ClaimBound(s, BoundTask(s, w), w)
    ELSE IF PreAssigned(s, w) # {} THEN ClaimPreAssigned(s, FirstOf(PreAssigned(s, w)), w)
    ELSE IF s.workers[w].status = "idle" /\ Claimable(s, w) # {}
    THEN ClaimReady(s, FirstOf(Claimable(s, w)), w)
    ELSE s

(* claimAssignedTaskForWorker *)
ClaimAssignedTask(s, w) ==
    LET reconciled == Reconcile(s)
    IN IF reconciled.workers[w].disabled THEN reconciled
       ELSE ClaimOnceReconciled(Revive(s, reconciled, w), w)

(* beginTaskForWorker *)
MayBegin(s, w, t, i) ==
    /\ s.tasks[t].worker = w /\ s.assignments[t].worker = w
    /\ OwnsActiveAttempt(s, w, t, i)
    /\ s.tasks[t].status = "assigned" /\ s.assignments[t].status = "assigned"
    /\ LeaseConflicts(s, t, w) = {}

BeginTask(s, w, t) ==
    LET running == WithActiveAttempt(AcquireTaskLeases(s, t, w), t,
                       [ActiveAttempt(s, t) EXCEPT !.status = "running", !.ttl = LeaseTTL])
    IN [SetStatus(running, t, "in_progress") EXCEPT
           !.assignments[t].claimed = TRUE, !.workers[w] = Busy(@, t)]

-----------------------------------------------------------------------------
(* Results, reviews and operator requests *)

(* recordWorkerResult admits a result of attempt i while the attempt and    *)
(* the assignment lease are live and the task is still the worker's.  An    *)
(* exact replay of a recorded result is answered and changes nothing.       *)
MayRecordResult(s, w, t, i) ==
    /\ OwnsActiveAttempt(s, w, t, i)
    /\ s.tasks[t].worker = w
    /\ HeldBy(s.leases, <<"assignment", t>>, w)
    /\ s.tasks[t].status \in {"assigned", "in_progress"}

RecordResult(s, w, t, outcome) ==
    LET passed == outcome = "passed"
        recorded == [SetStatus(s, t, IF passed THEN "review" ELSE "failed") EXCEPT
            !.workers[w] = Freed(@),
            !.reviews[t] = [@ EXCEPT !.decision = "pending",
                                     !.material = IF passed THEN ActiveNo(s, t) ELSE 0,
                                     !.result = outcome]]
    IN ReleaseTaskLeases(EndAttempt(recorded, t, IF passed THEN "succeeded" ELSE "failed"), t, w)

(* Defect: the freshness of what was read is not compared. *)
MayDecideUnread(s, t, i) == s.tasks[t].status = "review" /\ s.reviews[t].material # 0

(* recordReviewDecision of a reviewer that read attempt i.  Evidence that   *)
(* is not given keeps what was said about redriving before.                 *)
MayDecide(s, t, i) ==
    s.tasks[t].status = "review" /\ s.reviews[t].material # 0 /\ i = s.reviews[t].material

DecideReview(s, t, i, decision, canRedrive) ==
    ReleaseOwnTaskLeases(
        [SetStatus(s, t, IF decision = "merge" THEN "merged" ELSE "blocked") EXCEPT
            !.reviews[t] = [@ EXCEPT !.decision = decision, !.reviewed = i,
                                     !.canRedrive = canRedrive]], t)

(* interruptTaskForInput *)
MayInterrupt(s, t) ==
    s.tasks[t].status \in {"ready", "assigned", "in_progress", "blocked"}

InterruptTask(s, t, inputTtl) ==
    LET waiting == [SetStatus(ReleaseWorkers(s, t), t, "waiting_for_input") EXCEPT
            !.tasks[t] = [@ EXCEPT !.worker = None, !.inputTtl = inputTtl,
                                   !.waitingAttempt = AttemptNoOrZero(s, t)],
            !.assignments[t].worker = None,
            !.leases = ReleaseOwnTaskLeases(s, t).leases]
    IN WithActiveAttempt(waiting, t, [ActiveAttempt(s, t) EXCEPT !.status = "checkpointed"])

(* resumeTaskFromInput by the caller that presents the identity of the      *)
(* request; any other caller is turned away, a late one included.           *)
MayResume(s, t) == s.tasks[t].status = "waiting_for_input" /\ s.tasks[t].inputTtl > 0

ResumeTask(s, t) ==
    [s EXCEPT !.tasks[t] = [@ EXCEPT !.status = "ready", !.worker = None,
                                     !.waitingAttempt = 0, !.inputTtl = 0],
              !.assignments[t] = Unassigned(@)]

(* Defect: a failed task may be cancelled. *)
MayCancelFailed(s, t) == s.tasks[t].status \notin {"absent", "cancelled", "merged"}

(* cancelTask; cancelling a cancelled task changes nothing. *)
MayCancel(s, t) ==
    s.tasks[t].status \notin {"absent", "cancelled", "merged", "failed"}

(* Defect: the attempt of a cancelled task stays open. *)
CancelTaskOnly(s, t) ==
    ReleaseOwnTaskLeases(SetStatus(ReleaseWorkers(s, t), t, "cancelled"), t)

CancelTask(s, t) ==
    EndAttempt(ReleaseOwnTaskLeases(SetStatus(ReleaseWorkers(s, t), t, "cancelled"), t),
               t, "cancelled")

-----------------------------------------------------------------------------
(* The passing of time *)

Older(age, limit) == IF age < limit THEN age + 1 ELSE age

AgeAssignment(assignment) ==
    IF assignment.status # "assigned" THEN assignment
    ELSE [assignment EXCEPT !.age =
            Older(@, IF workers[assignment.worker].age < @ THEN Stale + 1 ELSE Stale)]

Tick ==
    /\ workers' = [w \in Workers |->
            IF Registered(State, w) THEN [workers[w] EXCEPT !.age = Older(@, Stale)] ELSE workers[w]]
    /\ tasks' = [t \in TaskIds |->
            [tasks[t] EXCEPT !.inputTtl = IF @ = NoExpiry THEN @ ELSE CountDown(@)]]
    /\ assignments' = [t \in TaskIds |-> AgeAssignment(assignments[t])]
    /\ taskAttempts' = [t \in TaskIds |->
            [i \in DOMAIN taskAttempts[t] |->
                [taskAttempts[t][i] EXCEPT !.ttl = CountDown(@)]]]
    /\ leases' = AgeLeases(leases)
    /\ UNCHANGED reviews

-----------------------------------------------------------------------------
(* The handlers of dispatcher-server.ts *)

(* saveRuntimeStateAsync *)
Save(s) ==
    /\ workers' = s.workers /\ tasks' = s.tasks /\ assignments' = s.assignments
    /\ taskAttempts' = s.taskAttempts /\ leases' = s.leases /\ reviews' = s.reviews

(* The bound on attempts, of a state about to be saved. *)
WithinBounds(s) == \A t \in TaskIds : Len(s.taskAttempts[t]) <= AttemptBound

Register(w) ==
    /\ "register" \in Handlers
    /\ Save(Reconcile(RegisterWorker(State, w)))

Heartbeat(w) ==
    /\ "heartbeat" \in Handlers /\ Registered(State, w)
    /\ Save(Reconcile(HeartbeatWorker(State, w)))

Offline(w) ==
    /\ "offline" \in Handlers /\ Registered(State, w)
    /\ Save(MarkWorkerOffline(State, w))

GetAssignedTask ==
    /\ "poll" \in Handlers
    /\ Save(Reconcile(State))

Claim(w) ==
    /\ "claim" \in Handlers /\ Registered(State, w)
    /\ WithinBounds(ClaimAssignedTask(State, w))
    /\ Save(ClaimAssignedTask(State, w))

Start(w, t, i) ==
    /\ "start" \in Handlers /\ Registered(State, w)
    /\ MayBegin(State, w, t, i)
    /\ Save(BeginTask(State, w, t))

Result(w, t, i, outcome) ==
    /\ "result" \in Handlers /\ Registered(State, w)
    /\ MayRecordResult(State, w, t, i)
    /\ Save(RecordResult(State, w, t, outcome))

(* A result that asks for input interrupts the task. *)
ResultAsksForInput(w, t, i, inputTtl) ==
    /\ "ask" \in Handlers /\ Registered(State, w)
    /\ MayRecordResult(State, w, t, i)
    /\ Save(InterruptTask(State, t, inputTtl))

Disable(w) ==
    /\ "disable" \in Handlers /\ Registered(State, w)
    /\ Save(DisableWorker(State, w))

Enable(w) ==
    /\ "enable" \in Handlers /\ Registered(State, w)
    /\ Save(EnableWorker(State, w))

Dispatch(d) ==
    /\ NextTaskId(State) + Len(d) - 1 \in TaskIds
    /\ \A i \in DOMAIN d : FollowUpKnown(State, d[i])
    /\ \E s \in CreateDispatch(State, d) : Save(s)

Redrive(t) ==
    /\ "redrive" \in Handlers /\ NextTaskId(State) \in TaskIds
    /\ CanRedrive(State, t) /\ FreeRounds(State, tasks[t].input.branch) # {}
    /\ \E s \in RedriveTask(State, t) : Save(s)

Decide(t, i, decision, canRedrive) ==
    /\ "review" \in Handlers
    /\ MayDecide(State, t, i)
    /\ Save(DecideReview(State, t, i, decision, canRedrive))

Interrupt(t, inputTtl) ==
    /\ "interrupt" \in Handlers
    /\ MayInterrupt(State, t)
    /\ Save(InterruptTask(State, t, inputTtl))

Resume(t) ==
    /\ "resume" \in Handlers
    /\ MayResume(State, t)
    /\ Save(ResumeTask(State, t))

Cancel(t) ==
    /\ "cancel" \in Handlers
    /\ MayCancel(State, t)
    /\ Save(CancelTask(State, t))

-----------------------------------------------------------------------------
(* The specification *)

(* An empty runtime state; what a task's input is before it exists means    *)
(* nothing.                                                                 *)
NoInput == [repo |-> CHOOSE r \in Repos : TRUE,
            branch |-> <<CHOOSE b \in BranchNames : TRUE, 1>>,
            pool |-> CHOOSE p \in Pools : TRUE, target |-> None, deps |-> {},
            continueFrom |-> NoTask, followUp |-> NoTask, redrive |-> FALSE]

Init ==
    /\ workers = [w \in Workers |-> [status |-> "absent", disabled |-> FALSE, age |-> 0,
                                     currentTask |-> NoTask]]
    /\ tasks = [t \in TaskIds |-> [status |-> "absent", worker |-> None, lastWorker |-> None,
                                   waitingAttempt |-> 0, inputTtl |-> 0, input |-> NoInput]]
    /\ assignments = [t \in TaskIds |-> [worker |-> None, status |-> "pending", age |-> 0,
                                         claimed |-> FALSE]]
    /\ taskAttempts = [t \in TaskIds |-> <<>>]
    /\ leases = [r \in Resources |-> NoLease]
    /\ reviews = [t \in TaskIds |-> [decision |-> "pending", material |-> 0, reviewed |-> 0,
                                     result |-> "none", canRedrive |-> TRUE]]

WorkerRequest(w) ==
    \/ Register(w) \/ Heartbeat(w) \/ Offline(w) \/ Claim(w)
    \/ \E t \in TaskIds : \E i \in DOMAIN taskAttempts[t] :
        \/ Start(w, t, i)
        \/ \E outcome \in {"passed", "recoverable", "unrecoverable"} : Result(w, t, i, outcome)
        \/ \E inputTtl \in {InputTTL, NoExpiry} : ResultAsksForInput(w, t, i, inputTtl)

OperatorRequest ==
    \/ \E w \in Workers : Disable(w) \/ Enable(w)
    \/ \E d \in Dispatches : Dispatch(d)
    \/ \E t \in TaskIds :
        \/ Redrive(t) \/ Resume(t) \/ Cancel(t)
        \/ \E inputTtl \in {InputTTL, NoExpiry} : Interrupt(t, inputTtl)
        \/ \E i \in 1..AttemptBound, decision \in {"merge", "block", "rework"},
              canRedrive \in BOOLEAN : Decide(t, i, decision, canRedrive)

Next ==
    \/ \E w \in Workers : WorkerRequest(w)
    \/ OperatorRequest
    \/ GetAssignedTask
    \/ Tick

Spec == Init /\ [][Next]_vars

(* What the deployment provides beyond safety: time passes, and some worker *)
(* polls again and again.  The dispatcher has no timer of its own: only a   *)
(* request reconciles.                                                      *)
FairSpec == Spec /\ WF_vars(Tick) /\ WF_vars(GetAssignedTask)

-----------------------------------------------------------------------------
(* Type correctness *)

(* Every field of the runtime state has a value of its type, and no task    *)
(* has more attempts than the bound.                                        *)
TypeOK == State \in RuntimeState /\ WithinBounds(State)

-----------------------------------------------------------------------------
(* The records of one task agree *)

(* "Assignment state follows task state" (STATE_MACHINE.md): after every    *)
(* handler the two records of a task name the same worker and the same      *)
(* status, a queued task has no worker and one that is worked on or was     *)
(* delivered has one.  The claim and the start throw where they disagree.   *)
AssignmentFollowsTask ==
    \A t \in TaskIds : Exists(State, t) =>
        LET status == tasks[t].status
        IN /\ assignments[t].worker = tasks[t].worker
           /\ assignments[t].status = IF status \in {"planned", "ready"} THEN "pending" ELSE status
           /\ status \in {"planned", "ready", "waiting_for_input"} => tasks[t].worker = None
           /\ status \in {"assigned", "in_progress", "review", "merged", "failed"}
                => tasks[t].worker # None

(* findActiveTaskAttempt takes the first attempt that has not ended: there  *)
(* is never more than one, the last.  It runs exactly while the task is in  *)
(* progress, by the task's worker; it is parked while the task waits for    *)
(* input, under the number the resumption must present; and a task that is  *)
(* no longer worked on has none.                                            *)
AttemptFollowsTask ==
    \A t \in TaskIds :
        LET status == tasks[t].status
            active == ActiveAttempts(State, t)
            kinds == {taskAttempts[t][i].status : i \in active}
        IN /\ active \subseteq {Len(taskAttempts[t])}
           /\ status = "in_progress" =>
                /\ kinds = {"running"}
                /\ ActiveAttempt(State, t).worker = tasks[t].worker
           /\ status \in {"ready", "assigned"} => kinds \subseteq {"leased", "checkpointed"}
           /\ status = "waiting_for_input" =>
                /\ kinds \subseteq {"checkpointed"}
                /\ tasks[t].waitingAttempt = AttemptNoOrZero(State, t)
           /\ status \in {"absent", "planned", "review", "merged", "blocked", "failed",
                          "cancelled"} => active = {}

(* Worker.currentTaskId is what heartbeats renew, what reconcile requeues   *)
(* and what an offline worker gives up: it always names a task that is      *)
(* assigned to this very worker and not yet delivered.                      *)
CurrentTaskIsOwn ==
    \A w \in Workers : workers[w].currentTask # NoTask =>
        LET task == tasks[workers[w].currentTask]
        IN task.worker = w /\ task.status \in {"assigned", "in_progress"}

(* The review freshness fence: what is merged is what a reviewer read, the  *)
(* delivery of the latest attempt, and that attempt succeeded.              *)
ReviewIsOfLatestAttempt ==
    \A t \in TaskIds : tasks[t].status \in {"review", "merged"} =>
        LET latest == Len(taskAttempts[t])
        IN /\ reviews[t].material = latest
           /\ taskAttempts[t][latest].status = "succeeded"
           /\ tasks[t].status = "merged" =>
                reviews[t].decision = "merge" /\ reviews[t].reviewed = latest

(* Attempts are an audit trail: they are only added, one that has ended     *)
(* never changes again (a late start, result, heartbeat or expiry does not  *)
(* reach it), and one that runs changes hands only by being parked first.   *)
AttemptHistoryKept ==
    [][\A t \in TaskIds : \A i \in DOMAIN taskAttempts[t] :
        LET before == taskAttempts[t][i]
            after == taskAttempts'[t][i]
        IN /\ i \in DOMAIN taskAttempts'[t]
           /\ Terminal(before) => after = before
           /\ before.status = "running" => after.worker = before.worker]_vars

-----------------------------------------------------------------------------
(* Retries, dependencies, redrives *)

(* Retries end at DEFAULT_MAX_TASK_ATTEMPTS: an attempt that expires as the *)
(* last one allowed, or beyond it because the task was interrupted, resumed *)
(* or reworked in between, fails its task for good; nothing is attempted    *)
(* after it.                                                                *)
RetryBudget ==
    \A t \in TaskIds : \A i \in DOMAIN taskAttempts[t] :
        taskAttempts[t][i].status = "expired" /\ i >= MaxTaskAttempts =>
            tasks[t].status = "failed" /\ i = Len(taskAttempts[t])

(* No task leaves the planned state, save to be cancelled, before all its   *)
(* dependencies are merged, by whichever handler: reconcile, claim,         *)
(* interrupt, resume, redrive.                                              *)
DependenciesMergedFirst ==
    \A t \in TaskIds : tasks[t].status \notin {"absent", "planned", "cancelled"} =>
        \A d \in tasks[t].input.deps : tasks[d].status = "merged"

(* A task is redriven at most once (findExistingManualRedrive), and the     *)
(* branches of a task and of its redrives differ: the old pull request is   *)
(* never overwritten.                                                       *)
RedrivenOnce ==
    \A t, u \in TaskIds : t # u /\ tasks[t].input.redrive =>
        /\ tasks[u].input.redrive => tasks[t].input.continueFrom # tasks[u].input.continueFrom
        /\ Exists(State, u) => tasks[t].input.branch # tasks[u].input.branch

-----------------------------------------------------------------------------
(* Recovery *)

InProgressOf(w, t) == tasks[t].status = "in_progress" /\ tasks[t].worker = w

UnclaimedBy(w, t) ==
    tasks[t].status = "assigned" /\ tasks[t].worker = w /\ ~assignments[t].claimed

(* A task does not stay in progress with a worker that is never heard of    *)
(* again, whatever the worker's last status was: its attempt expires and    *)
(* the task is retried or fails (attempt_lease_expired).                    *)
RunningTaskIsHeardOf ==
    \A w \in Workers, t \in TaskIds :
        <>[]InProgressOf(w, t) => []<>(workers[w].age = 0)

(* Nor does a task that was assigned and not claimed: it is requeued.  (One *)
(* that was claimed and not started does stay: reconcile only looks at      *)
(* unclaimed assignments and at running attempts.)                          *)
UnclaimedTaskIsHeardOf ==
    \A w \in Workers, t \in TaskIds :
        <>[]UnclaimedBy(w, t) => []<>(workers[w].age = 0)

-----------------------------------------------------------------------------
(* Exclusion *)

(* A task is being worked on: the dispatcher would take its result now.     *)
WorkedOn(t) ==
    /\ tasks[t].status = "in_progress"
    /\ ActiveAttempt(State, t).ttl > 0
    /\ HeldBy(leases, <<"assignment", t>>, tasks[t].worker)

(* "The repo lease constrains the concurrent occupation of one repo by      *)
(* dispatcher tasks" (runtime-state-query-v1.md): two tasks being worked on *)
(* in one repository are never two workers'.                                *)
RepoIsExclusive ==
    \A t, u \in TaskIds :
        /\ t # u /\ WorkedOn(t) /\ WorkedOn(u)
        /\ tasks[t].input.repo = tasks[u].input.repo
        => tasks[t].worker = tasks[u].worker

(* A worker that works on a task holds every lease of the task: assignment, *)
(* repo, branch and session.                                                *)
WorkHoldsLeases == \A t \in TaskIds : WorkedOn(t) => HoldsTaskLeases(State, t, tasks[t].worker)

(* A worker works on one task at a time, its currentTaskId.                 *)
OneTaskPerWorker ==
    \A t \in TaskIds : WorkedOn(t) => workers[tasks[t].worker].currentTask = t

(* Attempt and leases are renewed together (STATE_MACHINE.md): none of the  *)
(* leases a running attempt's worker holds ends before the attempt does.    *)
LeasesOutlastAttempt ==
    \A t \in TaskIds : WorkedOn(t) =>
        \A r \in ResourcesOf(State, t) :
            HeldBy(leases, r, tasks[t].worker) => leases[r].ttl >= ActiveAttempt(State, t).ttl

-----------------------------------------------------------------------------
(* Requests that take leases from work that goes on *)

(* The worker has claimed the task and has not delivered it. *)
HasClaimed(w, t) ==
    /\ tasks[t].worker = w /\ tasks[t].status \in {"assigned", "in_progress"}
    /\ HasActiveAttempt(State, t)

(* enableWorker calls a worker idle that keeps its current task. *)
EnabledAtWork == \E w \in Workers : workers[w].currentTask # NoTask /\ Enable(w)

(* markWorkerOffline releases the leases of the current task, which the     *)
(* worker keeps.                                                            *)
OfflineAtWork == \E w \in Workers, t \in TaskIds : HasClaimed(w, t) /\ Offline(w)

(* What an operator decides about a task releases its leases. *)
ReleasesTask(t) ==
    \/ Cancel(t)
    \/ \E inputTtl \in {InputTTL, NoExpiry} : Interrupt(t, inputTtl)
    \/ \E i \in 1..AttemptBound, decision \in {"merge", "block", "rework"},
          canRedrive \in BOOLEAN : Decide(t, i, decision, canRedrive)

(* They are those of the task's last worker, the repo lease among them: it  *)
(* may work on another task of the repository by now.                       *)
ReleasedAtWork ==
    \E t \in TaskIds : \E u \in TaskIds \ {t} :
        /\ HasClaimed(tasks[t].worker, u) /\ tasks[t].input.repo = tasks[u].input.repo
        /\ ReleasesTask(t)

ReleasesUnderWork == EnabledAtWork \/ OfflineAtWork \/ ReleasedAtWork

(* The behaviours in which none of them comes at such a moment.  Every      *)
(* handler may be called, and each of the above at any other moment.        *)
CarefulSpec == Init /\ [][Next /\ ~ReleasesUnderWork]_vars
=============================================================================
