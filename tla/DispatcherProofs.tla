-------------------------- MODULE DispatcherProofs --------------------------
(***************************************************************************)
(* For every number of workers and tasks, every dispatch and every         *)
(* timeout: the runtime state has its type, the two records of a task      *)
(* agree, no task overtakes its dependencies, and none is redriven twice.  *)
(*                                                                         *)
(* The model is a set of functions from runtime states to runtime states,  *)
(* as the code is, and the proof follows it: one lemma per function says   *)
(* that it takes a runtime state within bounds to another, and an action   *)
(* saves what its functions return.                                        *)
(*                                                                         *)
(* The second half has one lemma per function again.  It says that the     *)
(* records still agree after the function (Follows), and how far the       *)
(* function may move a task (Advances): from final states not at all, out  *)
(* of the planned state only to be cancelled or past merged dependencies.  *)
(* Advances is transitive, so that what reconcile does is what its four    *)
(* parts do.                                                               *)
(***************************************************************************)
EXTENDS Dispatcher, FiniteSetTheorems, SequenceTheorems, WellFoundedInduction, TLAPS

(* What every function keeps: TypeOK of the state it is given. *)
Sound(s) == s \in RuntimeState /\ WithinBounds(s)

-----------------------------------------------------------------------------
(* Constants *)

(* The numbers of the model are natural numbers. *)
LEMMA ConstantTypes ==
    /\ LeaseTTL \in Nat /\ MaxTasks \in Nat /\ AttemptBound \in Nat /\ InputTTL \in Nat
    /\ Stale \in Nat /\ NoExpiry \in Nat
    /\ TaskIds \subseteq Nat /\ NoTask \notin TaskIds
    /\ NoExpiry \in 0..NoExpiry /\ InputTTL \in 0..NoExpiry
    /\ LeaseTTL \in 0..LeaseTTL /\ 0 \in 0..LeaseTTL
    /\ 0 \in 0..AttemptBound /\ 0 \in 0..NoExpiry /\ 0 \in 0..Stale /\ 0 \in 0..(Stale + 1)
BY LeasesAssumption, DispatcherAssumption DEF Stale, NoExpiry, TaskIds, NoTask

(* A set of natural numbers that is not empty has a first one. *)
LEMMA FirstIsLeast ==
    ASSUME NEW T \in SUBSET Nat, T # {}
    PROVE  FirstOf(T) \in T /\ \A u \in T : FirstOf(T) <= u
<1> DEFINE Less == {pair \in Nat \X Nat : pair[1] < pair[2]}
<1>1. IsWellFoundedOn(Less, Nat) BY NatLessThanWellFounded DEF OpToRel
<1> HIDE DEF Less
<1>2. PICK x \in T : \A y \in T : ~(<<y, x>> \in Less) BY <1>1, WFMin
<1>3. ASSUME NEW y \in T PROVE x <= y
  <2>1. <<y, x>> \in Nat \X Nat /\ <<y, x>>[1] = y /\ <<y, x>>[2] = x OBVIOUS
  <2>2. y < x => <<y, x>> \in Less BY <2>1, Zenon DEF Less
  <2> QED BY <1>2, <2>2
<1> QED BY <1>3 DEF FirstOf

-----------------------------------------------------------------------------
(* Task attempts *)

(* The active attempt of a task is one of its attempts. *)
LEMMA ActiveAttemptType ==
    ASSUME NEW s, s \in RuntimeState, NEW t \in TaskIds, HasActiveAttempt(s, t)
    PROVE  ActiveNo(s, t) \in 1..Len(s.taskAttempts[t]) /\ ActiveAttempt(s, t) \in Attempt
<1>1. s.taskAttempts[t] \in Seq(Attempt) BY DEF RuntimeState
<1>2. ActiveAttempts(s, t) \in SUBSET Nat BY <1>1 DEF ActiveAttempts
<1>3. ActiveNo(s, t) = FirstOf(ActiveAttempts(s, t)) BY DEF ActiveNo, FirstOf
<1>4. ActiveNo(s, t) \in ActiveAttempts(s, t) BY <1>2, <1>3, FirstIsLeast DEF HasActiveAttempt
<1>5. ActiveNo(s, t) \in 1..Len(s.taskAttempts[t]) BY <1>1, <1>4 DEF ActiveAttempts
<1> QED BY <1>1, <1>5 DEF ActiveAttempt

(* Its number fits where attempts are referred to. *)
LEMMA ActiveNoBound ==
    ASSUME NEW s, Sound(s), NEW t \in TaskIds
    PROVE  AttemptNoOrZero(s, t) \in 0..AttemptBound
<1>1. CASE HasActiveAttempt(s, t)
  <2>1. ActiveNo(s, t) \in 1..Len(s.taskAttempts[t]) BY <1>1, ActiveAttemptType DEF Sound
  <2>2. s.taskAttempts[t] \in Seq(Attempt) BY DEF Sound, RuntimeState
  <2>3. Len(s.taskAttempts[t]) <= AttemptBound BY DEF Sound, WithinBounds
  <2> QED BY <1>1, <2>1, <2>2, <2>3, ConstantTypes DEF AttemptNoOrZero
<1>2. CASE ~HasActiveAttempt(s, t) BY <1>2, ConstantTypes DEF AttemptNoOrZero
<1> QED BY <1>1, <1>2

(* Only the attempts of a state matter to which one is active. *)
LEMMA SameAttempts ==
    ASSUME NEW s, NEW u, NEW t, s.taskAttempts[t] = u.taskAttempts[t]
    PROVE  /\ HasActiveAttempt(s, t) = HasActiveAttempt(u, t)
           /\ ActiveAttempt(s, t) = ActiveAttempt(u, t)
           /\ ActiveNo(s, t) = ActiveNo(u, t)
BY DEF HasActiveAttempt, ActiveAttempt, ActiveNo, ActiveAttempts

(* Writing the active attempt keeps the history of the task as long as it is. *)
LEMMA WithActiveAttemptSound ==
    ASSUME NEW s, Sound(s), NEW t \in TaskIds, NEW attempt,
           HasActiveAttempt(s, t) => attempt \in Attempt
    PROVE  Sound(WithActiveAttempt(s, t, attempt))
<1>1. CASE HasActiveAttempt(s, t)
  <2> DEFINE i == ActiveNo(s, t)
             seq == s.taskAttempts[t]
             new == [seq EXCEPT ![i] = attempt]
             u == [s EXCEPT !.taskAttempts[t][i] = attempt]
  <2>1. i \in 1..Len(seq) BY <1>1, ActiveAttemptType DEF Sound
  <2>2. seq \in Seq(Attempt) /\ s.taskAttempts \in [TaskIds -> Seq(Attempt)]
    BY DEF Sound, RuntimeState
  <2>3. new \in Seq(Attempt) /\ Len(new) = Len(seq) BY <1>1, <2>1, <2>2
  <2>4. u = [s EXCEPT !.taskAttempts = [s.taskAttempts EXCEPT ![t] = new]] OBVIOUS
  <2> HIDE DEF i, new, seq
  <2>5. u \in RuntimeState BY <2>2, <2>3, <2>4 DEF Sound, RuntimeState
  <2>6. \A v \in TaskIds : Len(u.taskAttempts[v]) = Len(s.taskAttempts[v])
    BY <2>2, <2>3, <2>4 DEF Sound, RuntimeState, seq
  <2>7. WithActiveAttempt(s, t, attempt) = u BY <1>1 DEF WithActiveAttempt, i
  <2> QED BY <2>5, <2>6, <2>7 DEF Sound, WithinBounds
<1>2. CASE ~HasActiveAttempt(s, t) BY <1>2 DEF WithActiveAttempt
<1> QED BY <1>1, <1>2

(* Ending the active attempt, where there is one, is such a write. *)
LEMMA EndAttemptSound ==
    ASSUME NEW s, Sound(s), NEW t \in TaskIds, NEW status \in {"succeeded", "failed", "cancelled"}
    PROVE  Sound(EndAttempt(s, t, status))
<1>1. HasActiveAttempt(s, t) =>
        [ActiveAttempt(s, t) EXCEPT !.status = status, !.ttl = 0] \in Attempt
  BY ActiveAttemptType, ConstantTypes DEF Sound, Attempt
<1> QED BY <1>1, WithActiveAttemptSound DEF EndAttempt

(* A claim may need one attempt more: the bound is a guard of the claim. *)
LEMMA CreateOrReuseTaskAttemptType ==
    ASSUME NEW s, Sound(s), NEW t \in TaskIds, NEW w \in Workers
    PROVE  CreateOrReuseTaskAttempt(s, t, w) \in RuntimeState
<1>1. CASE HasActiveAttempt(s, t)
  <2>1. [worker |-> w,
         status |-> IF ActiveAttempt(s, t).status = "checkpointed"
                    THEN "leased" ELSE ActiveAttempt(s, t).status,
         ttl |-> LeaseTTL] \in Attempt
    BY <1>1, ActiveAttemptType, ConstantTypes DEF Sound, Attempt
  <2> QED BY <1>1, <2>1, WithActiveAttemptSound DEF CreateOrReuseTaskAttempt, Sound
<1>2. CASE ~HasActiveAttempt(s, t)
  <2> DEFINE new == Append(s.taskAttempts[t], [worker |-> w, status |-> "leased", ttl |-> LeaseTTL])
  <2>1. [worker |-> w, status |-> "leased", ttl |-> LeaseTTL] \in Attempt
    BY ConstantTypes DEF Attempt
  <2>2. s.taskAttempts \in [TaskIds -> Seq(Attempt)] BY DEF Sound, RuntimeState
  <2>3. new \in Seq(Attempt) BY <2>1, <2>2
  <2>4. CreateOrReuseTaskAttempt(s, t, w) = [s EXCEPT !.taskAttempts[t] = new]
    BY <1>2 DEF CreateOrReuseTaskAttempt
  <2> HIDE DEF new
  <2> QED BY <2>3, <2>4 DEF Sound, RuntimeState
<1> QED BY <1>1, <1>2

-----------------------------------------------------------------------------
(* Leases *)

(* The functions of leases.ts keep a lease table a lease table. *)
LEMMA LeaseTableType ==
    ASSUME NEW table \in [Resources -> Lease], NEW R, NEW w \in Workers
    PROVE  /\ Acquire(table, R, w) \in [Resources -> Lease]
           /\ Release(table, R, w) \in [Resources -> Lease]
           /\ ReclaimExpiredLeases(table) \in [Resources -> Lease]
           /\ AgeLeases(table) \in [Resources -> Lease]
<1>1. NoLease \in Lease /\ GrantedTo(w) \in Lease
  BY ConstantTypes DEF NoLease, GrantedTo, Lease
<1>2. \A r \in Resources : [table[r] EXCEPT !.ttl = CountDown(@)] \in Lease
  BY ConstantTypes DEF Lease, CountDown
<1> QED BY <1>1, <1>2 DEF Acquire, Release, ReclaimExpiredLeases, AgeLeases

(* A new lease table changes nothing else. *)
LEMMA LeasesSound ==
    ASSUME NEW s, Sound(s), NEW table \in [Resources -> Lease]
    PROVE  Sound([s EXCEPT !.leases = table])
BY DEF Sound, RuntimeState, WithinBounds

(* Acquiring and releasing the leases of a task leave a lease table. *)
LEMMA TaskLeasesSound ==
    ASSUME NEW s, Sound(s), NEW t \in TaskIds, NEW w \in Workers
    PROVE  Sound(AcquireTaskLeases(s, t, w)) /\ Sound(ReleaseTaskLeases(s, t, w))
<1> DEFINE R == {r \in ResourcesOf(s, t) :
                    \A c \in LeaseConflicts(s, t, w) :
                        AcquisitionOrder[r[1]] < AcquisitionOrder[c[1]]}
<1>1. s.leases \in [Resources -> Lease] BY DEF Sound, RuntimeState
<1>2. Sound(ReleaseTaskLeases(s, t, w))
  BY <1>1, LeaseTableType, LeasesSound DEF ReleaseTaskLeases
<1>3. AcquireTaskLeases(s, t, w) = [s EXCEPT !.leases = Acquire(s.leases, R, w)]
  BY DEF AcquireTaskLeases
<1> HIDE DEF R
<1> QED BY <1>1, <1>2, <1>3, LeaseTableType, LeasesSound

(* So does releasing them for the worker the task is assigned to. *)
LEMMA ReleaseOwnTaskLeasesSound ==
    ASSUME NEW s, Sound(s), NEW t \in TaskIds
    PROVE  Sound(ReleaseOwnTaskLeases(s, t))
<1>1. s.tasks[t].worker \in Workers \cup {None} BY DEF Sound, RuntimeState, Task
<1> QED BY <1>1, TaskLeasesSound DEF ReleaseOwnTaskLeases

-----------------------------------------------------------------------------
(* Workers and assignments *)

(* What a function writes to the record of a worker is a worker. *)
LEMMA WorkerType ==
    ASSUME NEW x \in Worker, NEW t \in TaskIds
    PROVE  /\ Busy(x, t) \in Worker /\ Freed(x) \in Worker
           /\ \A disabled \in BOOLEAN :
                [x EXCEPT !.status = IF disabled THEN "disabled" ELSE "idle",
                          !.currentTask = NoTask, !.age = 0] \in Worker
BY ConstantTypes DEF Worker, Busy, Freed

(* A state stays sound when all its worker records are replaced by others. *)
LEMMA WorkersSound ==
    ASSUME NEW s, Sound(s), NEW table \in [Workers -> Worker]
    PROVE  Sound([s EXCEPT !.workers = table])
BY DEF Sound, RuntimeState, WithinBounds

(* Likewise when one record is. *)
LEMMA WorkerSound ==
    ASSUME NEW s, Sound(s), NEW w \in Workers, NEW x \in Worker
    PROVE  Sound([s EXCEPT !.workers[w] = x])
BY DEF Sound, RuntimeState, WithinBounds

(* Releasing the workers of a task leaves worker records. *)
LEMMA ReleaseWorkersSound ==
    ASSUME NEW s, Sound(s), NEW t \in TaskIds
    PROVE  Sound(ReleaseWorkers(s, t))
<1> DEFINE table == [w \in Workers |->
        IF s.workers[w].currentTask = t
        THEN [s.workers[w] EXCEPT !.status = IF s.workers[w].disabled THEN "disabled" ELSE "idle",
                                  !.currentTask = NoTask, !.age = 0]
        ELSE s.workers[w]]
<1>1. \A w \in Workers : s.workers[w] \in Worker /\ s.workers[w].disabled \in BOOLEAN
  BY DEF Sound, RuntimeState, Worker
<1>2. table \in [Workers -> Worker] BY <1>1, WorkerType
<1>3. ReleaseWorkers(s, t) = [s EXCEPT !.workers = table] BY DEF ReleaseWorkers
<1> HIDE DEF table
<1> QED BY <1>2, <1>3, WorkersSound

(* What an assignment becomes in the queue is an assignment. *)
LEMMA UnassignedType ==
    ASSUME NEW assignment \in Assignment
    PROVE  Unassigned(assignment) \in Assignment
BY ConstantTypes DEF Assignment, Unassigned

(* What an assignment becomes when it is given to a worker is one too. *)
LEMMA AssignedToType ==
    ASSUME NEW w \in Workers
    PROVE  AssignedTo(w) \in Assignment
BY ConstantTypes DEF Assignment, AssignedTo

(* Task and assignment may take any status that both of them have. *)
LEMMA SetStatusSound ==
    ASSUME NEW s, Sound(s), NEW t \in TaskIds,
           NEW status \in {"in_progress", "review", "merged", "blocked", "failed",
                           "cancelled", "waiting_for_input"}
    PROVE  Sound(SetStatus(s, t, status))
<1> DEFINE table == [s.tasks EXCEPT ![t] = [s.tasks[t] EXCEPT !.status = status]]
           records == [s.assignments EXCEPT ![t] =
                          [s.assignments[t] EXCEPT !.status = status, !.age = 0]]
<1>1. s.tasks \in [TaskIds -> Task] /\ s.assignments \in [TaskIds -> Assignment]
  BY DEF Sound, RuntimeState
<1>2. [s.tasks[t] EXCEPT !.status = status] \in Task BY <1>1 DEF Task
<1>3. [s.assignments[t] EXCEPT !.status = status, !.age = 0] \in Assignment
  BY <1>1, ConstantTypes DEF Assignment
<1>4. table \in [TaskIds -> Task] BY <1>1, <1>2
<1>5. records \in [TaskIds -> Assignment] BY <1>1, <1>3
<1>6. SetStatus(s, t, status) = [s EXCEPT !.tasks = table, !.assignments = records]
  BY <1>1 DEF SetStatus, Sound, RuntimeState
<1> HIDE DEF table, records
<1> QED BY <1>4, <1>5, <1>6 DEF Sound, RuntimeState, WithinBounds

(* Requeueing writes tasks and assignments of the right type. *)
LEMMA RequeueTasksSound ==
    ASSUME NEW s, Sound(s), NEW T
    PROVE  Sound(RequeueTasks(s, T))
<1> DEFINE table == [t \in TaskIds |->
        IF t \in T THEN [s.tasks[t] EXCEPT !.status = "ready", !.worker = None,
                                           !.lastWorker = s.tasks[t].worker]
        ELSE s.tasks[t]]
           records == [t \in TaskIds |->
        IF t \in T THEN Unassigned(s.assignments[t]) ELSE s.assignments[t]]
<1>1. s.tasks \in [TaskIds -> Task] /\ s.assignments \in [TaskIds -> Assignment]
  BY DEF Sound, RuntimeState
<1>2. table \in [TaskIds -> Task] BY <1>1 DEF Task
<1>3. records \in [TaskIds -> Assignment] BY <1>1, UnassignedType
<1>4. RequeueTasks(s, T) = [s EXCEPT !.tasks = table, !.assignments = records]
  BY DEF RequeueTasks
<1> HIDE DEF table, records
<1> QED BY <1>2, <1>3, <1>4 DEF Sound, RuntimeState, WithinBounds

-----------------------------------------------------------------------------
(* reconcileRuntimeState *)

(* An attempt that expires stays an attempt. *)
LEMMA ExpiredAttemptType ==
    ASSUME NEW s, Sound(s), NEW t \in TaskIds, HasActiveAttempt(s, t)
    PROVE  LET seq == s.taskAttempts[t]
               new == [seq EXCEPT ![ActiveNo(s, t)].status = "expired", ![ActiveNo(s, t)].ttl = 0]
           IN new \in Seq(Attempt) /\ Len(new) = Len(seq)
<1> DEFINE seq == s.taskAttempts[t]
           i == ActiveNo(s, t)
           attempt == [seq[i] EXCEPT !.status = "expired", !.ttl = 0]
           new == [seq EXCEPT ![i].status = "expired", ![i].ttl = 0]
<1>1. seq \in Seq(Attempt) BY DEF Sound, RuntimeState
<1>2. i \in 1..Len(seq) BY ActiveAttemptType DEF Sound
<1>3. attempt \in Attempt
  <2>1. seq[i] \in Attempt BY <1>1, <1>2
  <2> HIDE DEF seq, i
  <2> QED BY <2>1, ConstantTypes DEF Attempt
<1>4. new = [seq EXCEPT ![i] = attempt] BY <1>1, <1>2
<1> HIDE DEF attempt, i, seq
<1>5. [seq EXCEPT ![i] = attempt] \in Seq(Attempt) /\ Len([seq EXCEPT ![i] = attempt]) = Len(seq)
  BY <1>1, <1>2, <1>3
<1> QED BY <1>4, <1>5 DEF i, seq

(* Ending expired attempts keeps every history within its bound. *)
LEMMA EndExpiredAttemptsSound ==
    ASSUME NEW s, Sound(s)
    PROVE  Sound(EndExpiredAttempts(s))
<1> DEFINE expired == ExpiredRunning(s)
           failed == {t \in expired : ~MayRetry(s, t)}
           lost(r) == \E t \in expired : /\ r \in ResourcesOf(s, t)
                                         /\ s.leases[r].owner = s.tasks[t].worker
           attempts == [t \in TaskIds |->
                IF t \in expired
                THEN [s.taskAttempts[t] EXCEPT ![ActiveNo(s, t)].status = "expired",
                                               ![ActiveNo(s, t)].ttl = 0]
                ELSE s.taskAttempts[t]]
           table == [r \in DOMAIN s.leases |-> IF lost(r) THEN NoLease ELSE s.leases[r]]
           staff == [w \in Workers |->
                IF \E t \in expired : s.tasks[t].worker = w
                THEN [s.workers[w] EXCEPT !.status = "offline", !.currentTask = NoTask]
                ELSE s.workers[w]]
           jobs == [t \in TaskIds |->
                IF t \in failed THEN [s.tasks[t] EXCEPT !.status = "failed"] ELSE s.tasks[t]]
           records == [t \in TaskIds |->
                IF t \in failed THEN [s.assignments[t] EXCEPT !.status = "failed"]
                ELSE s.assignments[t]]
           ended == [s EXCEPT !.taskAttempts = attempts, !.leases = table, !.workers = staff,
                              !.tasks = jobs, !.assignments = records]
<1>1. s \in RuntimeState /\ WithinBounds(s) BY DEF Sound
<1>2. attempts \in [TaskIds -> Seq(Attempt)]
      /\ \A t \in TaskIds : Len(attempts[t]) = Len(s.taskAttempts[t])
  <2>1. \A t \in expired : t \in TaskIds /\ HasActiveAttempt(s, t) BY DEF ExpiredRunning
  <2>2. \A t \in TaskIds : s.taskAttempts[t] \in Seq(Attempt) BY <1>1 DEF RuntimeState
  <2> HIDE DEF expired
  <2> QED BY <2>1, <2>2, ExpiredAttemptType
<1>3. table \in [Resources -> Lease] BY <1>1, ConstantTypes DEF RuntimeState, NoLease, Lease
<1>4. staff \in [Workers -> Worker]
  <2>1. \A w \in Workers : s.workers[w] \in Worker BY <1>1 DEF RuntimeState
  <2>2. \A w \in Workers :
          [s.workers[w] EXCEPT !.status = "offline", !.currentTask = NoTask] \in Worker
    BY <2>1 DEF Worker
  <2> QED BY <2>1, <2>2
<1>5. jobs \in [TaskIds -> Task]
  <2>1. \A t \in TaskIds : s.tasks[t] \in Task BY <1>1 DEF RuntimeState
  <2>2. \A t \in TaskIds : [s.tasks[t] EXCEPT !.status = "failed"] \in Task
    BY <2>1 DEF Task
  <2> HIDE DEF failed
  <2> QED BY <2>1, <2>2
<1>6. records \in [TaskIds -> Assignment]
  <2>1. \A t \in TaskIds : s.assignments[t] \in Assignment BY <1>1 DEF RuntimeState
  <2>2. \A t \in TaskIds : [s.assignments[t] EXCEPT !.status = "failed"] \in Assignment
    BY <2>1 DEF Assignment
  <2> HIDE DEF failed
  <2> QED BY <2>1, <2>2
<1>7. EndExpiredAttempts(s) = ended BY DEF EndExpiredAttempts
<1> HIDE DEF attempts, table, staff, jobs, records
<1>8. ended \in RuntimeState BY <1>1, <1>2, <1>3, <1>4, <1>5, <1>6 DEF RuntimeState
<1>9. \A t \in TaskIds : Len(ended.taskAttempts[t]) = Len(s.taskAttempts[t])
  BY <1>1, <1>2 DEF RuntimeState
<1> QED BY <1>1, <1>7, <1>8, <1>9 DEF Sound, WithinBounds

(* Taking lost workers offline leaves worker records and a lease table. *)
LEMMA GoOfflineSound ==
    ASSUME NEW s, Sound(s)
    PROVE  Sound(GoOffline(s))
<1> DEFINE lost == LostWorkers(s)
           gone == {w \in Workers : Registered(s, w)
                                    /\ (ResolvedStatus(s, w) = "offline" \/ w \in lost)}
           freed(r) == \E w \in lost : /\ r \in ResourcesOf(s, s.workers[w].currentTask)
                                       /\ s.leases[r].owner = w
           table == [r \in DOMAIN s.leases |-> IF freed(r) THEN NoLease ELSE s.leases[r]]
           staff == [w \in Workers |->
                IF w \in gone
                THEN [s.workers[w] EXCEPT
                        !.status = "offline",
                        !.currentTask = IF w \in lost THEN NoTask ELSE s.workers[w].currentTask]
                ELSE s.workers[w]]
<1>1. s \in RuntimeState /\ WithinBounds(s) BY DEF Sound
<1>2. table \in [Resources -> Lease] BY <1>1, ConstantTypes DEF RuntimeState, NoLease, Lease
<1>3. staff \in [Workers -> Worker]
  <2>1. \A w \in Workers : s.workers[w] \in Worker BY <1>1 DEF RuntimeState
  <2>2. \A w \in Workers : \A t \in {NoTask, s.workers[w].currentTask} :
          [s.workers[w] EXCEPT !.status = "offline", !.currentTask = t] \in Worker
    BY <2>1 DEF Worker
  <2> HIDE DEF lost, gone
  <2> QED BY <2>1, <2>2
<1>4. GoOffline(s) = [s EXCEPT !.leases = table, !.workers = staff] BY DEF GoOffline
<1> HIDE DEF table, staff
<1> QED BY <1>1, <1>2, <1>3, <1>4 DEF Sound, RuntimeState, WithinBounds

(* Unlocking planned tasks writes tasks and assignments of the right type. *)
LEMMA UnlockPlannedSound ==
    ASSUME NEW s, Sound(s)
    PROVE  Sound(UnlockPlanned(s))
<1> DEFINE unlocked == {t \in TaskIds : /\ s.tasks[t].status = "planned"
                                        /\ s.tasks[t].input.deps # {}
                                        /\ Merged(s, s.tasks[t].input.deps)}
           jobs == [t \in TaskIds |->
                IF t \in unlocked THEN [s.tasks[t] EXCEPT !.status = "ready", !.worker = None]
                ELSE s.tasks[t]]
           records == [t \in TaskIds |->
                IF t \in unlocked THEN Unassigned(s.assignments[t]) ELSE s.assignments[t]]
<1>1. s.tasks \in [TaskIds -> Task] /\ s.assignments \in [TaskIds -> Assignment]
  BY DEF Sound, RuntimeState
<1>2. jobs \in [TaskIds -> Task] BY <1>1 DEF Task
<1>3. records \in [TaskIds -> Assignment] BY <1>1, UnassignedType
<1>4. UnlockPlanned(s) = [s EXCEPT !.tasks = jobs, !.assignments = records] BY DEF UnlockPlanned
<1> HIDE DEF jobs, records
<1> QED BY <1>2, <1>3, <1>4 DEF Sound, RuntimeState, WithinBounds

(* Reclaiming expired leases leaves a lease table. *)
LEMMA ReclaimLeasesSound ==
    ASSUME NEW s, Sound(s)
    PROVE  Sound(ReclaimLeases(s))
<1>1. s.leases \in [Resources -> Lease] BY DEF Sound, RuntimeState
<1>2. ReclaimExpiredLeases(s.leases) \in [Resources -> Lease]
  BY <1>1, ConstantTypes DEF ReclaimExpiredLeases, NoLease, Lease
<1> QED BY <1>2, LeasesSound DEF ReclaimLeases

(* reconcileRuntimeState is its four parts, each of which is sound. *)
LEMMA ReconcileSound ==
    ASSUME NEW s, Sound(s)
    PROVE  Sound(Reconcile(s))
BY ReclaimLeasesSound, EndExpiredAttemptsSound, GoOfflineSound, RequeueTasksSound, UnlockPlannedSound
DEF Reconcile, ReconcileExpiredAttempts, ReconcileWorkers

-----------------------------------------------------------------------------
(* Worker lifecycle *)

(* registerWorker leaves a record of a registered worker. *)
LEMMA RegisterWorkerSound ==
    ASSUME NEW s, Sound(s), NEW w \in Workers
    PROVE  Sound(RegisterWorker(s, w))
<1>1. s.workers[w] \in Worker BY DEF Sound, RuntimeState
<1>2. [status |-> IF s.workers[w].status = "absent" THEN "idle" ELSE s.workers[w].status,
       disabled |-> FALSE, age |-> 0, currentTask |-> s.workers[w].currentTask] \in Worker
  BY <1>1, ConstantTypes DEF Worker
<1> QED BY <1>2, WorkerSound DEF RegisterWorker

(* heartbeatWorker does, and renews an attempt or none. *)
LEMMA HeartbeatWorkerSound ==
    ASSUME NEW s, Sound(s), NEW w \in Workers
    PROVE  Sound(HeartbeatWorker(s, w))
<1> DEFINE x == [s.workers[w] EXCEPT
                    !.age = 0,
                    !.status = IF s.workers[w].currentTask # NoTask THEN "busy"
                               ELSE IF s.workers[w].status = "offline" THEN "idle"
                               ELSE s.workers[w].status]
           beat == [s EXCEPT !.workers[w] = x]
           t == s.workers[w].currentTask
<1>1. s.workers \in [Workers -> Worker] BY DEF Sound, RuntimeState
<1>2. x \in Worker BY <1>1, ConstantTypes DEF Worker
<1>3. Sound(beat) BY <1>2, WorkerSound
<1>4. beat.workers[w].currentTask = t /\ t \in TaskIds \cup {NoTask}
  BY <1>1 DEF Sound, RuntimeState, Worker
<1>5. HeartbeatWorker(s, w) = IF RenewsTask(beat, w) THEN Renew(beat, t, w) ELSE beat
  BY <1>4 DEF HeartbeatWorker
<1>6. ASSUME RenewsTask(beat, w) PROVE t \in TaskIds /\ HasActiveAttempt(beat, t)
  BY <1>4, <1>6 DEF RenewsTask
<1> HIDE DEF x, beat, t
<1>7. ASSUME t \in TaskIds, HasActiveAttempt(beat, t) PROVE Sound(Renew(beat, t, w))
  <2> DEFINE renewed == [beat EXCEPT !.leases = Acquire(beat.leases, ResourcesOf(beat, t), w)]
             attempt == [ActiveAttempt(beat, t) EXCEPT !.ttl = LeaseTTL]
  <2>1. beat.leases \in [Resources -> Lease] BY <1>3 DEF Sound, RuntimeState
  <2>2. Sound(renewed) BY <1>3, <2>1, LeaseTableType, LeasesSound
  <2>3. attempt \in Attempt BY <1>3, <1>7, ActiveAttemptType, ConstantTypes DEF Sound, Attempt
  <2> HIDE DEF attempt
  <2>4. Sound(WithActiveAttempt(renewed, t, attempt))
    BY <1>7, <2>2, <2>3, WithActiveAttemptSound
  <2> QED BY <2>4 DEF Renew, attempt
<1> QED BY <1>3, <1>5, <1>6, <1>7

(* markWorkerOffline releases leases and writes one record. *)
LEMMA MarkWorkerOfflineSound ==
    ASSUME NEW s, Sound(s), NEW w \in Workers
    PROVE  Sound(MarkWorkerOffline(s, w))
<1> DEFINE t == s.workers[w].currentTask
           released == IF t = NoTask THEN s ELSE ReleaseTaskLeases(s, t, w)
           x == [released.workers[w] EXCEPT !.status = "offline", !.age = 0]
<1>1. t \in TaskIds \cup {NoTask} BY DEF Sound, RuntimeState, Worker
<1>2. Sound(released) BY <1>1, TaskLeasesSound
<1>3. MarkWorkerOffline(s, w) = [released EXCEPT !.workers[w] = x] BY DEF MarkWorkerOffline
<1> HIDE DEF released
<1>4. released.workers[w] \in Worker BY <1>2 DEF Sound, RuntimeState
<1>5. x \in Worker BY <1>4, ConstantTypes DEF Worker
<1> HIDE DEF x
<1> QED BY <1>2, <1>3, <1>5, WorkerSound

(* disableWorker and enableWorker write one record. *)
LEMMA DisableWorkerSound ==
    ASSUME NEW s, Sound(s), NEW w \in Workers
    PROVE  Sound(DisableWorker(s, w)) /\ Sound(EnableWorker(s, w))
<1>1. s.workers[w] \in Worker BY DEF Sound, RuntimeState
<1>2. [s.workers[w] EXCEPT !.status = "disabled", !.disabled = TRUE] \in Worker
  BY <1>1 DEF Worker
<1>3. [s.workers[w] EXCEPT !.status = "idle", !.disabled = FALSE, !.age = 0] \in Worker
  BY <1>1, ConstantTypes DEF Worker
<1> QED BY <1>2, <1>3, WorkerSound DEF DisableWorker, EnableWorker

-----------------------------------------------------------------------------
(* Dispatch and redrive *)

(* The worker a dispatch is meant for is a worker or none. *)
LEMMA SourceWorkerType ==
    ASSUME NEW s, Sound(s), NEW t \in TaskIds
    PROVE  SourceWorker(s, t) \in Workers \cup {None}
<1>1. s.tasks[t] \in Task /\ s.assignments[t] \in Assignment BY DEF Sound, RuntimeState
<1>2. s.tasks[t].lastWorker \in Workers \cup {None} /\ s.tasks[t].worker \in Workers \cup {None}
      /\ s.assignments[t].worker \in Workers \cup {None} /\ s.tasks[t].input \in TaskInput
  BY <1>1 DEF Task, Assignment
<1>3. s.tasks[t].input.target \in Workers \cup {None} BY <1>2 DEF TaskInput
<1> QED BY <1>2, <1>3 DEF SourceWorker

(* A dispatch names a worker as its target, or nobody. *)
LEMMA TargetOfType ==
    ASSUME NEW s, Sound(s), NEW input \in TaskInput
    PROVE  TargetOf(s, input) \in Workers \cup {None}
BY SourceWorkerType DEF TargetOf, TaskInput

(* A task is dispatched to a worker, or to nobody. *)
LEMMA CandidatesType ==
    ASSUME NEW began, NEW s, Sound(s), NEW input \in TaskInput
    PROVE  Candidates(began, s, input) \subseteq Workers \cup {None}
BY TargetOfType DEF Candidates, IdleWorkers

(* A new task, its assignment and its review have their types. *)
LEMMA AddTaskSound ==
    ASSUME NEW s, Sound(s), NEW t \in TaskIds, NEW input \in TaskInput,
           NEW w \in Workers \cup {None}
    PROVE  Sound(AddTask(s, t, input, w))
<1> DEFINE task == [status |-> IF input.deps # {} THEN "planned"
                               ELSE IF w = None THEN "ready" ELSE "assigned",
                    worker |-> w, lastWorker |-> w, waitingAttempt |-> 0, inputTtl |-> 0,
                    input |-> [input EXCEPT !.target = TargetOf(s, input)]]
           record == IF w = None THEN Unassigned(s.assignments[t]) ELSE AssignedTo(w)
           staff == [v \in Workers |-> IF v = w THEN Busy(s.workers[v], t) ELSE s.workers[v]]
           review == [decision |-> "pending", material |-> 0, reviewed |-> 0,
                      result |-> "none", canRedrive |-> TRUE]
           jobs == [s.tasks EXCEPT ![t] = task]
           records == [s.assignments EXCEPT ![t] = record]
           reviewed == [s.reviews EXCEPT ![t] = review]
<1>1. s \in RuntimeState /\ WithinBounds(s) BY DEF Sound
<1>2. task \in Task
  <2>1. [input EXCEPT !.target = TargetOf(s, input)] \in TaskInput
    BY TargetOfType DEF TaskInput
  <2> QED BY <2>1, ConstantTypes DEF Task
<1>3. record \in Assignment
  <2>1. s.assignments[t] \in Assignment BY <1>1 DEF RuntimeState
  <2> QED BY <2>1, UnassignedType, AssignedToType
<1>4. staff \in [Workers -> Worker]
  <2>1. \A v \in Workers : s.workers[v] \in Worker BY <1>1 DEF RuntimeState
  <2> QED BY <2>1, WorkerType
<1>5. review \in Review BY ConstantTypes DEF Review
<1>6. AddTask(s, t, input, w) =
        [s EXCEPT !.tasks = jobs, !.assignments = records, !.workers = staff,
                  !.reviews = reviewed]
  BY DEF AddTask
<1> HIDE DEF task, record, staff, review
<1>7. jobs \in [TaskIds -> Task] /\ records \in [TaskIds -> Assignment]
      /\ reviewed \in [TaskIds -> Review]
  BY <1>1, <1>2, <1>3, <1>5 DEF RuntimeState
<1> HIDE DEF jobs, records, reviewed
<1> QED BY <1>1, <1>4, <1>6, <1>7 DEF Sound, RuntimeState, WithinBounds

(* Each new task takes the next id, and there is room for it. *)
LEMMA NextTaskIdType ==
    ASSUME NEW s, Sound(s)
    PROVE  /\ NextTaskId(s) \in Nat \ {0}
           /\ \A input \in TaskInput, w \in Workers \cup {None} :
                LET n == NextTaskId(AddTask(s, NextTaskId(s), input, w))
                IN NextTaskId(s) \in TaskIds => n \in Nat \ {0} /\ n <= NextTaskId(s) + 1
<1> DEFINE E(u) == {t \in TaskIds : Exists(u, t)}
<1>1. \A u : IsFiniteSet(E(u)) /\ Cardinality(E(u)) \in Nat
  <2>1. IsFiniteSet(TaskIds) BY ConstantTypes, FS_Interval DEF TaskIds
  <2>2. \A u : E(u) \in SUBSET TaskIds OBVIOUS
  <2> QED BY <2>1, <2>2, FS_Subset, FS_CardinalityType
<1>2. \A u : NextTaskId(u) = 1 + Cardinality(E(u)) BY DEF NextTaskId
<1>3. ASSUME NEW input \in TaskInput, NEW w \in Workers \cup {None}, NextTaskId(s) \in TaskIds
      PROVE  E(AddTask(s, NextTaskId(s), input, w)) = E(s) \cup {NextTaskId(s)}
  <2> DEFINE n == NextTaskId(s)
             u == AddTask(s, n, input, w)
  <2>1. s \in RuntimeState BY DEF Sound
  <2>2. \A t \in TaskIds : u.tasks[t].status =
            IF t = n THEN IF input.deps # {} THEN "planned"
                          ELSE IF w = None THEN "ready" ELSE "assigned"
            ELSE s.tasks[t].status
    BY <2>1, <1>3 DEF AddTask, RuntimeState
  <2> HIDE DEF n, u
  <2>3. \A t \in TaskIds : Exists(u, t) <=> (Exists(s, t) \/ t = n) BY <2>2 DEF Exists
  <2>4. n \in TaskIds BY <1>3 DEF n
  <2> QED BY <2>3, <2>4 DEF u, n
<1>4. \A x : Cardinality(E(s) \cup {x}) <= Cardinality(E(s)) + 1
  BY <1>1, FS_AddElement
<1>5. NextTaskId(s) \in Nat \ {0}
  <2> HIDE DEF E
  <2> QED BY <1>1, <1>2
<1>6. ASSUME NEW input \in TaskInput, NEW w \in Workers \cup {None}, NextTaskId(s) \in TaskIds
      PROVE  LET n == NextTaskId(AddTask(s, NextTaskId(s), input, w))
             IN n \in Nat \ {0} /\ n <= NextTaskId(s) + 1
  <2> DEFINE u == AddTask(s, NextTaskId(s), input, w)
  <2>1. E(u) = E(s) \cup {NextTaskId(s)} BY <1>3, <1>6
  <2> HIDE DEF u, E
  <2>2. Cardinality(E(u)) <= Cardinality(E(s)) + 1 BY <1>4, <2>1
  <2>3. NextTaskId(u) \in Nat \ {0} /\ NextTaskId(u) <= NextTaskId(s) + 1
    BY <1>1, <1>2, <2>2
  <2> QED BY <2>3 DEF u
<1> QED BY <1>5, <1>6

(* So every outcome of a dispatch of one task is sound, and takes one id. *)
LEMMA DispatchTaskSound ==
    ASSUME NEW began, NEW s, Sound(s), NEW input \in TaskInput, NextTaskId(s) \in TaskIds,
           NEW u \in DispatchTask(began, s, input)
    PROVE  Sound(u) /\ NextTaskId(u) \in 1..(NextTaskId(s) + 1)
<1>1. PICK w \in Candidates(began, s, input) : u = AddTask(s, NextTaskId(s), input, w)
  BY DEF DispatchTask
<1>2. w \in Workers \cup {None} BY CandidatesType
<1> QED BY <1>1, <1>2, AddTaskSound, NextTaskIdType

(* And every outcome of createDispatch, whose inputs are one or two. *)
LEMMA CreateDispatchSound ==
    ASSUME NEW s, Sound(s), NEW d \in Dispatches, NextTaskId(s) + Len(d) - 1 \in TaskIds,
           NEW u \in CreateDispatch(s, d)
    PROVE  Sound(u)
<1>1. d \in Seq(TaskInput) /\ Len(d) \in {1, 2} /\ \A i \in 1..Len(d) : d[i] \in TaskInput
  BY DispatcherAssumption, ElementOfSeq
<1>2. NextTaskId(s) \in Nat \ {0} BY NextTaskIdType
<1>3. TaskIds = 1..MaxTasks /\ MaxTasks \in Nat BY ConstantTypes DEF TaskIds
<1>4. NextTaskId(s) \in TaskIds
  <2> DEFINE n == NextTaskId(s)
             k == Len(d)
  <2>1. n \in Nat \ {0} /\ k \in {1, 2} /\ n + k - 1 \in TaskIds BY <1>1, <1>2
  <2> HIDE DEF n, k
  <2>2. n \in TaskIds BY <1>3, <2>1
  <2> QED BY <2>2 DEF n
<1>5. CASE Len(d) = 1
  <2>1. d[1] \in TaskInput BY <1>1, <1>5
  <2>2. u \in DispatchTask(s, s, d[1]) BY <1>5 DEF CreateDispatch
  <2> QED BY <1>4, <2>1, <2>2, DispatchTaskSound
<1>6. CASE Len(d) = 2
  <2>1. d[1] \in TaskInput /\ d[2] \in TaskInput BY <1>1, <1>6
  <2>2. PICK first \in DispatchTask(s, s, d[1]) : u \in DispatchTask(s, first, d[2])
    BY <1>6 DEF CreateDispatch
  <2>3. Sound(first) /\ NextTaskId(first) \in 1..(NextTaskId(s) + 1)
    BY <1>4, <2>1, <2>2, DispatchTaskSound
  <2>4. NextTaskId(first) \in TaskIds BY <1>2, <1>3, <1>6, <2>3
  <2> QED BY <2>1, <2>2, <2>3, <2>4, DispatchTaskSound
<1> QED BY <1>1, <1>5, <1>6

(* What a redrive dispatches: the input of the source, on a free branch. *)
LEMMA RedriveInputType ==
    ASSUME NEW s, Sound(s), NEW t \in TaskIds, FreeRounds(s, s.tasks[t].input.branch) # {}
    PROVE  RedriveInput(s, t) \in TaskInput
<1> DEFINE input == s.tasks[t].input
           branch == NextBranch(s, input.branch)
<1>1. input \in TaskInput BY DEF Sound, RuntimeState, Task
<1>2. branch \in Branches
  <2> DEFINE F == FreeRounds(s, input.branch)
  <2>1. F \in SUBSET TaskIds BY DEF FreeRounds
  <2>2. FirstOf(F) \in TaskIds BY <2>1, ConstantTypes, FirstIsLeast
  <2>3. branch = <<input.branch[1], FirstOf(F)>> BY DEF NextBranch, FirstOf
  <2>4. input.branch \in Branches BY <1>1 DEF TaskInput
  <2>5. input.branch[1] \in BranchNames BY <2>4 DEF Branches
  <2> HIDE DEF F
  <2> QED BY <2>2, <2>3, <2>5 DEF Branches
<1>3. SourceWorker(s, t) \in Workers \cup {None} BY SourceWorkerType
<1>4. RedriveInput(s, t) =
        [input EXCEPT !.branch = branch, !.target = SourceWorker(s, t), !.deps = {},
                      !.continueFrom = t, !.followUp = NoTask, !.redrive = TRUE]
  BY DEF RedriveInput
<1> HIDE DEF input, branch
<1> QED BY <1>1, <1>2, <1>3, <1>4 DEF TaskInput

(* A redrive dispatches an input made of the old one. *)
LEMMA RedriveTaskSound ==
    ASSUME NEW s, Sound(s), NEW t \in TaskIds, NextTaskId(s) \in TaskIds,
           FreeRounds(s, s.tasks[t].input.branch) # {}, NEW u \in RedriveTask(s, t)
    PROVE  Sound(u)
BY RedriveInputType, DispatchTaskSound DEF RedriveTask

-----------------------------------------------------------------------------
(* Claim and start *)

(* The leases and the attempt of a claim; the bound on attempts is the      *)
(* claim's guard.                                                           *)
LEMMA TakeTaskType ==
    ASSUME NEW s, Sound(s), NEW t \in TaskIds, NEW w \in Workers
    PROVE  TakeTask(s, t, w) \in RuntimeState
BY TaskLeasesSound, CreateOrReuseTaskAttemptType DEF TakeTask

(* A claim writes the task it takes, the assignment and the worker. *)
LEMMA ClaimBoundType ==
    ASSUME NEW s, Sound(s), NEW t \in TaskIds, NEW w \in Workers
    PROVE  ClaimBound(s, t, w) \in RuntimeState
<1> DEFINE u == TakeTask(s, t, w)
           claimed == \/ u.assignments[t].claimed
                      \/ s.tasks[t].status = "assigned" /\ s.assignments[t].status = "assigned"
           record == [u.assignments[t] EXCEPT !.claimed = claimed]
<1>1. u \in RuntimeState BY TakeTaskType
<1>2. CASE LeaseConflicts(s, t, w) # {}
  BY <1>2, TaskLeasesSound DEF ClaimBound, Sound
<1>3. CASE LeaseConflicts(s, t, w) = {}
  <2>1. ClaimBound(s, t, w) = [u EXCEPT !.assignments[t].claimed = claimed]
    BY <1>3 DEF ClaimBound
  <2> HIDE DEF u
  <2>2. u.assignments[t] \in Assignment BY <1>1 DEF RuntimeState
  <2>3. claimed \in BOOLEAN BY <2>2 DEF Assignment
  <2> HIDE DEF claimed
  <2>4. record \in Assignment BY <2>2, <2>3 DEF Assignment
  <2>5. ClaimBound(s, t, w) = [u EXCEPT !.assignments[t] = record] BY <2>1
  <2> HIDE DEF record
  <2> QED BY <1>1, <2>4, <2>5 DEF RuntimeState
<1> QED BY <1>2, <1>3

(* A claim of a task that was assigned before keeps the types. *)
LEMMA ClaimPreAssignedType ==
    ASSUME NEW s, Sound(s), NEW t \in TaskIds, NEW w \in Workers
    PROVE  ClaimPreAssigned(s, t, w) \in RuntimeState
<1> DEFINE u == TakeTask(s, t, w)
           record == [u.assignments[t] EXCEPT !.claimed = TRUE]
           x == Busy(u.workers[w], t)
<1>1. u \in RuntimeState BY TakeTaskType
<1>2. CASE LeaseConflicts(s, t, w) # {}
  BY <1>2, TaskLeasesSound DEF ClaimPreAssigned, Sound
<1>3. CASE LeaseConflicts(s, t, w) = {}
  <2>1. ClaimPreAssigned(s, t, w) = [u EXCEPT !.assignments[t] = record, !.workers[w] = x]
    BY <1>3 DEF ClaimPreAssigned
  <2> HIDE DEF u
  <2>2. record \in Assignment BY <1>1 DEF RuntimeState, Assignment
  <2>3. x \in Worker BY <1>1, WorkerType DEF RuntimeState
  <2> DEFINE records == [u.assignments EXCEPT ![t] = record]
             staff == [u.workers EXCEPT ![w] = x]
  <2> HIDE DEF record, x
  <2>4. records \in [TaskIds -> Assignment] /\ staff \in [Workers -> Worker]
    BY <1>1, <2>2, <2>3 DEF RuntimeState
  <2>5. ClaimPreAssigned(s, t, w) = [u EXCEPT !.assignments = records, !.workers = staff] BY <2>1
  <2> HIDE DEF records, staff
  <2> QED BY <1>1, <2>4, <2>5 DEF RuntimeState
<1> QED BY <1>2, <1>3

(* A claim of a ready task keeps the types. *)
LEMMA ClaimReadyType ==
    ASSUME NEW s, Sound(s), NEW t \in TaskIds, NEW w \in Workers
    PROVE  ClaimReady(s, t, w) \in RuntimeState
<1> DEFINE u == TakeTask(s, t, w)
           task == [u.tasks[t] EXCEPT !.status = "assigned", !.worker = w, !.lastWorker = w]
           x == Busy(u.workers[w], t)
<1>1. u \in RuntimeState BY TakeTaskType
<1>2. CASE LeaseConflicts(s, t, w) # {}
  BY <1>2, TaskLeasesSound DEF ClaimReady, Sound
<1>3. CASE LeaseConflicts(s, t, w) = {}
  <2>1. ClaimReady(s, t, w) = [u EXCEPT !.tasks[t] = task, !.assignments[t] = AssignedTo(w),
                                        !.workers[w] = x]
    BY <1>3 DEF ClaimReady
  <2> HIDE DEF u
  <2>2. u.tasks[t] \in Task /\ u.workers[w] \in Worker BY <1>1 DEF RuntimeState
  <2>3. task \in Task BY <2>2 DEF Task
  <2>4. x \in Worker BY <2>2, WorkerType
  <2>5. AssignedTo(w) \in Assignment BY AssignedToType
  <2> DEFINE jobs == [u.tasks EXCEPT ![t] = task]
             records == [u.assignments EXCEPT ![t] = AssignedTo(w)]
             staff == [u.workers EXCEPT ![w] = x]
  <2> HIDE DEF task, x
  <2>6. jobs \in [TaskIds -> Task] /\ records \in [TaskIds -> Assignment]
        /\ staff \in [Workers -> Worker]
    BY <1>1, <2>3, <2>4, <2>5 DEF RuntimeState
  <2>7. ClaimReady(s, t, w) = [u EXCEPT !.tasks = jobs, !.assignments = records, !.workers = staff]
    BY <2>1
  <2> HIDE DEF jobs, records, staff
  <2> QED BY <1>1, <2>6, <2>7 DEF RuntimeState
<1> QED BY <1>2, <1>3

(* claimAssignedTaskForWorker, whichever of the branches it takes. *)
LEMMA ClaimAssignedTaskType ==
    ASSUME NEW s, Sound(s), NEW w \in Workers
    PROVE  ClaimAssignedTask(s, w) \in RuntimeState
<1> DEFINE reconciled == Reconcile(s)
           u == Revive(s, reconciled, w)
<1>1. Sound(reconciled) BY ReconcileSound
<1> HIDE DEF reconciled
<1>2. Sound(u)
  <2>1. reconciled.workers[w] \in Worker BY <1>1 DEF Sound, RuntimeState
  <2>2. [reconciled.workers[w] EXCEPT !.status = "idle", !.age = 0] \in Worker
    BY <2>1, ConstantTypes DEF Worker
  <2> QED BY <1>1, <2>2, WorkerSound DEF Revive
<1> HIDE DEF u
<1>3. BoundTask(u, w) # NoTask => BoundTask(u, w) \in TaskIds
  BY <1>2 DEF BoundTask, Sound, RuntimeState, Worker
<1>4. PreAssigned(u, w) # {} => FirstOf(PreAssigned(u, w)) \in TaskIds
  BY FirstIsLeast, ConstantTypes DEF PreAssigned
<1>5. Claimable(u, w) # {} => FirstOf(Claimable(u, w)) \in TaskIds
  BY FirstIsLeast, ConstantTypes DEF Claimable
<1>6. ClaimOnceReconciled(u, w) \in RuntimeState
  BY <1>2, <1>3, <1>4, <1>5, ClaimBoundType, ClaimPreAssignedType, ClaimReadyType
  DEF ClaimOnceReconciled, Sound
<1>7. ClaimAssignedTask(s, w) =
        IF reconciled.workers[w].disabled THEN reconciled ELSE ClaimOnceReconciled(u, w)
  BY DEF ClaimAssignedTask, reconciled, u
<1> QED BY <1>1, <1>6, <1>7 DEF Sound

(* beginTaskForWorker renews leases and attempt and marks both records. *)
LEMMA BeginTaskSound ==
    ASSUME NEW s, Sound(s), NEW w \in Workers, NEW t \in TaskIds, HasActiveAttempt(s, t)
    PROVE  Sound(BeginTask(s, w, t))
<1> DEFINE attempt == [ActiveAttempt(s, t) EXCEPT !.status = "running", !.ttl = LeaseTTL]
           running == WithActiveAttempt(AcquireTaskLeases(s, t, w), t, attempt)
           started == SetStatus(running, t, "in_progress")
           record == [started.assignments[t] EXCEPT !.claimed = TRUE]
           x == Busy(started.workers[w], t)
<1>1. attempt \in Attempt BY ActiveAttemptType, ConstantTypes DEF Sound, Attempt
<1> HIDE DEF attempt
<1>2. Sound(running) BY <1>1, TaskLeasesSound, WithActiveAttemptSound
<1> HIDE DEF running
<1>3. Sound(started) BY <1>2, SetStatusSound
<1> HIDE DEF started
<1>4. BeginTask(s, w, t) = [started EXCEPT !.assignments[t] = record, !.workers[w] = x]
  BY DEF BeginTask, started, running, attempt
<1>5. started.assignments[t] \in Assignment /\ started.workers[w] \in Worker
  BY <1>3 DEF Sound, RuntimeState
<1>6. record \in Assignment BY <1>5 DEF Assignment
<1>7. x \in Worker BY <1>5, WorkerType
<1> DEFINE records == [started.assignments EXCEPT ![t] = record]
           staff == [started.workers EXCEPT ![w] = x]
<1> HIDE DEF record, x
<1>8. records \in [TaskIds -> Assignment] /\ staff \in [Workers -> Worker]
  BY <1>3, <1>6, <1>7 DEF Sound, RuntimeState
<1>9. BeginTask(s, w, t) = [started EXCEPT !.assignments = records, !.workers = staff] BY <1>4
<1> HIDE DEF records, staff
<1> QED BY <1>3, <1>8, <1>9 DEF Sound, RuntimeState, WithinBounds

-----------------------------------------------------------------------------
(* Results, reviews and operator requests *)

(* recordWorkerResult ends the attempt and files the review material. *)
LEMMA RecordResultSound ==
    ASSUME NEW s, Sound(s), NEW w \in Workers, NEW t \in TaskIds, HasActiveAttempt(s, t),
           NEW outcome \in {"passed", "recoverable", "unrecoverable"}
    PROVE  Sound(RecordResult(s, w, t, outcome))
<1> DEFINE passed == outcome = "passed"
           set == SetStatus(s, t, IF passed THEN "review" ELSE "failed")
           x == Freed(set.workers[w])
           review == [set.reviews[t] EXCEPT !.decision = "pending",
                                            !.material = IF passed THEN ActiveNo(s, t) ELSE 0,
                                            !.result = outcome]
           staff == [set.workers EXCEPT ![w] = x]
           reviewed == [set.reviews EXCEPT ![t] = review]
           recorded == [set EXCEPT !.workers = staff, !.reviews = reviewed]
<1>1. Sound(set)
  <2>1. CASE passed BY <2>1, SetStatusSound
  <2>2. CASE ~passed BY <2>2, SetStatusSound
  <2> QED BY <2>1, <2>2
<1>2. ActiveNo(s, t) \in 0..AttemptBound BY ActiveNoBound DEF AttemptNoOrZero
<1>3. RecordResult(s, w, t, outcome) =
        ReleaseTaskLeases(EndAttempt(recorded, t, IF passed THEN "succeeded" ELSE "failed"), t, w)
  BY DEF RecordResult
<1> HIDE DEF set
<1>4. set.workers[w] \in Worker /\ set.reviews[t] \in Review BY <1>1 DEF Sound, RuntimeState
<1>5. x \in Worker
  <2>1. t \in TaskIds OBVIOUS
  <2> QED BY <1>4, <2>1, WorkerType
<1>6. review \in Review BY <1>2, <1>4, ConstantTypes DEF Review
<1> HIDE DEF x, review
<1>7. staff \in [Workers -> Worker] /\ reviewed \in [TaskIds -> Review]
  BY <1>1, <1>5, <1>6 DEF Sound, RuntimeState
<1> HIDE DEF staff, reviewed
<1>8. Sound(recorded) BY <1>1, <1>7 DEF Sound, RuntimeState, WithinBounds
<1> HIDE DEF recorded
<1>9. Sound(EndAttempt(recorded, t, IF passed THEN "succeeded" ELSE "failed"))
  <2>1. CASE passed BY <1>8, <2>1, EndAttemptSound
  <2>2. CASE ~passed BY <1>8, <2>2, EndAttemptSound
  <2> QED BY <2>1, <2>2
<1> QED BY <1>3, <1>9, TaskLeasesSound

(* recordReviewDecision moves both records and keeps what was reviewed. *)
LEMMA DecideReviewSound ==
    ASSUME NEW s, Sound(s), NEW t \in TaskIds, NEW i \in 1..AttemptBound,
           NEW decision \in {"merge", "block", "rework"}, NEW canRedrive \in BOOLEAN
    PROVE  Sound(DecideReview(s, t, i, decision, canRedrive))
<1> DEFINE set == SetStatus(s, t, IF decision = "merge" THEN "merged" ELSE "blocked")
           review == [set.reviews[t] EXCEPT !.decision = decision, !.reviewed = i,
                                            !.canRedrive = canRedrive]
           decided == [set EXCEPT !.reviews[t] = review]
<1>1. Sound(set)
  <2>1. CASE decision = "merge" BY <2>1, SetStatusSound
  <2>2. CASE decision # "merge" BY <2>2, SetStatusSound
  <2> QED BY <2>1, <2>2
<1>2. DecideReview(s, t, i, decision, canRedrive) = ReleaseOwnTaskLeases(decided, t)
  BY DEF DecideReview
<1> HIDE DEF set
<1>3. set.reviews[t] \in Review /\ i \in 0..AttemptBound
  BY <1>1, ConstantTypes DEF Sound, RuntimeState
<1>4. review \in Review BY <1>3 DEF Review
<1> HIDE DEF review
<1>5. Sound(decided) BY <1>1, <1>4 DEF Sound, RuntimeState, WithinBounds
<1> QED BY <1>2, <1>5, ReleaseOwnTaskLeasesSound

(* interruptTaskForInput remembers the number of an attempt within bounds. *)
LEMMA InterruptTaskSound ==
    ASSUME NEW s, Sound(s), NEW t \in TaskIds, NEW inputTtl \in 0..NoExpiry
    PROVE  Sound(InterruptTask(s, t, inputTtl))
<1> DEFINE set == SetStatus(ReleaseWorkers(s, t), t, "waiting_for_input")
           task == [set.tasks[t] EXCEPT !.worker = None, !.inputTtl = inputTtl,
                                        !.waitingAttempt = AttemptNoOrZero(s, t)]
           record == [set.assignments[t] EXCEPT !.worker = None]
           jobs == [set.tasks EXCEPT ![t] = task]
           records == [set.assignments EXCEPT ![t] = record]
           table == ReleaseOwnTaskLeases(s, t).leases
           waiting == [set EXCEPT !.tasks = jobs, !.assignments = records, !.leases = table]
           attempt == [ActiveAttempt(s, t) EXCEPT !.status = "checkpointed"]
<1>1. Sound(set) BY ReleaseWorkersSound, SetStatusSound
<1>2. set.taskAttempts = s.taskAttempts BY DEF Sound, RuntimeState, SetStatus, ReleaseWorkers
<1>3. InterruptTask(s, t, inputTtl) = WithActiveAttempt(waiting, t, attempt)
  BY DEF InterruptTask
<1> HIDE DEF set
<1>4. set.tasks[t] \in Task /\ set.assignments[t] \in Assignment
  BY <1>1 DEF Sound, RuntimeState
<1>5. task \in Task BY <1>4, ActiveNoBound DEF Task
<1>6. record \in Assignment BY <1>4 DEF Assignment
<1>7. table \in [Resources -> Lease] BY ReleaseOwnTaskLeasesSound DEF Sound, RuntimeState
<1> HIDE DEF task, record, table
<1>8. jobs \in [TaskIds -> Task] /\ records \in [TaskIds -> Assignment]
  BY <1>1, <1>5, <1>6 DEF Sound, RuntimeState
<1> HIDE DEF jobs, records
<1>9. Sound(waiting) BY <1>1, <1>7, <1>8 DEF Sound, RuntimeState, WithinBounds
<1>10. waiting.taskAttempts = s.taskAttempts BY <1>1, <1>2 DEF Sound, RuntimeState
<1> HIDE DEF waiting
<1>11. HasActiveAttempt(waiting, t) = HasActiveAttempt(s, t) BY <1>10, SameAttempts
<1>12. HasActiveAttempt(s, t) => attempt \in Attempt
  BY ActiveAttemptType DEF Sound, Attempt
<1> HIDE DEF attempt
<1> QED BY <1>3, <1>9, <1>11, <1>12, WithActiveAttemptSound

(* resumeTaskFromInput queues the task again. *)
LEMMA ResumeTaskSound ==
    ASSUME NEW s, Sound(s), NEW t \in TaskIds
    PROVE  Sound(ResumeTask(s, t))
<1> DEFINE task == [s.tasks[t] EXCEPT !.status = "ready", !.worker = None,
                                      !.waitingAttempt = 0, !.inputTtl = 0]
           record == Unassigned(s.assignments[t])
           jobs == [s.tasks EXCEPT ![t] = task]
           records == [s.assignments EXCEPT ![t] = record]
<1>1. s.tasks[t] \in Task /\ s.assignments[t] \in Assignment BY DEF Sound, RuntimeState
<1>2. task \in Task BY <1>1, ConstantTypes DEF Task
<1>3. record \in Assignment BY <1>1, UnassignedType
<1>4. ResumeTask(s, t) = [s EXCEPT !.tasks = jobs, !.assignments = records] BY DEF ResumeTask
<1> HIDE DEF task, record
<1>5. jobs \in [TaskIds -> Task] /\ records \in [TaskIds -> Assignment]
  BY <1>2, <1>3 DEF Sound, RuntimeState
<1> HIDE DEF jobs, records
<1> QED BY <1>4, <1>5 DEF Sound, RuntimeState, WithinBounds

(* cancelTask ends the attempt and releases workers and leases. *)
LEMMA CancelTaskSound ==
    ASSUME NEW s, Sound(s), NEW t \in TaskIds
    PROVE  Sound(CancelTask(s, t))
BY ReleaseWorkersSound, SetStatusSound, ReleaseOwnTaskLeasesSound, EndAttemptSound DEF CancelTask

-----------------------------------------------------------------------------
(* The handlers: what is saved is what a function returned. *)

(* A handler that saves a sound state establishes TypeOK. *)
LEMMA SaveTypeOK ==
    ASSUME NEW s, Sound(s), Save(s)
    PROVE  TypeOK'
BY DEF Save, Sound, RuntimeState, WithinBounds, TypeOK, State

(* What a handler loads under TypeOK is sound. *)
LEMMA StateSound ==
    TypeOK => Sound(State)
BY DEF TypeOK, Sound

(* Every request of a worker saves what sound functions return. *)
LEMMA WorkerRequestTypeOK ==
    ASSUME TypeOK, NEW w \in Workers, WorkerRequest(w)
    PROVE  TypeOK'
<1>1. Sound(State) BY StateSound
<1>2. ASSUME Register(w) PROVE TypeOK'
  BY <1>1, <1>2, RegisterWorkerSound, ReconcileSound, SaveTypeOK DEF Register
<1>3. ASSUME Heartbeat(w) PROVE TypeOK'
  BY <1>1, <1>3, HeartbeatWorkerSound, ReconcileSound, SaveTypeOK DEF Heartbeat
<1>4. ASSUME Offline(w) PROVE TypeOK'
  BY <1>1, <1>4, MarkWorkerOfflineSound, SaveTypeOK DEF Offline
<1>5. ASSUME Claim(w) PROVE TypeOK'
  BY <1>1, <1>5, ClaimAssignedTaskType, SaveTypeOK DEF Claim, Sound
<1>6. ASSUME NEW t \in TaskIds, NEW i \in DOMAIN taskAttempts[t], Start(w, t, i) PROVE TypeOK'
  BY <1>1, <1>6, BeginTaskSound, SaveTypeOK DEF Start, MayBegin, OwnsActiveAttempt
<1>7. ASSUME NEW t \in TaskIds, NEW i \in DOMAIN taskAttempts[t],
             NEW outcome \in {"passed", "recoverable", "unrecoverable"}, Result(w, t, i, outcome)
      PROVE  TypeOK'
  BY <1>1, <1>7, RecordResultSound, SaveTypeOK DEF Result, MayRecordResult, OwnsActiveAttempt
<1>8. ASSUME NEW t \in TaskIds, NEW i \in DOMAIN taskAttempts[t],
             NEW inputTtl \in {InputTTL, NoExpiry}, ResultAsksForInput(w, t, i, inputTtl)
      PROVE  TypeOK'
  BY <1>1, <1>8, InterruptTaskSound, ConstantTypes, SaveTypeOK DEF ResultAsksForInput
<1> QED BY <1>2, <1>3, <1>4, <1>5, <1>6, <1>7, <1>8 DEF WorkerRequest

(* So does every request of an operator. *)
LEMMA OperatorRequestTypeOK ==
    ASSUME TypeOK, OperatorRequest
    PROVE  TypeOK'
<1>1. Sound(State) BY StateSound
<1>2. ASSUME NEW w \in Workers, Disable(w) \/ Enable(w) PROVE TypeOK'
  BY <1>1, <1>2, DisableWorkerSound, SaveTypeOK DEF Disable, Enable
<1>3. ASSUME NEW d \in Dispatches, Dispatch(d) PROVE TypeOK'
  <2>1. PICK s \in CreateDispatch(State, d) : Save(s) BY <1>3 DEF Dispatch
  <2>2. Sound(s) BY <1>1, <1>3, CreateDispatchSound DEF Dispatch
  <2> QED BY <2>1, <2>2, SaveTypeOK
<1>4. ASSUME NEW t \in TaskIds, Redrive(t) PROVE TypeOK'
  <2>1. PICK s \in RedriveTask(State, t) : Save(s) BY <1>4 DEF Redrive
  <2>2. State.tasks = tasks BY DEF State
  <2>3. Sound(s) BY <1>1, <1>4, <2>2, RedriveTaskSound DEF Redrive
  <2> QED BY <2>1, <2>3, SaveTypeOK
<1>5. ASSUME NEW t \in TaskIds, Resume(t) PROVE TypeOK'
  BY <1>1, <1>5, ResumeTaskSound, SaveTypeOK DEF Resume
<1>6. ASSUME NEW t \in TaskIds, Cancel(t) PROVE TypeOK'
  BY <1>1, <1>6, CancelTaskSound, SaveTypeOK DEF Cancel
<1>7. ASSUME NEW t \in TaskIds, NEW inputTtl \in {InputTTL, NoExpiry}, Interrupt(t, inputTtl)
      PROVE  TypeOK'
  BY <1>1, <1>7, InterruptTaskSound, ConstantTypes, SaveTypeOK DEF Interrupt
<1>8. ASSUME NEW t \in TaskIds, NEW i \in 1..AttemptBound,
             NEW decision \in {"merge", "block", "rework"}, NEW canRedrive \in BOOLEAN,
             Decide(t, i, decision, canRedrive)
      PROVE  TypeOK'
  BY <1>1, <1>8, DecideReviewSound, SaveTypeOK DEF Decide
<1> QED BY <1>2, <1>3, <1>4, <1>5, <1>6, <1>7, <1>8 DEF OperatorRequest

(* Time moves countdowns and ages within their ranges. *)
LEMMA TickTypeOK ==
    ASSUME TypeOK, Tick
    PROVE  TypeOK'
<1>1. State \in RuntimeState /\ WithinBounds(State) BY DEF TypeOK
<1>2. /\ workers \in [Workers -> Worker] /\ tasks \in [TaskIds -> Task]
      /\ assignments \in [TaskIds -> Assignment] /\ taskAttempts \in [TaskIds -> Seq(Attempt)]
      /\ leases \in [Resources -> Lease] /\ reviews \in [TaskIds -> Review]
  BY <1>1 DEF State, RuntimeState
<1>3. workers' \in [Workers -> Worker]
  <2>1. \A x \in Worker : [x EXCEPT !.age = Older(@, Stale)] \in Worker
    BY ConstantTypes DEF Worker, Older
  <2> QED BY <1>2, <2>1 DEF Tick
<1>4. tasks' \in [TaskIds -> Task]
  <2>1. \A x \in Task : [x EXCEPT !.inputTtl = IF @ = NoExpiry THEN @ ELSE CountDown(@)] \in Task
    BY ConstantTypes DEF Task, CountDown
  <2> QED BY <1>2, <2>1 DEF Tick
<1>5. assignments' \in [TaskIds -> Assignment]
  <2>1. \A x \in Assignment : AgeAssignment(x) \in Assignment
    BY ConstantTypes DEF AgeAssignment, Assignment, Older
  <2> QED BY <1>2, <2>1 DEF Tick
<1>6. taskAttempts' \in [TaskIds -> Seq(Attempt)]
      /\ \A t \in TaskIds : Len(taskAttempts'[t]) = Len(taskAttempts[t])
  <2>1. \A x \in Attempt : [x EXCEPT !.ttl = CountDown(@)] \in Attempt
    BY ConstantTypes DEF Attempt, CountDown
  <2>2. ASSUME NEW t \in TaskIds
        PROVE  taskAttempts'[t] \in Seq(Attempt) /\ Len(taskAttempts'[t]) = Len(taskAttempts[t])
    <3>1. taskAttempts[t] \in Seq(Attempt) BY <1>2
    <3>2. Len(taskAttempts[t]) \in Nat /\ DOMAIN taskAttempts[t] = 1..Len(taskAttempts[t])
          /\ \A i \in 1..Len(taskAttempts[t]) : taskAttempts[t][i] \in Attempt
      BY <3>1, ElementOfSeq
    <3>3. taskAttempts'[t] = [i \in 1..Len(taskAttempts[t]) |->
                                  [taskAttempts[t][i] EXCEPT !.ttl = CountDown(@)]]
      BY <3>2 DEF Tick
    <3> QED BY <2>1, <3>2, <3>3
  <2>3. taskAttempts' = [t \in TaskIds |-> taskAttempts'[t]] BY DEF Tick
  <2> QED BY <2>2, <2>3
<1>7. leases' \in [Resources -> Lease]
  <2>1. \A x \in Lease : [x EXCEPT !.ttl = CountDown(@)] \in Lease
    BY ConstantTypes DEF Lease, CountDown
  <2> QED BY <1>2, <2>1 DEF Tick, AgeLeases
<1>8. reviews' \in [TaskIds -> Review] BY <1>2 DEF Tick
<1>9. State' \in RuntimeState BY <1>3, <1>4, <1>5, <1>6, <1>7, <1>8 DEF State, RuntimeState
<1>10. WithinBounds(State)' BY <1>1, <1>6 DEF WithinBounds, State
<1> QED BY <1>9, <1>10 DEF TypeOK

(* The empty runtime state has its type. *)
LEMMA InitTypeOK == Init => TypeOK
<1> SUFFICES ASSUME Init PROVE TypeOK OBVIOUS
<1>1. NoInput \in TaskInput
  <2>1. 1 \in TaskIds BY DispatcherAssumption DEF TaskIds
  <2> QED BY <2>1, DispatcherAssumption DEF NoInput, TaskInput, Branches
<1>2. workers \in [Workers -> Worker] BY ConstantTypes DEF Init, Worker
<1>3. tasks \in [TaskIds -> Task] BY <1>1, ConstantTypes DEF Init, Task
<1>4. assignments \in [TaskIds -> Assignment] BY ConstantTypes DEF Init, Assignment
<1>5. taskAttempts \in [TaskIds -> Seq(Attempt)] /\ \A t \in TaskIds : Len(taskAttempts[t]) = 0
  BY DEF Init
<1>6. leases \in [Resources -> Lease] BY ConstantTypes DEF Init, NoLease, Lease
<1>7. reviews \in [TaskIds -> Review] BY ConstantTypes DEF Init, Review
<1> QED BY <1>2, <1>3, <1>4, <1>5, <1>6, <1>7, ConstantTypes
        DEF TypeOK, State, RuntimeState, WithinBounds

-----------------------------------------------------------------------------
(* Every field of the runtime state has a value of its type after every     *)
(* handler, and no task has more attempts than the bound: TypeOK is         *)
(* inductive.                                                               *)
THEOREM TypeOKHolds == Spec => []TypeOK
<1>1. TypeOK /\ [Next]_vars => TypeOK'
  <2> SUFFICES ASSUME TypeOK, [Next]_vars PROVE TypeOK' OBVIOUS
  <2>1. ASSUME NEW w \in Workers, WorkerRequest(w) PROVE TypeOK' BY <2>1, WorkerRequestTypeOK
  <2>2. CASE OperatorRequest BY <2>2, OperatorRequestTypeOK
  <2>3. CASE GetAssignedTask BY <2>3, StateSound, ReconcileSound, SaveTypeOK DEF GetAssignedTask
  <2>4. CASE Tick BY <2>4, TickTypeOK
  <2>5. CASE UNCHANGED vars BY <2>5 DEF vars, TypeOK, State, WithinBounds
  <2> QED BY <2>1, <2>2, <2>3, <2>4, <2>5 DEF Next
<1> QED BY InitTypeOK, <1>1, PTL DEF Spec

-----------------------------------------------------------------------------
(* Records that agree *)

(* What AssignmentFollowsTask says of the two records of one task. *)
RecordsAgree(task, assignment) ==
    task.status # "absent" =>
        /\ assignment.worker = task.worker
        /\ assignment.status =
              IF task.status \in {"planned", "ready"} THEN "pending" ELSE task.status
        /\ task.status \in {"planned", "ready", "waiting_for_input"} => task.worker = None
        /\ task.status \in {"assigned", "in_progress", "review", "merged", "failed"}
             => task.worker # None

Follows(s) == \A t \in TaskIds : RecordsAgree(s.tasks[t], s.assignments[t])

Final == {"merged", "failed", "cancelled"}

(* What every function but createDispatch may do to a task. *)
MovesTo(s, u, t) ==
    /\ u.tasks[t].input = s.tasks[t].input
    /\ Exists(u, t) <=> Exists(s, t)
    /\ s.tasks[t].status \in Final => u.tasks[t].status = s.tasks[t].status
    /\ s.tasks[t].status = "planned" =>
          u.tasks[t].status \in {"planned", "cancelled"} \/ Merged(u, s.tasks[t].input.deps)

Advances(s, u) == \A t \in TaskIds : MovesTo(s, u, t)

(* What the functions that know nothing of tasks do. *)
KeepsTasks(s, u) == u.tasks = s.tasks /\ u.assignments = s.assignments

-----------------------------------------------------------------------------
(* Facts about the relations *)

(* Dependencies are tasks. *)
LEMMA DepsType ==
    ASSUME NEW s, Sound(s), NEW t \in TaskIds
    PROVE  s.tasks[t].input.deps \in SUBSET TaskIds
BY DEF Sound, RuntimeState, Task, TaskInput

(* Merged tasks stay merged. *)
LEMMA MergedStays ==
    ASSUME NEW s, NEW u, Advances(s, u), NEW T \in SUBSET TaskIds, Merged(s, T)
    PROVE  Merged(u, T)
BY DEF Advances, MovesTo, Merged, Final

(* What two functions do one after the other is no more than one may do. *)
LEMMA AdvancesTransitive ==
    ASSUME NEW s, NEW u, NEW v, Sound(s), Advances(s, u), Advances(u, v)
    PROVE  Advances(s, v)
<1> SUFFICES ASSUME NEW t \in TaskIds PROVE MovesTo(s, v, t) BY DEF Advances
<1>1. MovesTo(s, u, t) /\ MovesTo(u, v, t) BY DEF Advances
<1>2. Merged(u, s.tasks[t].input.deps) => Merged(v, s.tasks[t].input.deps)
  BY DepsType, MergedStays
<1> QED BY <1>1, <1>2 DEF MovesTo, Final

(* A function that keeps tasks and assignments keeps their agreement. *)
LEMMA KeptTasks ==
    ASSUME NEW s, NEW u, Follows(s), KeepsTasks(s, u)
    PROVE  Follows(u) /\ Advances(s, u)
BY DEF KeepsTasks, Follows, Advances, MovesTo, Exists

(* Expired leases are reclaimed without a look at the tasks. *)
LEMMA ReclaimKeepsTasks ==
    ASSUME NEW s, Sound(s)
    PROVE  KeepsTasks(s, ReclaimLeases(s))
BY DEF KeepsTasks, ReclaimLeases, Sound, RuntimeState

(* Leases, attempts and workers are not tasks. *)
LEMMA OthersKeepTasks ==
    ASSUME NEW s, Sound(s), NEW t \in TaskIds
    PROVE  /\ KeepsTasks(s, ReleaseOwnTaskLeases(s, t))
           /\ KeepsTasks(s, ReleaseWorkers(s, t))
           /\ \A attempt : KeepsTasks(s, WithActiveAttempt(s, t, attempt))
           /\ \A status : KeepsTasks(s, EndAttempt(s, t, status))
           /\ \A w \in Workers :
                /\ KeepsTasks(s, AcquireTaskLeases(s, t, w))
                /\ KeepsTasks(s, ReleaseTaskLeases(s, t, w))
<1>1. s \in RuntimeState BY DEF Sound
<1>3. KeepsTasks(s, ReleaseWorkers(s, t)) BY <1>1 DEF KeepsTasks, ReleaseWorkers, RuntimeState
<1>4. \A attempt : KeepsTasks(s, WithActiveAttempt(s, t, attempt))
  BY <1>1 DEF KeepsTasks, WithActiveAttempt, RuntimeState
<1>5. \A w : KeepsTasks(s, AcquireTaskLeases(s, t, w)) /\ KeepsTasks(s, ReleaseTaskLeases(s, t, w))
  BY <1>1 DEF KeepsTasks, AcquireTaskLeases, ReleaseTaskLeases, RuntimeState
<1>6. KeepsTasks(s, ReleaseOwnTaskLeases(s, t))
  BY <1>5 DEF ReleaseOwnTaskLeases, KeepsTasks
<1> QED BY <1>3, <1>4, <1>5, <1>6 DEF EndAttempt

-----------------------------------------------------------------------------
(* reconcileRuntimeState *)

(* Only tasks that are worked on go back to the queue. *)
LEMMA RequeueTasksMoves ==
    ASSUME NEW s, Sound(s), Follows(s), NEW T \in SUBSET TaskIds,
           \A t \in T : s.tasks[t].status \in {"assigned", "in_progress"}
    PROVE  Follows(RequeueTasks(s, T)) /\ Advances(s, RequeueTasks(s, T))
<1> DEFINE u == RequeueTasks(s, T)
<1>1. s.tasks \in [TaskIds -> Task] /\ s.assignments \in [TaskIds -> Assignment]
      /\ s \in RuntimeState
  BY DEF Sound, RuntimeState
<1>2. ASSUME NEW t \in TaskIds, t \in T
      PROVE  RecordsAgree(u.tasks[t], u.assignments[t]) /\ MovesTo(s, u, t)
  <2>1. u.tasks[t] = [s.tasks[t] EXCEPT !.status = "ready", !.worker = None,
                                        !.lastWorker = s.tasks[t].worker]
        /\ u.assignments[t] = Unassigned(s.assignments[t])
    BY <1>1, <1>2 DEF RequeueTasks, RuntimeState
  <2>2. s.tasks[t] \in Task /\ s.assignments[t] \in Assignment BY <1>1
  <2>3. u.tasks[t].status = "ready" /\ u.tasks[t].worker = None
        /\ u.tasks[t].input = s.tasks[t].input
        /\ u.assignments[t].worker = None /\ u.assignments[t].status = "pending"
    BY <2>1, <2>2 DEF Task, Assignment, Unassigned
  <2>4. s.tasks[t].status \in {"assigned", "in_progress"} BY <1>2
  <2> HIDE DEF u
  <2> QED BY <2>3, <2>4 DEF RecordsAgree, MovesTo, Exists, Final
<1>3. ASSUME NEW t \in TaskIds, t \notin T
      PROVE  RecordsAgree(u.tasks[t], u.assignments[t]) /\ MovesTo(s, u, t)
  <2>1. u.tasks[t] = s.tasks[t] /\ u.assignments[t] = s.assignments[t]
    BY <1>1, <1>3 DEF RequeueTasks, RuntimeState
  <2> HIDE DEF u
  <2> QED BY <2>1 DEF Follows, MovesTo, Exists
<1> QED BY <1>2, <1>3 DEF Follows, Advances

(* A task with no attempts left has failed. *)
LEMMA EndExpiredAttemptsMoves ==
    ASSUME NEW s, Sound(s), Follows(s)
    PROVE  LET u == EndExpiredAttempts(s)
           IN Follows(u) /\ Advances(s, u)
              /\ \A t \in ExpiredRunning(s) : MayRetry(s, t) => u.tasks[t].status = "in_progress"
<1> DEFINE u == EndExpiredAttempts(s)
<1>1. s.tasks \in [TaskIds -> Task] /\ s.assignments \in [TaskIds -> Assignment]
      /\ s \in RuntimeState
  BY DEF Sound, RuntimeState
<1>2. ASSUME NEW t \in TaskIds, t \in ExpiredRunning(s), ~MayRetry(s, t)
      PROVE  RecordsAgree(u.tasks[t], u.assignments[t]) /\ MovesTo(s, u, t)
  <2>1. u.tasks[t] = [s.tasks[t] EXCEPT !.status = "failed"]
        /\ u.assignments[t] = [s.assignments[t] EXCEPT !.status = "failed"]
    BY <1>1, <1>2 DEF EndExpiredAttempts, RuntimeState
  <2>2. s.tasks[t] \in Task /\ s.assignments[t] \in Assignment BY <1>1
  <2>3. u.tasks[t].status = "failed" /\ u.tasks[t].worker = s.tasks[t].worker
        /\ u.tasks[t].input = s.tasks[t].input
        /\ u.assignments[t].worker = s.assignments[t].worker /\ u.assignments[t].status = "failed"
    BY <2>1, <2>2 DEF Task, Assignment
  <2>4. s.tasks[t].status = "in_progress" /\ s.tasks[t].worker # None
    BY <1>2 DEF ExpiredRunning
  <2> HIDE DEF u
  <2> QED BY <2>3, <2>4 DEF Follows, RecordsAgree, MovesTo, Exists, Final
<1>3. ASSUME NEW t \in TaskIds, ~(t \in ExpiredRunning(s) /\ ~MayRetry(s, t))
      PROVE  u.tasks[t] = s.tasks[t] /\ u.assignments[t] = s.assignments[t]
  BY <1>1, <1>3 DEF EndExpiredAttempts, RuntimeState
<1>4. \A t \in ExpiredRunning(s) : t \in TaskIds /\ s.tasks[t].status = "in_progress"
  BY DEF ExpiredRunning
<1> HIDE DEF u
<1>5. ASSUME NEW t \in TaskIds, ~(t \in ExpiredRunning(s) /\ ~MayRetry(s, t))
      PROVE  RecordsAgree(u.tasks[t], u.assignments[t]) /\ MovesTo(s, u, t)
  BY <1>3, <1>5 DEF Follows, MovesTo, Exists
<1>6. Follows(u) /\ Advances(s, u) BY <1>2, <1>5 DEF Follows, Advances
<1> QED BY <1>3, <1>4, <1>6 DEF u

(* Tasks whose attempt expired fail or are queued again. *)
LEMMA ReconcileExpiredAttemptsMoves ==
    ASSUME NEW s, Sound(s), Follows(s)
    PROVE  LET u == ReconcileExpiredAttempts(s)
           IN Sound(u) /\ Follows(u) /\ Advances(s, u)
<1> DEFINE ended == EndExpiredAttempts(s)
           T == {t \in ExpiredRunning(s) : MayRetry(s, t)}
<1>1. Sound(ended) BY EndExpiredAttemptsSound
<1>2. Follows(ended) /\ Advances(s, ended) /\ \A t \in T : ended.tasks[t].status = "in_progress"
  BY EndExpiredAttemptsMoves
<1>3. T \in SUBSET TaskIds BY DEF ExpiredRunning
<1>4. ReconcileExpiredAttempts(s) = RequeueTasks(ended, T) BY DEF ReconcileExpiredAttempts
<1> HIDE DEF ended, T
<1>5. Sound(RequeueTasks(ended, T)) BY <1>1, RequeueTasksSound
<1>6. Follows(RequeueTasks(ended, T)) /\ Advances(ended, RequeueTasks(ended, T))
  BY <1>1, <1>2, <1>3, RequeueTasksMoves
<1> QED BY <1>1, <1>2, <1>4, <1>5, <1>6, AdvancesTransitive

(* Tasks of lost workers are queued again. *)
LEMMA ReconcileWorkersMoves ==
    ASSUME NEW s, Sound(s), Follows(s)
    PROVE  LET u == ReconcileWorkers(s)
           IN Sound(u) /\ Follows(u) /\ Advances(s, u)
<1> DEFINE offline == GoOffline(s)
           T == {s.workers[w].currentTask : w \in LostWorkers(s)}
<1>1. Sound(offline) BY GoOfflineSound
<1>2. KeepsTasks(s, offline) BY DEF GoOffline, KeepsTasks, Sound, RuntimeState
<1>3. Follows(offline) /\ Advances(s, offline) BY <1>2, KeptTasks
<1>4. \A w \in LostWorkers(s) : /\ s.workers[w].currentTask \in TaskIds
                                /\ s.tasks[s.workers[w].currentTask].status = "assigned"
  BY DEF LostWorkers, LostBeforeClaim, TimedOutBeforeClaim, BoundUnstarted, Sound, RuntimeState, Worker
<1>5. T \in SUBSET TaskIds /\ \A t \in T : offline.tasks[t].status = "assigned"
  BY <1>2, <1>4 DEF KeepsTasks
<1>6. ReconcileWorkers(s) = RequeueTasks(offline, T) BY DEF ReconcileWorkers
<1> HIDE DEF offline, T
<1>7. Sound(RequeueTasks(offline, T)) BY <1>1, RequeueTasksSound
<1>8. Follows(RequeueTasks(offline, T)) /\ Advances(offline, RequeueTasks(offline, T))
  BY <1>1, <1>3, <1>5, RequeueTasksMoves
<1> QED BY <1>1, <1>3, <1>6, <1>7, <1>8, AdvancesTransitive

(* A planned task is unlocked behind its merged dependencies. *)
LEMMA UnlockPlannedMoves ==
    ASSUME NEW s, Sound(s), Follows(s)
    PROVE  LET u == UnlockPlanned(s)
           IN Sound(u) /\ Follows(u) /\ Advances(s, u)
<1> DEFINE u == UnlockPlanned(s)
           unlocked == {t \in TaskIds : /\ s.tasks[t].status = "planned"
                                        /\ s.tasks[t].input.deps # {}
                                        /\ Merged(s, s.tasks[t].input.deps)}
<1>1. s.tasks \in [TaskIds -> Task] /\ s.assignments \in [TaskIds -> Assignment]
      /\ s \in RuntimeState
  BY DEF Sound, RuntimeState
<1>2. ASSUME NEW t \in TaskIds, t \in unlocked
      PROVE  /\ u.tasks[t].status = "ready" /\ u.tasks[t].worker = None
             /\ u.tasks[t].input = s.tasks[t].input
             /\ u.assignments[t].worker = None /\ u.assignments[t].status = "pending"
  <2>1. u.tasks[t] = [s.tasks[t] EXCEPT !.status = "ready", !.worker = None]
        /\ u.assignments[t] = Unassigned(s.assignments[t])
    BY <1>1, <1>2 DEF UnlockPlanned, RuntimeState
  <2>2. s.tasks[t] \in Task /\ s.assignments[t] \in Assignment BY <1>1
  <2> HIDE DEF u
  <2> QED BY <2>1, <2>2 DEF Task, Assignment, Unassigned
<1>3. ASSUME NEW t \in TaskIds, t \notin unlocked
      PROVE  u.tasks[t] = s.tasks[t] /\ u.assignments[t] = s.assignments[t]
  BY <1>1, <1>3 DEF UnlockPlanned, RuntimeState
<1> HIDE DEF u
<1>4. ASSUME NEW t \in TaskIds, s.tasks[t].status = "merged" PROVE u.tasks[t].status = "merged"
  BY <1>3, <1>4
<1>5. ASSUME NEW t \in TaskIds, t \in unlocked
      PROVE  RecordsAgree(u.tasks[t], u.assignments[t]) /\ MovesTo(s, u, t)
  <2>1. Merged(u, s.tasks[t].input.deps) BY <1>4, <1>5, DepsType DEF Merged
  <2>2. s.tasks[t].status = "planned" BY <1>5
  <2> QED BY <1>2, <1>5, <2>1, <2>2 DEF RecordsAgree, MovesTo, Exists, Final
<1>6. ASSUME NEW t \in TaskIds, t \notin unlocked
      PROVE  RecordsAgree(u.tasks[t], u.assignments[t]) /\ MovesTo(s, u, t)
  BY <1>3, <1>6 DEF Follows, MovesTo, Exists
<1>7. Follows(u) /\ Advances(s, u) BY <1>5, <1>6 DEF Follows, Advances
<1> QED BY <1>7, UnlockPlannedSound DEF u

(* reconcileRuntimeState is its four parts. *)
LEMMA ReconcileMoves ==
    ASSUME NEW s, Sound(s), Follows(s)
    PROVE  LET u == Reconcile(s)
           IN Sound(u) /\ Follows(u) /\ Advances(s, u)
<1> DEFINE s1 == ReclaimLeases(s)
           s2 == ReconcileExpiredAttempts(s1)
           s3 == ReconcileWorkers(s2)
           s4 == UnlockPlanned(s3)
<1>1. Sound(s1) /\ KeepsTasks(s, s1) BY ReclaimLeasesSound, ReclaimKeepsTasks
<1>2. Follows(s1) /\ Advances(s, s1) BY <1>1, KeptTasks
<1> HIDE DEF s1
<1>3. Sound(s2) /\ Follows(s2) /\ Advances(s1, s2) BY <1>1, <1>2, ReconcileExpiredAttemptsMoves
<1> HIDE DEF s2
<1>4. Sound(s3) /\ Follows(s3) /\ Advances(s2, s3) BY <1>3, ReconcileWorkersMoves
<1> HIDE DEF s3
<1>5. Sound(s4) /\ Follows(s4) /\ Advances(s3, s4) BY <1>4, UnlockPlannedMoves
<1> HIDE DEF s4
<1>6. Advances(s, s2) BY <1>2, <1>3, AdvancesTransitive
<1>7. Advances(s, s3) BY <1>4, <1>6, AdvancesTransitive
<1>8. Advances(s, s4) BY <1>5, <1>7, AdvancesTransitive
<1> QED BY <1>5, <1>8 DEF Reconcile, s1, s2, s3, s4

-----------------------------------------------------------------------------
(* The functions that move one task *)

(* A status that both records get, while the task keeps its worker. *)
LEMMA SetStatusMoves ==
    ASSUME NEW s, Sound(s), Follows(s), NEW t \in TaskIds, Exists(s, t),
           s.tasks[t].status \notin Final, s.tasks[t].status # "planned",
           NEW status \in {"in_progress", "review", "merged", "blocked", "failed"},
           s.tasks[t].worker # None
    PROVE  LET u == SetStatus(s, t, status)
           IN Sound(u) /\ Follows(u) /\ Advances(s, u)
<1> DEFINE u == SetStatus(s, t, status)
<1>1. s.tasks \in [TaskIds -> Task] /\ s.assignments \in [TaskIds -> Assignment]
      /\ s \in RuntimeState
  BY DEF Sound, RuntimeState
<1>2. /\ u.tasks[t].status = status /\ u.tasks[t].worker = s.tasks[t].worker
      /\ u.tasks[t].input = s.tasks[t].input
      /\ u.assignments[t].worker = s.assignments[t].worker /\ u.assignments[t].status = status
  <2>1. u.tasks[t] = [s.tasks[t] EXCEPT !.status = status]
        /\ u.assignments[t] = [s.assignments[t] EXCEPT !.status = status, !.age = 0]
    BY <1>1 DEF SetStatus, RuntimeState
  <2>2. s.tasks[t] \in Task /\ s.assignments[t] \in Assignment BY <1>1
  <2> HIDE DEF u
  <2> QED BY <2>1, <2>2 DEF Task, Assignment
<1>3. \A v \in TaskIds \ {t} : u.tasks[v] = s.tasks[v] /\ u.assignments[v] = s.assignments[v]
  BY <1>1 DEF SetStatus, RuntimeState
<1>4. Sound(u) BY SetStatusSound
<1> HIDE DEF u
<1>5. RecordsAgree(u.tasks[t], u.assignments[t]) /\ MovesTo(s, u, t)
  BY <1>2 DEF Follows, RecordsAgree, MovesTo, Exists
<1>6. \A v \in TaskIds \ {t} : RecordsAgree(u.tasks[v], u.assignments[v]) /\ MovesTo(s, u, v)
  BY <1>3 DEF Follows, MovesTo, Exists
<1>7. Follows(u) /\ Advances(s, u) BY <1>5, <1>6 DEF Follows, Advances
<1> QED BY <1>4, <1>7 DEF u

(* cancelTask cancels planned tasks too. *)
LEMMA CancelTaskMoves ==
    ASSUME NEW s, Sound(s), Follows(s), NEW t \in TaskIds, MayCancel(s, t)
    PROVE  Follows(CancelTask(s, t)) /\ Advances(s, CancelTask(s, t))
<1> DEFINE freed == ReleaseWorkers(s, t)
           set == SetStatus(freed, t, "cancelled")
           released == ReleaseOwnTaskLeases(set, t)
           u == CancelTask(s, t)
<1>1. Sound(freed) /\ KeepsTasks(s, freed) BY ReleaseWorkersSound, OthersKeepTasks
<1>2. Sound(set) BY <1>1, SetStatusSound
<1>3. Sound(released) /\ KeepsTasks(set, released)
  BY <1>2, ReleaseOwnTaskLeasesSound, OthersKeepTasks
<1>4. KeepsTasks(released, u) BY <1>3, OthersKeepTasks DEF CancelTask
<1>5. u.tasks = set.tasks /\ u.assignments = set.assignments BY <1>3, <1>4 DEF KeepsTasks
<1>6. set.tasks = [s.tasks EXCEPT ![t].status = "cancelled"]
      /\ set.assignments = [s.assignments EXCEPT ![t].status = "cancelled", ![t].age = 0]
  BY <1>1 DEF SetStatus, KeepsTasks, Sound, RuntimeState
<1> HIDE DEF freed, set, released, u
<1>7. s.tasks \in [TaskIds -> Task] /\ s.assignments \in [TaskIds -> Assignment]
  BY DEF Sound, RuntimeState
<1>8. /\ u.tasks[t].status = "cancelled" /\ u.tasks[t].worker = s.tasks[t].worker
      /\ u.tasks[t].input = s.tasks[t].input
      /\ u.assignments[t].worker = s.assignments[t].worker
      /\ u.assignments[t].status = "cancelled"
  BY <1>5, <1>6, <1>7 DEF Task, Assignment
<1>9. \A v \in TaskIds \ {t} : u.tasks[v] = s.tasks[v] /\ u.assignments[v] = s.assignments[v]
  BY <1>5, <1>6, <1>7
<1>10. RecordsAgree(u.tasks[t], u.assignments[t]) /\ MovesTo(s, u, t)
  BY <1>8 DEF Follows, RecordsAgree, MovesTo, Exists, Final, MayCancel
<1>11. \A v \in TaskIds \ {t} : RecordsAgree(u.tasks[v], u.assignments[v]) /\ MovesTo(s, u, v)
  BY <1>9 DEF Follows, MovesTo, Exists
<1> QED BY <1>10, <1>11 DEF Follows, Advances, u

(* A task that waits for input has no worker. *)
LEMMA InterruptTaskMoves ==
    ASSUME NEW s, Sound(s), Follows(s), NEW t \in TaskIds, MayInterrupt(s, t),
           NEW inputTtl \in 0..NoExpiry
    PROVE  Follows(InterruptTask(s, t, inputTtl)) /\ Advances(s, InterruptTask(s, t, inputTtl))
<1> DEFINE freed == ReleaseWorkers(s, t)
           set == SetStatus(freed, t, "waiting_for_input")
           u == InterruptTask(s, t, inputTtl)
<1>1. Sound(freed) /\ KeepsTasks(s, freed) BY ReleaseWorkersSound, OthersKeepTasks
<1>2. Sound(set) BY <1>1, SetStatusSound
<1>3. set.tasks = [s.tasks EXCEPT ![t].status = "waiting_for_input"]
      /\ set.assignments = [s.assignments EXCEPT ![t].status = "waiting_for_input", ![t].age = 0]
  BY <1>1 DEF SetStatus, KeepsTasks, Sound, RuntimeState
<1>4. u.tasks = [set.tasks EXCEPT ![t] =
            [@ EXCEPT !.worker = None, !.inputTtl = inputTtl,
                      !.waitingAttempt = AttemptNoOrZero(s, t)]]
      /\ u.assignments = [set.assignments EXCEPT ![t].worker = None]
  <2> DEFINE waiting == [set EXCEPT
            !.tasks[t] = [@ EXCEPT !.worker = None, !.inputTtl = inputTtl,
                                   !.waitingAttempt = AttemptNoOrZero(s, t)],
            !.assignments[t].worker = None,
            !.leases = ReleaseOwnTaskLeases(s, t).leases]
  <2>1. u = WithActiveAttempt(waiting, t, [ActiveAttempt(s, t) EXCEPT !.status = "checkpointed"])
    BY DEF InterruptTask
  <2> HIDE DEF set
  <2>2. u.tasks = waiting.tasks /\ u.assignments = waiting.assignments
    BY <1>2, <2>1 DEF WithActiveAttempt, Sound, RuntimeState
  <2> QED BY <1>2, <2>2 DEF Sound, RuntimeState
<1> HIDE DEF freed, set, u
<1>5. s.tasks \in [TaskIds -> Task] /\ s.assignments \in [TaskIds -> Assignment]
  BY DEF Sound, RuntimeState
<1>6. /\ u.tasks[t].status = "waiting_for_input" /\ u.tasks[t].worker = None
      /\ u.tasks[t].input = s.tasks[t].input
      /\ u.assignments[t].worker = None /\ u.assignments[t].status = "waiting_for_input"
  BY <1>3, <1>4, <1>5 DEF Task, Assignment
<1>7. \A v \in TaskIds \ {t} : u.tasks[v] = s.tasks[v] /\ u.assignments[v] = s.assignments[v]
  BY <1>3, <1>4, <1>5
<1>8. RecordsAgree(u.tasks[t], u.assignments[t]) /\ MovesTo(s, u, t)
  BY <1>6 DEF RecordsAgree, MovesTo, Exists, Final, MayInterrupt
<1>9. \A v \in TaskIds \ {t} : RecordsAgree(u.tasks[v], u.assignments[v]) /\ MovesTo(s, u, v)
  BY <1>7 DEF Follows, MovesTo, Exists
<1> QED BY <1>8, <1>9 DEF Follows, Advances, u

(* A resumed task is queued, with its assignment. *)
LEMMA ResumeTaskMoves ==
    ASSUME NEW s, Sound(s), Follows(s), NEW t \in TaskIds, MayResume(s, t)
    PROVE  Follows(ResumeTask(s, t)) /\ Advances(s, ResumeTask(s, t))
<1> DEFINE u == ResumeTask(s, t)
<1>1. s.tasks \in [TaskIds -> Task] /\ s.assignments \in [TaskIds -> Assignment]
      /\ s \in RuntimeState
  BY DEF Sound, RuntimeState
<1>2. /\ u.tasks[t].status = "ready" /\ u.tasks[t].worker = None
      /\ u.tasks[t].input = s.tasks[t].input
      /\ u.assignments[t].worker = None /\ u.assignments[t].status = "pending"
  <2>1. u.tasks[t] = [s.tasks[t] EXCEPT !.status = "ready", !.worker = None,
                                        !.waitingAttempt = 0, !.inputTtl = 0]
        /\ u.assignments[t] = Unassigned(s.assignments[t])
    BY <1>1 DEF ResumeTask, RuntimeState
  <2>2. s.tasks[t] \in Task /\ s.assignments[t] \in Assignment BY <1>1
  <2> HIDE DEF u
  <2> QED BY <2>1, <2>2 DEF Task, Assignment, Unassigned
<1>3. \A v \in TaskIds \ {t} : u.tasks[v] = s.tasks[v] /\ u.assignments[v] = s.assignments[v]
  BY <1>1 DEF ResumeTask, RuntimeState
<1> HIDE DEF u
<1>4. RecordsAgree(u.tasks[t], u.assignments[t]) /\ MovesTo(s, u, t)
  BY <1>2 DEF RecordsAgree, MovesTo, Exists, Final, MayResume
<1>5. \A v \in TaskIds \ {t} : RecordsAgree(u.tasks[v], u.assignments[v]) /\ MovesTo(s, u, v)
  BY <1>3 DEF Follows, MovesTo, Exists
<1> QED BY <1>4, <1>5 DEF Follows, Advances, u

-----------------------------------------------------------------------------
(* Claim, start, result, review *)

(* Who has the task, and its status, are as before. *)
KeepsRecords(s, u) ==
    /\ u.tasks = s.tasks
    /\ \A t \in TaskIds : /\ u.assignments[t].worker = s.assignments[t].worker
                          /\ u.assignments[t].status = s.assignments[t].status

(* The agreement is one of the records only. *)
LEMMA KeptRecords ==
    ASSUME NEW s, NEW u, Follows(s), KeepsRecords(s, u)
    PROVE  Follows(u) /\ Advances(s, u)
BY DEF KeepsRecords, Follows, RecordsAgree, Advances, MovesTo, Exists

(* Leases and attempt of a claim are not tasks. *)
LEMMA TakeTaskKeepsTasks ==
    ASSUME NEW s, Sound(s), NEW t \in TaskIds, NEW w \in Workers
    PROVE  KeepsTasks(s, TakeTask(s, t, w))
<1> DEFINE acquired == AcquireTaskLeases(s, t, w)
<1>1. Sound(acquired) /\ KeepsTasks(s, acquired) BY TaskLeasesSound, OthersKeepTasks
<1>2. TakeTask(s, t, w) = CreateOrReuseTaskAttempt(acquired, t, w) BY DEF TakeTask
<1> HIDE DEF acquired
<1>3. KeepsTasks(acquired, CreateOrReuseTaskAttempt(acquired, t, w))
  <2>1. CASE HasActiveAttempt(acquired, t)
    BY <1>1, <2>1, OthersKeepTasks DEF CreateOrReuseTaskAttempt
  <2>2. CASE ~HasActiveAttempt(acquired, t)
    BY <1>1, <2>2 DEF CreateOrReuseTaskAttempt, KeepsTasks, Sound, RuntimeState
  <2> QED BY <2>1, <2>2
<1> QED BY <1>1, <1>2, <1>3 DEF KeepsTasks

(* A claim that finds the worker's own task changes neither record's status. *)
LEMMA ClaimBoundMoves ==
    ASSUME NEW s, Sound(s), Follows(s), NEW t \in TaskIds, NEW w \in Workers
    PROVE  Follows(ClaimBound(s, t, w)) /\ Advances(s, ClaimBound(s, t, w))
<1> DEFINE u == TakeTask(s, t, w)
<1>1. u \in RuntimeState /\ KeepsTasks(s, u) BY TakeTaskType, TakeTaskKeepsTasks
<1>2. CASE LeaseConflicts(s, t, w) # {}
  BY <1>2, OthersKeepTasks, KeptTasks DEF ClaimBound
<1>3. CASE LeaseConflicts(s, t, w) = {}
  <2> DEFINE claimed == \/ u.assignments[t].claimed
                        \/ s.tasks[t].status = "assigned" /\ s.assignments[t].status = "assigned"
             record == [u.assignments[t] EXCEPT !.claimed = claimed]
             v == [u EXCEPT !.assignments[t] = record]
  <2>1. ClaimBound(s, t, w) = v BY <1>3 DEF ClaimBound
  <2> HIDE DEF u, claimed
  <2>2. u.assignments[t] \in Assignment BY <1>1 DEF RuntimeState
  <2>3. record.worker = u.assignments[t].worker /\ record.status = u.assignments[t].status
    BY <2>2 DEF Assignment
  <2> HIDE DEF record
  <2>4. KeepsRecords(s, v) BY <1>1, <2>3 DEF KeepsRecords, KeepsTasks, RuntimeState
  <2> QED BY <2>1, <2>4, KeptRecords
<1> QED BY <1>2, <1>3

(* A claim of a task that was assigned before leaves both records so. *)
LEMMA ClaimPreAssignedMoves ==
    ASSUME NEW s, Sound(s), Follows(s), NEW t \in TaskIds, NEW w \in Workers
    PROVE  Follows(ClaimPreAssigned(s, t, w)) /\ Advances(s, ClaimPreAssigned(s, t, w))
<1> DEFINE u == TakeTask(s, t, w)
<1>1. u \in RuntimeState /\ KeepsTasks(s, u) BY TakeTaskType, TakeTaskKeepsTasks
<1>2. CASE LeaseConflicts(s, t, w) # {}
  BY <1>2, OthersKeepTasks, KeptTasks DEF ClaimPreAssigned
<1>3. CASE LeaseConflicts(s, t, w) = {}
  <2> DEFINE record == [u.assignments[t] EXCEPT !.claimed = TRUE]
             x == Busy(u.workers[w], t)
             v == [u EXCEPT !.assignments[t] = record, !.workers[w] = x]
  <2>1. ClaimPreAssigned(s, t, w) = v BY <1>3 DEF ClaimPreAssigned
  <2> HIDE DEF u
  <2>2. u.assignments[t] \in Assignment BY <1>1 DEF RuntimeState
  <2>3. record.worker = u.assignments[t].worker /\ record.status = u.assignments[t].status
    BY <2>2 DEF Assignment
  <2> HIDE DEF record, x
  <2>4. KeepsRecords(s, v) BY <1>1, <2>3 DEF KeepsRecords, KeepsTasks, RuntimeState
  <2> QED BY <2>1, <2>4, KeptRecords
<1> QED BY <1>2, <1>3

(* A claim that selects a ready task writes the worker into both records. *)
LEMMA ClaimReadyMoves ==
    ASSUME NEW s, Sound(s), Follows(s), NEW t \in TaskIds, NEW w \in Workers,
           s.tasks[t].status = "ready"
    PROVE  Follows(ClaimReady(s, t, w)) /\ Advances(s, ClaimReady(s, t, w))
<1> DEFINE took == TakeTask(s, t, w)
           u == ClaimReady(s, t, w)
<1>1. took \in RuntimeState /\ KeepsTasks(s, took) BY TakeTaskType, TakeTaskKeepsTasks
<1>2. CASE LeaseConflicts(s, t, w) # {}
  BY <1>2, OthersKeepTasks, KeptTasks DEF ClaimReady
<1>3. CASE LeaseConflicts(s, t, w) = {}
  <2> DEFINE task == [s.tasks[t] EXCEPT !.status = "assigned", !.worker = w, !.lastWorker = w]
  <2>1. u.tasks = [s.tasks EXCEPT ![t] = task]
        /\ u.assignments = [s.assignments EXCEPT ![t] = AssignedTo(w)]
    <3> HIDE DEF took
    <3>1. u = [took EXCEPT
                !.tasks[t] = [@ EXCEPT !.status = "assigned", !.worker = w, !.lastWorker = w],
                !.assignments[t] = AssignedTo(w), !.workers[w] = Busy(@, t)]
      BY <1>3 DEF ClaimReady, took
    <3> HIDE DEF u
    <3> QED BY <1>1, <3>1 DEF KeepsTasks, RuntimeState
  <2> HIDE DEF u
  <2>2. s.tasks \in [TaskIds -> Task] /\ s.assignments \in [TaskIds -> Assignment]
    BY DEF Sound, RuntimeState
  <2>3. task.status = "assigned" /\ task.worker = w /\ task.input = s.tasks[t].input
    BY <2>2 DEF Task
  <2> HIDE DEF task
  <2>4. u.tasks[t] = task /\ u.assignments[t] = AssignedTo(w) BY <2>1, <2>2
  <2>5. w # None BY LeasesAssumption
  <2>6. RecordsAgree(u.tasks[t], u.assignments[t]) /\ MovesTo(s, u, t)
    BY <2>3, <2>4, <2>5 DEF RecordsAgree, AssignedTo, MovesTo, Exists, Final
  <2>7. \A v \in TaskIds \ {t} : RecordsAgree(u.tasks[v], u.assignments[v]) /\ MovesTo(s, u, v)
    BY <2>1, <2>2 DEF Follows, MovesTo, Exists
  <2> QED BY <2>6, <2>7 DEF Follows, Advances, u
<1> QED BY <1>2, <1>3

(* claimAssignedTaskForWorker, whichever of the branches it takes. *)
LEMMA ClaimAssignedTaskMoves ==
    ASSUME NEW s, Sound(s), Follows(s), NEW w \in Workers
    PROVE  Follows(ClaimAssignedTask(s, w)) /\ Advances(s, ClaimAssignedTask(s, w))
<1> DEFINE reconciled == Reconcile(s)
           u == Revive(s, reconciled, w)
           claimed == ClaimOnceReconciled(u, w)
<1>1. Sound(reconciled) /\ Follows(reconciled) /\ Advances(s, reconciled) BY ReconcileMoves
<1>2. ClaimAssignedTask(s, w) = IF reconciled.workers[w].disabled THEN reconciled ELSE claimed
  BY DEF ClaimAssignedTask
<1> HIDE DEF reconciled
<1>3. Sound(u) /\ KeepsTasks(reconciled, u)
  <2>1. reconciled.workers[w] \in Worker BY <1>1 DEF Sound, RuntimeState
  <2>2. [reconciled.workers[w] EXCEPT !.status = "idle", !.age = 0] \in Worker
    BY <2>1, ConstantTypes DEF Worker
  <2>3. Sound(u) BY <1>1, <2>2, WorkerSound DEF Revive
  <2>4. KeepsTasks(reconciled, u) BY <1>1 DEF Revive, KeepsTasks, Sound, RuntimeState
  <2> QED BY <2>3, <2>4
<1>4. Follows(u) /\ Advances(reconciled, u) BY <1>1, <1>3, KeptTasks
<1> HIDE DEF u
<1>5. BoundTask(u, w) # NoTask => BoundTask(u, w) \in TaskIds
  BY <1>3 DEF BoundTask, Sound, RuntimeState, Worker
<1>6. PreAssigned(u, w) # {} => FirstOf(PreAssigned(u, w)) \in TaskIds
  BY FirstIsLeast, ConstantTypes DEF PreAssigned
<1>7. Claimable(u, w) # {} => /\ FirstOf(Claimable(u, w)) \in TaskIds
                              /\ u.tasks[FirstOf(Claimable(u, w))].status = "ready"
  <2>1. Claimable(u, w) \in SUBSET Nat BY ConstantTypes DEF Claimable
  <2>2. \A t \in Claimable(u, w) : t \in TaskIds /\ u.tasks[t].status = "ready"
    BY DEF Claimable
  <2> QED BY <2>1, <2>2, FirstIsLeast
<1>8. Advances(u, u) BY <1>4, KeptTasks DEF KeepsTasks
<1>9. Follows(claimed) /\ Advances(u, claimed)
  BY <1>3, <1>4, <1>5, <1>6, <1>7, <1>8, ClaimBoundMoves, ClaimPreAssignedMoves, ClaimReadyMoves
  DEF ClaimOnceReconciled
<1> HIDE DEF claimed
<1>10. Advances(s, u) BY <1>1, <1>4, AdvancesTransitive
<1>11. Advances(s, claimed) BY <1>9, <1>10, AdvancesTransitive
<1> QED BY <1>1, <1>2, <1>9, <1>11

(* A start moves both records to in_progress. *)
LEMMA BeginTaskMoves ==
    ASSUME NEW s, Sound(s), Follows(s), NEW t \in TaskIds, NEW w \in Workers, NEW i,
           MayBegin(s, w, t, i)
    PROVE  Follows(BeginTask(s, w, t)) /\ Advances(s, BeginTask(s, w, t))
<1> DEFINE acquired == AcquireTaskLeases(s, t, w)
           attempt == [ActiveAttempt(s, t) EXCEPT !.status = "running", !.ttl = LeaseTTL]
           running == WithActiveAttempt(acquired, t, attempt)
           started == SetStatus(running, t, "in_progress")
           record == [started.assignments[t] EXCEPT !.claimed = TRUE]
           u == [started EXCEPT !.assignments[t] = record,
                                !.workers[w] = Busy(started.workers[w], t)]
<1>1. HasActiveAttempt(s, t) /\ s.tasks[t].status = "assigned" /\ s.tasks[t].worker # None
  BY LeasesAssumption DEF MayBegin, OwnsActiveAttempt
<1>2. attempt \in Attempt BY <1>1, ActiveAttemptType, ConstantTypes DEF Sound, Attempt
<1>3. BeginTask(s, w, t) = u BY DEF BeginTask
<1> HIDE DEF attempt
<1>4. Sound(acquired) /\ KeepsTasks(s, acquired) BY TaskLeasesSound, OthersKeepTasks
<1> HIDE DEF acquired
<1>5. Sound(running) /\ KeepsTasks(acquired, running)
  BY <1>2, <1>4, WithActiveAttemptSound, OthersKeepTasks
<1> HIDE DEF running
<1>6. KeepsTasks(s, running) BY <1>4, <1>5 DEF KeepsTasks
<1>7. Follows(running) /\ Advances(s, running) BY <1>6, KeptTasks
<1>8. running.tasks[t].status = "assigned" /\ running.tasks[t].worker # None
  BY <1>1, <1>6 DEF KeepsTasks
<1>9. Sound(started) /\ Follows(started) /\ Advances(running, started)
  BY <1>5, <1>7, <1>8, SetStatusMoves DEF Exists, Final
<1> HIDE DEF started
<1>10. started.assignments[t] \in Assignment BY <1>9 DEF Sound, RuntimeState
<1>11. record.worker = started.assignments[t].worker /\ record.status = started.assignments[t].status
  BY <1>10 DEF Assignment
<1> HIDE DEF record
<1>12. KeepsRecords(started, u) BY <1>9, <1>11 DEF KeepsRecords, Sound, RuntimeState
<1>13. Follows(u) /\ Advances(started, u) BY <1>9, <1>12, KeptRecords
<1> HIDE DEF u
<1>14. Advances(s, started) BY <1>7, <1>9, AdvancesTransitive
<1> QED BY <1>3, <1>13, <1>14, AdvancesTransitive

(* A result moves both records to review or failed. *)
LEMMA RecordResultMoves ==
    ASSUME NEW s, Sound(s), Follows(s), NEW t \in TaskIds, NEW w \in Workers, NEW i,
           MayRecordResult(s, w, t, i),
           NEW outcome \in {"passed", "recoverable", "unrecoverable"}
    PROVE  Follows(RecordResult(s, w, t, outcome)) /\ Advances(s, RecordResult(s, w, t, outcome))
<1> DEFINE passed == outcome = "passed"
           status == IF passed THEN "review" ELSE "failed"
           set == SetStatus(s, t, status)
           review == [set.reviews[t] EXCEPT !.decision = "pending",
                                            !.material = IF passed THEN ActiveNo(s, t) ELSE 0,
                                            !.result = outcome]
           recorded == [set EXCEPT !.workers[w] = Freed(set.workers[w]), !.reviews[t] = review]
           ended == EndAttempt(recorded, t, IF passed THEN "succeeded" ELSE "failed")
           u == ReleaseTaskLeases(ended, t, w)
<1>1. /\ s.tasks[t].status \in {"assigned", "in_progress"} /\ s.tasks[t].worker # None
      /\ HasActiveAttempt(s, t)
  BY LeasesAssumption DEF MayRecordResult, OwnsActiveAttempt
<1>2. RecordResult(s, w, t, outcome) = u BY DEF RecordResult
<1>3. Sound(set) /\ Follows(set) /\ Advances(s, set)
  <2>1. status \in {"review", "failed"} OBVIOUS
  <2> HIDE DEF status
  <2> QED BY <1>1, <2>1, SetStatusMoves DEF Exists, Final
<1> HIDE DEF set, status, review
<1>4. set \in RuntimeState BY <1>3 DEF Sound
<1>5. recorded.tasks = set.tasks /\ recorded.assignments = set.assignments
  BY <1>4 DEF RuntimeState
<1>6. ended.tasks = recorded.tasks /\ ended.assignments = recorded.assignments
      /\ u.tasks = ended.tasks /\ u.assignments = ended.assignments
  <2>1. \A a : LET v == WithActiveAttempt(recorded, t, a)
               IN /\ v.tasks = recorded.tasks /\ v.assignments = recorded.assignments
                  /\ DOMAIN v = DOMAIN set
    BY <1>4 DEF WithActiveAttempt, RuntimeState
  <2> HIDE DEF recorded
  <2>2. /\ ended.tasks = recorded.tasks /\ ended.assignments = recorded.assignments
        /\ DOMAIN ended = DOMAIN set
    BY <2>1 DEF EndAttempt
  <2> HIDE DEF ended
  <2>3. DOMAIN set = {"workers", "tasks", "assignments", "taskAttempts", "leases", "reviews"}
    BY <1>4 DEF RuntimeState
  <2>4. u.tasks = ended.tasks /\ u.assignments = ended.assignments
    BY <2>2, <2>3 DEF ReleaseTaskLeases
  <2> QED BY <2>2, <2>4
<1> HIDE DEF recorded, ended, u
<1>7. KeepsTasks(set, u) BY <1>5, <1>6 DEF KeepsTasks
<1>8. Follows(u) /\ Advances(set, u) BY <1>3, <1>7, KeptTasks
<1> QED BY <1>2, <1>3, <1>8, AdvancesTransitive

(* A task under review has the worker that delivered it. *)
LEMMA DecideReviewMoves ==
    ASSUME NEW s, Sound(s), Follows(s), NEW t \in TaskIds, NEW i \in 1..AttemptBound,
           NEW decision \in {"merge", "block", "rework"}, NEW canRedrive \in BOOLEAN,
           MayDecide(s, t, i)
    PROVE  LET u == DecideReview(s, t, i, decision, canRedrive)
           IN Follows(u) /\ Advances(s, u)
<1> DEFINE status == IF decision = "merge" THEN "merged" ELSE "blocked"
           set == SetStatus(s, t, status)
           review == [set.reviews[t] EXCEPT !.decision = decision, !.reviewed = i,
                                            !.canRedrive = canRedrive]
           decided == [set EXCEPT !.reviews[t] = review]
           u == ReleaseOwnTaskLeases(decided, t)
<1>1. s.tasks[t].status = "review" /\ s.tasks[t].worker # None
  BY DEF MayDecide, Follows, RecordsAgree
<1>2. DecideReview(s, t, i, decision, canRedrive) = u BY DEF DecideReview
<1>3. Sound(set) /\ Follows(set) /\ Advances(s, set)
  <2>1. status \in {"merged", "blocked"} OBVIOUS
  <2> HIDE DEF status
  <2> QED BY <1>1, <2>1, SetStatusMoves DEF Exists, Final
<1> HIDE DEF set, status
<1>4. set.reviews[t] \in Review /\ i \in 0..AttemptBound
  BY <1>3, ConstantTypes DEF Sound, RuntimeState
<1>5. review \in Review BY <1>4 DEF Review
<1> HIDE DEF review
<1>6. Sound(decided) /\ KeepsTasks(set, decided)
  BY <1>3, <1>5 DEF Sound, RuntimeState, WithinBounds, KeepsTasks
<1> HIDE DEF decided
<1>7. KeepsTasks(decided, u) BY <1>6, OthersKeepTasks
<1>8. KeepsTasks(set, u) BY <1>6, <1>7 DEF KeepsTasks
<1>9. Follows(u) /\ Advances(set, u) BY <1>3, <1>8, KeptTasks
<1> HIDE DEF u
<1> QED BY <1>2, <1>3, <1>9, AdvancesTransitive

-----------------------------------------------------------------------------
(* A new task *)

(* Ids are given in the order of creation: the next one is free. *)
Dense(s) == \A t \in TaskIds : Exists(s, t) <=> t < NextTaskId(s)

(* A function that adds no task leaves the next id free. *)
LEMMA DenseKept ==
    ASSUME NEW s, NEW u, Dense(s), Advances(s, u)
    PROVE  Dense(u)
<1>1. \A t \in TaskIds : Exists(u, t) <=> Exists(s, t) BY DEF Advances, MovesTo
<1>2. {t \in TaskIds : Exists(u, t)} = {t \in TaskIds : Exists(s, t)} BY <1>1
<1>3. NextTaskId(u) = NextTaskId(s) BY <1>2 DEF NextTaskId
<1> QED BY <1>1, <1>3 DEF Dense

(* What DependenciesMergedFirst says of a state. *)
DepsFirst(s) ==
    \A t \in TaskIds : s.tasks[t].status \notin {"absent", "planned", "cancelled"} =>
        Merged(s, s.tasks[t].input.deps)

(* A function that advances tasks lets none overtake its dependencies. *)
LEMMA DepsFirstKept ==
    ASSUME NEW s, NEW u, Sound(s), DepsFirst(s), Advances(s, u)
    PROVE  DepsFirst(u)
<1> SUFFICES ASSUME NEW t \in TaskIds, u.tasks[t].status \notin {"absent", "planned", "cancelled"}
             PROVE  Merged(u, s.tasks[t].input.deps)
  BY DEF DepsFirst, Advances, MovesTo
<1>1. MovesTo(s, u, t) BY DEF Advances
<1>2. CASE s.tasks[t].status = "planned" BY <1>1, <1>2 DEF MovesTo
<1>3. CASE s.tasks[t].status # "planned"
  <2>1. s.tasks[t].status \notin {"absent", "planned", "cancelled"}
    BY <1>1, <1>3 DEF MovesTo, Exists, Final
  <2> QED BY <2>1, DepsType, MergedStays DEF DepsFirst
<1> QED BY <1>2, <1>3

(* A task with dependencies is given to nobody when it is dispatched. *)
LEMMA DispatchTaskMoves ==
    ASSUME NEW began, NEW s, Sound(s), Follows(s), Dense(s), DepsFirst(s),
           NEW input \in TaskInput, NextTaskId(s) \in TaskIds,
           NEW u \in DispatchTask(began, s, input)
    PROVE  Follows(u) /\ Dense(u) /\ DepsFirst(u)
<1> DEFINE n == NextTaskId(s)
<1>1. PICK w \in Candidates(began, s, input) : u = AddTask(s, n, input, w) BY DEF DispatchTask
<1>2. w \in Workers \cup {None} BY CandidatesType
<1>3. input.deps # {} => w = None BY DEF Candidates
<1>4. n \in Nat \ {0} BY NextTaskIdType
<1>5. ~Exists(s, n) BY <1>4 DEF Dense
<1>6. s.tasks \in [TaskIds -> Task] /\ s.assignments \in [TaskIds -> Assignment]
      /\ s \in RuntimeState
  BY DEF Sound, RuntimeState
<1> DEFINE status == IF input.deps # {} THEN "planned" ELSE IF w = None THEN "ready" ELSE "assigned"
           record == IF w = None THEN Unassigned(s.assignments[n]) ELSE AssignedTo(w)
<1>7. /\ u.tasks[n].status = status /\ u.tasks[n].worker = w
      /\ u.tasks[n].input = [input EXCEPT !.target = TargetOf(s, input)]
      /\ u.assignments[n] = record
      /\ \A t \in TaskIds \ {n} : u.tasks[t] = s.tasks[t] /\ u.assignments[t] = s.assignments[t]
  <2> HIDE DEF n
  <2>1. n \in TaskIds BY DEF n
  <2> QED BY <1>1, <1>6, <2>1 DEF AddTask, RuntimeState
<1>8. u.tasks[n].input.deps = input.deps BY <1>7 DEF TaskInput
<1>9. u.assignments[n].worker = w /\ u.assignments[n].status = IF w = None THEN "pending" ELSE "assigned"
  <2>1. s.assignments[n] \in Assignment BY <1>6
  <2> QED BY <1>7, <2>1 DEF Unassigned, AssignedTo, Assignment
<1>10. \A t \in TaskIds : Exists(u, t) <=> Exists(s, t) \/ t = n
  <2> HIDE DEF n
  <2> QED BY <1>7 DEF Exists
<1>11. NextTaskId(u) = n + 1
  <2> DEFINE E(v) == {t \in TaskIds : Exists(v, t)}
  <2>1. E(u) = E(s) \cup {n} BY <1>10
  <2>2. n \notin E(s) BY <1>5
  <2>3. IsFiniteSet(E(s))
    <3>1. IsFiniteSet(TaskIds) BY ConstantTypes, FS_Interval DEF TaskIds
    <3> QED BY <3>1, FS_Subset
  <2>4. n = 1 + Cardinality(E(s)) /\ NextTaskId(u) = 1 + Cardinality(E(u)) BY DEF NextTaskId
  <2> HIDE DEF E, n
  <2>5. Cardinality(E(u)) = Cardinality(E(s)) + 1 BY <2>1, <2>2, <2>3, FS_AddElement
  <2>6. Cardinality(E(s)) \in Nat BY <2>3, FS_CardinalityType
  <2> QED BY <2>4, <2>5, <2>6
<1> HIDE DEF n, record
<1>12. Follows(u)
  <2>1. RecordsAgree(u.tasks[n], u.assignments[n]) BY <1>3, <1>7, <1>9 DEF RecordsAgree
  <2> QED BY <1>7, <2>1 DEF Follows
<1>13. Dense(u)
  <2>1. TaskIds \subseteq Nat BY ConstantTypes
  <2>2. \A t \in TaskIds : Exists(s, t) <=> t < n BY DEF Dense, n
  <2> QED BY <1>4, <1>10, <1>11, <2>1, <2>2 DEF Dense
<1>14. DepsFirst(u)
  <2>1. \A t \in TaskIds : s.tasks[t].status = "merged" => u.tasks[t].status = "merged"
    BY <1>5, <1>7 DEF Exists
  <2>2. \A T \in SUBSET TaskIds : Merged(s, T) => Merged(u, T) BY <2>1 DEF Merged
  <2>3. Merged(u, {}) BY DEF Merged
  <2>4. \A t \in TaskIds : s.tasks[t].input.deps \in SUBSET TaskIds BY DepsType
  <2> QED BY <1>7, <1>8, <2>2, <2>3, <2>4 DEF DepsFirst
<1> QED BY <1>12, <1>13, <1>14

(* createDispatch is one such dispatch after the other. *)
LEMMA CreateDispatchMoves ==
    ASSUME NEW s, Sound(s), Follows(s), Dense(s), DepsFirst(s), NEW d \in Dispatches,
           NextTaskId(s) + Len(d) - 1 \in TaskIds, NEW u \in CreateDispatch(s, d)
    PROVE  Follows(u) /\ Dense(u) /\ DepsFirst(u)
<1>1. d \in Seq(TaskInput) /\ Len(d) \in {1, 2} /\ \A i \in 1..Len(d) : d[i] \in TaskInput
  BY DispatcherAssumption, ElementOfSeq
<1>2. NextTaskId(s) \in Nat \ {0} BY NextTaskIdType
<1>3. TaskIds = 1..MaxTasks /\ MaxTasks \in Nat BY ConstantTypes DEF TaskIds
<1>4. NextTaskId(s) \in TaskIds
  <2> DEFINE n == NextTaskId(s)
             k == Len(d)
  <2>1. n \in Nat \ {0} /\ k \in {1, 2} /\ n + k - 1 \in TaskIds BY <1>1, <1>2
  <2> HIDE DEF n, k
  <2>2. n \in TaskIds BY <1>3, <2>1
  <2> QED BY <2>2 DEF n
<1>5. CASE Len(d) = 1
  <2>1. d[1] \in TaskInput BY <1>1, <1>5
  <2>2. u \in DispatchTask(s, s, d[1]) BY <1>5 DEF CreateDispatch
  <2> QED BY <1>4, <2>1, <2>2, DispatchTaskMoves
<1>6. CASE Len(d) = 2
  <2>1. d[1] \in TaskInput /\ d[2] \in TaskInput BY <1>1, <1>6
  <2>2. PICK first \in DispatchTask(s, s, d[1]) : u \in DispatchTask(s, first, d[2])
    BY <1>6 DEF CreateDispatch
  <2>3. Sound(first) /\ NextTaskId(first) \in 1..(NextTaskId(s) + 1)
    BY <1>4, <2>1, <2>2, DispatchTaskSound
  <2>4. NextTaskId(first) \in TaskIds BY <1>2, <1>3, <1>6, <2>3
  <2>5. Follows(first) /\ Dense(first) /\ DepsFirst(first)
    BY <1>4, <2>1, <2>2, DispatchTaskMoves
  <2> QED BY <2>1, <2>2, <2>3, <2>4, <2>5, DispatchTaskMoves
<1> QED BY <1>1, <1>5, <1>6

-----------------------------------------------------------------------------
(* The functions that write worker records *)

(* Registering, heartbeats, going offline, disabling: no task is touched. *)
LEMMA WorkerFunctionsKeepTasks ==
    ASSUME NEW s, Sound(s), NEW w \in Workers
    PROVE  /\ KeepsTasks(s, RegisterWorker(s, w))
           /\ KeepsTasks(s, HeartbeatWorker(s, w))
           /\ KeepsTasks(s, MarkWorkerOffline(s, w))
           /\ KeepsTasks(s, DisableWorker(s, w))
           /\ KeepsTasks(s, EnableWorker(s, w))
<1>1. s \in RuntimeState BY DEF Sound
<1>2. KeepsTasks(s, RegisterWorker(s, w)) BY <1>1 DEF KeepsTasks, RegisterWorker, RuntimeState
<1>3. KeepsTasks(s, DisableWorker(s, w)) BY <1>1 DEF KeepsTasks, DisableWorker, RuntimeState
<1>4. KeepsTasks(s, EnableWorker(s, w)) BY <1>1 DEF KeepsTasks, EnableWorker, RuntimeState
<1>5. KeepsTasks(s, MarkWorkerOffline(s, w))
  <2> DEFINE t == s.workers[w].currentTask
             released == IF t = NoTask THEN s ELSE ReleaseTaskLeases(s, t, w)
  <2>1. released.tasks = s.tasks /\ released.assignments = s.assignments
        /\ DOMAIN released = DOMAIN s
    BY <1>1 DEF ReleaseTaskLeases, RuntimeState
  <2>2. \A x : LET v == [released EXCEPT !.workers[w] = x]
               IN v.tasks = released.tasks /\ v.assignments = released.assignments
    <3> HIDE DEF released
    <3>1. DOMAIN s = {"workers", "tasks", "assignments", "taskAttempts", "leases", "reviews"}
      BY <1>1 DEF RuntimeState
    <3> QED BY <2>1, <3>1
  <2>3. MarkWorkerOffline(s, w) =
          [released EXCEPT !.workers[w] = [released.workers[w] EXCEPT !.status = "offline", !.age = 0]]
    BY <2>1, <1>1 DEF MarkWorkerOffline
  <2> HIDE DEF released
  <2> QED BY <2>1, <2>2, <2>3 DEF KeepsTasks
<1>6. KeepsTasks(s, HeartbeatWorker(s, w))
  <2> DEFINE t == s.workers[w].currentTask
             status == IF t # NoTask THEN "busy"
                       ELSE IF s.workers[w].status = "offline" THEN "idle" ELSE s.workers[w].status
             x == [s.workers[w] EXCEPT !.age = 0, !.status = status]
             beat == [s EXCEPT !.workers[w] = x]
             renewed == [beat EXCEPT !.leases = Acquire(beat.leases, ResourcesOf(beat, t), w)]
             attempt == [ActiveAttempt(beat, t) EXCEPT !.ttl = LeaseTTL]
  <2>1. HeartbeatWorker(s, w) = IF RenewsTask(beat, w) THEN Renew(beat, t, w) ELSE beat
    BY <1>1 DEF HeartbeatWorker, RuntimeState
  <2>2. beat.tasks = s.tasks /\ beat.assignments = s.assignments /\ DOMAIN beat = DOMAIN s
    BY <1>1 DEF RuntimeState
  <2>3. DOMAIN s = {"workers", "tasks", "assignments", "taskAttempts", "leases", "reviews"}
    BY <1>1 DEF RuntimeState
  <2> HIDE DEF x, beat
  <2>4. Renew(beat, t, w) = WithActiveAttempt(renewed, t, attempt) BY <2>2, <2>3 DEF Renew
  <2>5. renewed.tasks = s.tasks /\ renewed.assignments = s.assignments
        /\ DOMAIN renewed = DOMAIN s
    BY <2>2, <2>3
  <2> HIDE DEF renewed, attempt
  <2>6. LET v == WithActiveAttempt(renewed, t, attempt)
        IN v.tasks = s.tasks /\ v.assignments = s.assignments
    BY <2>3, <2>5 DEF WithActiveAttempt
  <2> QED BY <2>1, <2>2, <2>4, <2>6 DEF KeepsTasks
<1> QED BY <1>2, <1>3, <1>4, <1>5, <1>6

-----------------------------------------------------------------------------
(* The handlers *)

(* The inductive invariant.  Neither property is inductive by itself: a     *)
(* dispatch must not write over a merged dependency (Dense: the next id is  *)
(* free), and a reconciliation or a result reaches a task only through the  *)
(* worker both records name (Follows).                                      *)
Ordered(s) == Follows(s) /\ Dense(s) /\ DepsFirst(s)

TaskInv == TypeOK /\ Ordered(State)

(* The next state is the one the handler saved. *)
LEMMA SavedState ==
    ASSUME NEW s, Sound(s), Save(s)
    PROVE  State' = s
<1>1. s = [workers |-> s.workers, tasks |-> s.tasks, assignments |-> s.assignments,
           taskAttempts |-> s.taskAttempts, leases |-> s.leases, reviews |-> s.reviews]
  BY DEF Sound, RuntimeState
<1> QED BY <1>1 DEF Save, State

(* A handler that saves an ordered state establishes the invariant. *)
LEMMA SaveTaskInv ==
    ASSUME NEW s, Sound(s), Ordered(s), Save(s)
    PROVE  TaskInv'
<1>1. State' = s BY SavedState
<1>2. Ordered(State') BY <1>1
<1>3. Ordered(State)'
  BY <1>2 DEF Ordered, Follows, RecordsAgree, Dense, NextTaskId, Exists, DepsFirst, Merged
<1> QED BY <1>3, SaveTypeOK DEF TaskInv

(* A function that keeps the records in agreement keeps the order. *)
LEMMA AdvancesOrdered ==
    ASSUME NEW s, NEW u, Sound(s), Ordered(s), Follows(u), Advances(s, u)
    PROVE  Ordered(u)
BY DenseKept, DepsFirstKept DEF Ordered

(* So does the handler that saves what the function returns. *)
LEMMA SaveAdvances ==
    ASSUME TaskInv, NEW s, Sound(s), Follows(s), Advances(State, s), Save(s)
    PROVE  TaskInv' /\ Advances(State, State')
<1>1. Sound(State) /\ Ordered(State) BY StateSound DEF TaskInv
<1>2. Ordered(s) BY <1>1, AdvancesOrdered
<1> QED BY <1>2, SaveTaskInv, SavedState

(* A handler that writes worker records and reconciles. *)
LEMMA ReconcileAdvances ==
    ASSUME NEW s, NEW u, Sound(s), Ordered(s), Sound(u), KeepsTasks(s, u)
    PROVE  /\ Follows(u) /\ Advances(s, u)
           /\ Sound(Reconcile(u)) /\ Follows(Reconcile(u)) /\ Advances(s, Reconcile(u))
<1>1. Follows(u) /\ Advances(s, u) BY KeptTasks DEF Ordered
<1>2. Sound(Reconcile(u)) /\ Follows(Reconcile(u)) /\ Advances(u, Reconcile(u))
  BY <1>1, ReconcileMoves
<1> QED BY <1>1, <1>2, AdvancesTransitive

(* Every request of a worker keeps the invariant and adds no task. *)
LEMMA WorkerRequestAdvances ==
    ASSUME TaskInv, NEW w \in Workers, WorkerRequest(w)
    PROVE  TaskInv' /\ Advances(State, State')
<1> DEFINE Goal == TaskInv' /\ Advances(State, State')
<1>1. Sound(State) /\ Ordered(State) /\ Follows(State) BY StateSound DEF TaskInv, Ordered
<1>2. ASSUME Register(w) PROVE Goal
  BY <1>1, <1>2, RegisterWorkerSound, WorkerFunctionsKeepTasks, ReconcileAdvances, SaveAdvances
     DEF Register
<1>3. ASSUME Heartbeat(w) PROVE Goal
  BY <1>1, <1>3, HeartbeatWorkerSound, WorkerFunctionsKeepTasks, ReconcileAdvances, SaveAdvances
     DEF Heartbeat
<1>4. ASSUME Offline(w) PROVE Goal
  BY <1>1, <1>4, MarkWorkerOfflineSound, WorkerFunctionsKeepTasks, ReconcileAdvances, SaveAdvances
     DEF Offline
<1>5. ASSUME Claim(w) PROVE Goal
  <2>1. Sound(ClaimAssignedTask(State, w)) BY <1>1, <1>5, ClaimAssignedTaskType DEF Claim, Sound
  <2> QED BY <1>1, <1>5, <2>1, ClaimAssignedTaskMoves, SaveAdvances DEF Claim
<1>6. ASSUME NEW t \in TaskIds, NEW i \in DOMAIN taskAttempts[t], Start(w, t, i) PROVE Goal
  <2>1. MayBegin(State, w, t, i) /\ Save(BeginTask(State, w, t)) BY <1>6 DEF Start
  <2>2. Sound(BeginTask(State, w, t))
    BY <1>1, <2>1, BeginTaskSound DEF MayBegin, OwnsActiveAttempt
  <2> QED BY <1>1, <2>1, <2>2, BeginTaskMoves, SaveAdvances
<1>7. ASSUME NEW t \in TaskIds, NEW i \in DOMAIN taskAttempts[t],
             NEW outcome \in {"passed", "recoverable", "unrecoverable"}, Result(w, t, i, outcome)
      PROVE  Goal
  <2>1. MayRecordResult(State, w, t, i) /\ Save(RecordResult(State, w, t, outcome))
    BY <1>7 DEF Result
  <2>2. Sound(RecordResult(State, w, t, outcome))
    BY <1>1, <2>1, RecordResultSound DEF MayRecordResult, OwnsActiveAttempt
  <2> QED BY <1>1, <2>1, <2>2, RecordResultMoves, SaveAdvances
<1>8. ASSUME NEW t \in TaskIds, NEW i \in DOMAIN taskAttempts[t],
             NEW inputTtl \in {InputTTL, NoExpiry}, ResultAsksForInput(w, t, i, inputTtl)
      PROVE  Goal
  <2>1. MayRecordResult(State, w, t, i) /\ Save(InterruptTask(State, t, inputTtl))
    BY <1>8 DEF ResultAsksForInput
  <2>2. MayInterrupt(State, t) BY <2>1 DEF MayRecordResult, MayInterrupt
  <2>3. inputTtl \in 0..NoExpiry BY ConstantTypes
  <2>4. Sound(InterruptTask(State, t, inputTtl)) BY <1>1, <2>3, InterruptTaskSound
  <2> QED BY <1>1, <2>1, <2>2, <2>3, <2>4, InterruptTaskMoves, SaveAdvances
<1> QED BY <1>2, <1>3, <1>4, <1>5, <1>6, <1>7, <1>8 DEF WorkerRequest

(* So does every request of an operator that dispatches nothing. *)
LEMMA OperatorRequestAdvances ==
    ASSUME TaskInv, OperatorRequest
    PROVE  \/ TaskInv' /\ Advances(State, State')
           \/ \E d \in Dispatches : Dispatch(d)
           \/ \E t \in TaskIds : Redrive(t)
<1> DEFINE Goal == TaskInv' /\ Advances(State, State')
<1>1. Sound(State) /\ Ordered(State) /\ Follows(State) BY StateSound DEF TaskInv, Ordered
<1>2. ASSUME NEW w \in Workers, Disable(w) \/ Enable(w) PROVE Goal
  <2>1. CASE Disable(w)
    BY <1>1, <2>1, DisableWorkerSound, WorkerFunctionsKeepTasks, ReconcileAdvances, SaveAdvances
       DEF Disable
  <2>2. CASE Enable(w)
    BY <1>1, <2>2, DisableWorkerSound, WorkerFunctionsKeepTasks, ReconcileAdvances, SaveAdvances
       DEF Enable
  <2> QED BY <1>2, <2>1, <2>2
<1>3. ASSUME NEW t \in TaskIds, Resume(t) PROVE Goal
  <2>1. MayResume(State, t) /\ Save(ResumeTask(State, t)) BY <1>3 DEF Resume
  <2> QED BY <1>1, <2>1, ResumeTaskSound, ResumeTaskMoves, SaveAdvances
<1>4. ASSUME NEW t \in TaskIds, Cancel(t) PROVE Goal
  <2>1. MayCancel(State, t) /\ Save(CancelTask(State, t)) BY <1>4 DEF Cancel
  <2> QED BY <1>1, <2>1, CancelTaskSound, CancelTaskMoves, SaveAdvances
<1>5. ASSUME NEW t \in TaskIds, NEW inputTtl \in {InputTTL, NoExpiry}, Interrupt(t, inputTtl)
      PROVE  Goal
  <2>1. MayInterrupt(State, t) /\ Save(InterruptTask(State, t, inputTtl)) BY <1>5 DEF Interrupt
  <2>2. inputTtl \in 0..NoExpiry BY ConstantTypes
  <2>3. Sound(InterruptTask(State, t, inputTtl)) BY <1>1, <2>2, InterruptTaskSound
  <2> QED BY <1>1, <2>1, <2>2, <2>3, InterruptTaskMoves, SaveAdvances
<1>6. ASSUME NEW t \in TaskIds, NEW i \in 1..AttemptBound,
             NEW decision \in {"merge", "block", "rework"}, NEW canRedrive \in BOOLEAN,
             Decide(t, i, decision, canRedrive)
      PROVE  Goal
  <2> DEFINE u == DecideReview(State, t, i, decision, canRedrive)
  <2>1. MayDecide(State, t, i) /\ Save(u) BY <1>6 DEF Decide
  <2>2. Sound(u) BY <1>1, DecideReviewSound
  <2> QED BY <1>1, <2>1, <2>2, DecideReviewMoves, SaveAdvances
<1> QED BY <1>2, <1>3, <1>4, <1>5, <1>6 DEF OperatorRequest

(* A dispatch keeps the invariant. *)
LEMMA DispatchTaskInv ==
    ASSUME TaskInv, NEW d \in Dispatches, Dispatch(d)
    PROVE  TaskInv'
<1>1. Sound(State) /\ Ordered(State) BY StateSound DEF TaskInv
<1>2. NextTaskId(State) + Len(d) - 1 \in TaskIds BY DEF Dispatch
<1>3. PICK s \in CreateDispatch(State, d) : Save(s) BY DEF Dispatch
<1>4. Sound(s) BY <1>1, <1>2, CreateDispatchSound
<1>5. Ordered(s) BY <1>1, <1>2, CreateDispatchMoves DEF Ordered
<1> QED BY <1>3, <1>4, <1>5, SaveTaskInv

(* A redrive is a dispatch of the input of another task. *)
LEMMA RedriveTaskInv ==
    ASSUME TaskInv, NEW t \in TaskIds, Redrive(t)
    PROVE  TaskInv'
<1>1. Sound(State) /\ Ordered(State) BY StateSound DEF TaskInv
<1>2. NextTaskId(State) \in TaskIds /\ FreeRounds(State, State.tasks[t].input.branch) # {}
  BY DEF Redrive, State
<1>3. PICK s \in RedriveTask(State, t) : Save(s) BY DEF Redrive
<1>4. Sound(s) BY <1>1, <1>2, RedriveTaskSound
<1>5. RedriveInput(State, t) \in TaskInput BY <1>1, <1>2, RedriveInputType
<1>6. Ordered(s) BY <1>1, <1>2, <1>3, <1>5, DispatchTaskMoves DEF Ordered, RedriveTask
<1> QED BY <1>3, <1>4, <1>6, SaveTaskInv

(* Time changes ages and countdowns. *)
LEMMA TickAdvances ==
    ASSUME TaskInv, Tick
    PROVE  TaskInv' /\ Advances(State, State')
<1>1. tasks \in [TaskIds -> Task] /\ assignments \in [TaskIds -> Assignment]
  BY DEF TaskInv, TypeOK, State, RuntimeState
<1>2. ASSUME NEW t \in TaskIds
      PROVE  /\ tasks'[t].status = tasks[t].status /\ tasks'[t].worker = tasks[t].worker
             /\ tasks'[t].input = tasks[t].input
             /\ assignments'[t].worker = assignments[t].worker
             /\ assignments'[t].status = assignments[t].status
  <2>1. \A task \in Task : \A n : LET u == [task EXCEPT !.inputTtl = n]
                                  IN u.status = task.status /\ u.worker = task.worker
                                     /\ u.input = task.input
    BY DEF Task
  <2>2. \A a \in Assignment : AgeAssignment(a).worker = a.worker
                              /\ AgeAssignment(a).status = a.status
    BY DEF AgeAssignment, Assignment
  <2> DEFINE n == IF tasks[t].inputTtl = NoExpiry THEN NoExpiry ELSE CountDown(tasks[t].inputTtl)
  <2>3. tasks'[t] = [tasks[t] EXCEPT !.inputTtl = n] BY DEF Tick
  <2>4. assignments'[t] = AgeAssignment(assignments[t]) BY DEF Tick
  <2>5. tasks[t] \in Task /\ assignments[t] \in Assignment BY <1>1
  <2> HIDE DEF n
  <2> QED BY <2>1, <2>2, <2>3, <2>4, <2>5
<1>3. Follows(State)' /\ Advances(State, State')
  BY <1>2 DEF TaskInv, Ordered, Follows, RecordsAgree, Advances, MovesTo, Exists, State
<1>4. Follows(State') BY <1>3 DEF Follows, RecordsAgree
<1>5. Ordered(State') BY <1>3, <1>4, StateSound, AdvancesOrdered DEF TaskInv
<1>6. Ordered(State)'
  BY <1>5 DEF Ordered, Follows, RecordsAgree, Dense, NextTaskId, Exists, DepsFirst, Merged
<1> QED BY <1>3, <1>6, TickTypeOK DEF TaskInv

(* Every step advances the tasks there are, or dispatches. *)
LEMMA NextAdvances ==
    ASSUME TaskInv, [Next]_vars
    PROVE  \/ TaskInv' /\ Advances(State, State')
           \/ \E d \in Dispatches : Dispatch(d)
           \/ \E t \in TaskIds : Redrive(t)
<1>1. ASSUME NEW w \in Workers, WorkerRequest(w) PROVE TaskInv' /\ Advances(State, State')
  BY <1>1, WorkerRequestAdvances
<1>2. CASE OperatorRequest BY <1>2, OperatorRequestAdvances
<1>3. CASE GetAssignedTask
  <2>1. KeepsTasks(State, State) BY DEF KeepsTasks
  <2>2. Sound(State) /\ Ordered(State) BY StateSound DEF TaskInv
  <2> QED BY <1>3, <2>1, <2>2, ReconcileAdvances, SaveAdvances DEF GetAssignedTask
<1>4. CASE Tick BY <1>4, TickAdvances
<1>5. CASE UNCHANGED vars
  <2>1. State' = State BY <1>5 DEF vars, State
  <2>2. TypeOK' BY <1>5 DEF TaskInv, vars, TypeOK, State, WithinBounds
  <2>3. Ordered(State)'
    BY <2>1 DEF TaskInv, Ordered, Follows, RecordsAgree, Dense, NextTaskId, Exists, DepsFirst, Merged
  <2>4. Advances(State, State')
    <3>1. KeepsTasks(State, State') BY <2>1 DEF KeepsTasks
    <3> QED BY <3>1, KeptTasks, StateSound DEF TaskInv, Ordered
  <2> QED BY <2>2, <2>3, <2>4 DEF TaskInv
<1> QED BY <1>1, <1>2, <1>3, <1>4, <1>5 DEF Next

(* There are no tasks in the empty runtime state. *)
LEMMA InitTaskInv == Init => TaskInv
<1> SUFFICES ASSUME Init PROVE TaskInv OBVIOUS
<1>1. \A t \in TaskIds : State.tasks[t].status = "absent" BY DEF Init, State
<1>2. Follows(State) /\ DepsFirst(State) BY <1>1 DEF Follows, RecordsAgree, DepsFirst
<1>3. NextTaskId(State) = 1
  <2>1. {t \in TaskIds : Exists(State, t)} = {} BY <1>1 DEF Exists
  <2> QED BY <2>1, FS_EmptySet DEF NextTaskId
<1>4. Dense(State) BY <1>1, <1>3, ConstantTypes DEF Dense, Exists, TaskIds
<1> QED BY <1>2, <1>4, InitTypeOK DEF TaskInv, Ordered

-----------------------------------------------------------------------------
(* The theorems *)

(* The invariant is inductive. *)
LEMMA TaskInvHolds == Spec => []TaskInv
<1>1. TaskInv /\ [Next]_vars => TaskInv' BY NextAdvances, DispatchTaskInv, RedriveTaskInv
<1> QED BY InitTaskInv, <1>1, PTL DEF Spec

(* "Assignment state follows task state": after every handler, in every     *)
(* order, the two records of a task name the same worker and the same       *)
(* status.  The branches of claim, start and result that answer a           *)
(* disagreement of the two are never taken.                                 *)
THEOREM AssignmentFollowsTaskHolds == Spec => []AssignmentFollowsTask
<1>1. TaskInv => AssignmentFollowsTask
  BY DEF TaskInv, Ordered, Follows, RecordsAgree, AssignmentFollowsTask, Exists, State
<1> QED BY <1>1, TaskInvHolds, PTL

(* No task leaves the planned state, save to be cancelled, before all its   *)
(* dependencies are merged, and a merged task stays merged: what a task     *)
(* builds on is there whenever the task is worked on, retried, resumed or   *)
(* reviewed.                                                                *)
THEOREM DependenciesMergedFirstHolds == Spec => []DependenciesMergedFirst
<1>1. TaskInv => DependenciesMergedFirst
  BY DEF TaskInv, Ordered, DepsFirst, Merged, DependenciesMergedFirst, State
<1> QED BY <1>1, TaskInvHolds, PTL

-----------------------------------------------------------------------------
(* Redrives *)

IsRedrive(s, t) == s.tasks[t].input.redrive = TRUE

BranchOf(s, t) == s.tasks[t].input.branch

(* What the dispatch of a redrive leaves behind: a task is redriven once,   *)
(* on a branch that no task before the redrive was given.                   *)
RedrivesFresh(s) ==
    /\ \A t \in TaskIds : IsRedrive(s, t) => Exists(s, t)
    /\ \A t, u \in TaskIds : t # u /\ IsRedrive(s, t) /\ IsRedrive(s, u) =>
          s.tasks[t].input.continueFrom # s.tasks[u].input.continueFrom
    /\ \A t, u \in TaskIds : IsRedrive(s, t) /\ Exists(s, u) /\ u < t =>
          BranchOf(s, t) # BranchOf(s, u)

(* When clients name no branch the way redrives are named, the rounds tell  *)
(* redrives from the rest.                                                  *)
FirstRounds == \A d \in Dispatches : \A i \in DOMAIN d : d[i].branch[2] = 1

RoundsApart(s) ==
    \A t \in TaskIds : Exists(s, t) =>
        IF IsRedrive(s, t) THEN BranchOf(s, t)[2] > 1 ELSE BranchOf(s, t)[2] = 1

(* What a dispatch adds: one task, with the input it was given, but for the *)
(* target.                                                                  *)
AddsTask(s, u, n, input) ==
    /\ n \in TaskIds /\ Exists(u, n) /\ \A t \in TaskIds : Exists(s, t) => t < n
    /\ u.tasks[n].input.redrive = input.redrive /\ u.tasks[n].input.branch = input.branch
    /\ u.tasks[n].input.continueFrom = input.continueFrom
    /\ \A t \in TaskIds \ {n} : u.tasks[t] = s.tasks[t]

(* An input that may be dispatched: it redrives nothing, or what was not    *)
(* redriven before, on a free branch.                                       *)
FreshInput(s, input) ==
    input.redrive = TRUE =>
        /\ ~Redriven(s, input.continueFrom)
        /\ \A t \in TaskIds : Exists(s, t) => BranchOf(s, t) # input.branch

LEMMA DispatchTaskAdds ==
    ASSUME NEW began, NEW s, Sound(s), Dense(s), NEW input \in TaskInput,
           NextTaskId(s) \in TaskIds, NEW u \in DispatchTask(began, s, input)
    PROVE  AddsTask(s, u, NextTaskId(s), input)
<1> DEFINE n == NextTaskId(s)
<1>1. PICK w \in Candidates(began, s, input) : u = AddTask(s, n, input, w) BY DEF DispatchTask
<1>2. s.tasks \in [TaskIds -> Task] /\ s \in RuntimeState BY DEF Sound, RuntimeState
<1>3. \A t \in TaskIds : Exists(s, t) => t < n BY DEF Dense
<1>4. n \in TaskIds OBVIOUS
<1> HIDE DEF n
<1>5. /\ u.tasks[n].status \in {"planned", "ready", "assigned"}
      /\ u.tasks[n].input = [input EXCEPT !.target = TargetOf(s, input)]
      /\ \A t \in TaskIds \ {n} : u.tasks[t] = s.tasks[t]
  BY <1>1, <1>2, <1>4 DEF AddTask, RuntimeState
<1>6. \A target : LET i == [input EXCEPT !.target = target]
                  IN /\ i.redrive = input.redrive /\ i.branch = input.branch
                     /\ i.continueFrom = input.continueFrom
  BY DEF TaskInput
<1>7. Exists(u, n) BY <1>5 DEF Exists
<1> QED BY <1>3, <1>4, <1>5, <1>6, <1>7 DEF AddsTask, n

(* A task with a fresh input. *)
LEMMA AddsFresh ==
    ASSUME NEW s, NEW u, NEW n, NEW input, RedrivesFresh(s), AddsTask(s, u, n, input),
           FreshInput(s, input)
    PROVE  RedrivesFresh(u)
<1>1. TaskIds \subseteq Nat BY ConstantTypes
<1>2. \A t \in TaskIds \ {n} : /\ IsRedrive(u, t) <=> IsRedrive(s, t)
                               /\ Exists(u, t) <=> Exists(s, t)
                               /\ BranchOf(u, t) = BranchOf(s, t)
                               /\ u.tasks[t].input.continueFrom = s.tasks[t].input.continueFrom
  BY DEF AddsTask, IsRedrive, Exists, BranchOf
<1>3. /\ n \in TaskIds /\ Exists(u, n) /\ BranchOf(u, n) = input.branch
      /\ u.tasks[n].input.continueFrom = input.continueFrom
      /\ IsRedrive(u, n) => FreshInput(s, input) /\ input.redrive = TRUE
      /\ \A t \in TaskIds : Exists(s, t) => t < n
  BY DEF AddsTask, IsRedrive, BranchOf
<1>4. \A t \in TaskIds : IsRedrive(u, t) => Exists(u, t) BY <1>2, <1>3 DEF RedrivesFresh
<1>5. ASSUME NEW t \in TaskIds, NEW v \in TaskIds, t # v, IsRedrive(u, t), IsRedrive(u, v)
      PROVE  u.tasks[t].input.continueFrom # u.tasks[v].input.continueFrom
  <2>1. CASE n \notin {t, v} BY <1>2, <1>5, <2>1 DEF RedrivesFresh
  <2>2. \A x \in TaskIds \ {n} : IsRedrive(u, x) /\ IsRedrive(u, n) =>
            u.tasks[x].input.continueFrom # u.tasks[n].input.continueFrom
    <3> SUFFICES ASSUME NEW x \in TaskIds \ {n}, IsRedrive(u, x), IsRedrive(u, n)
                 PROVE  u.tasks[x].input.continueFrom # input.continueFrom
      BY <1>3
    <3>1. Exists(s, x) /\ IsRedrive(s, x) BY <1>2 DEF RedrivesFresh
    <3>2. ~Redriven(s, input.continueFrom) BY <1>3 DEF FreshInput
    <3>3. s.tasks[x].input.continueFrom # input.continueFrom
      BY <3>1, <3>2 DEF Redriven, IsRedrive
    <3> QED BY <1>2, <3>3
  <2>3. CASE n = t BY <1>5, <2>2, <2>3
  <2>4. CASE n = v BY <1>5, <2>2, <2>4
  <2> QED BY <2>1, <2>3, <2>4
<1>6. ASSUME NEW t \in TaskIds, NEW v \in TaskIds, IsRedrive(u, t), Exists(u, v), v < t
      PROVE  BranchOf(u, t) # BranchOf(u, v)
  <2>1. CASE t = n
    <3>1. v # n BY <1>1, <1>6, <2>1
    <3>2. Exists(s, v) /\ BranchOf(u, v) = BranchOf(s, v) BY <1>2, <1>6, <3>1
    <3> QED BY <1>3, <1>6, <2>1, <3>2 DEF FreshInput
  <2>2. CASE t # n
    <3>1. Exists(s, t) /\ IsRedrive(s, t) BY <1>2, <1>6, <2>2 DEF RedrivesFresh
    <3>2. v # n BY <1>1, <1>3, <1>6, <3>1
    <3> QED BY <1>2, <1>6, <2>2, <3>1, <3>2 DEF RedrivesFresh
  <2> QED BY <2>1, <2>2
<1> QED BY <1>4, <1>5, <1>6 DEF RedrivesFresh

(* A task whose round tells whether it is a redrive. *)
LEMMA AddsApart ==
    ASSUME NEW s, NEW u, NEW n, NEW input, RoundsApart(s), AddsTask(s, u, n, input),
           IF input.redrive = TRUE THEN input.branch[2] > 1 ELSE input.branch[2] = 1
    PROVE  RoundsApart(u)
BY DEF RoundsApart, AddsTask, IsRedrive, Exists, BranchOf

(* A function that advances tasks changes no input. *)
LEMMA AdvancesKeepsRedrives ==
    ASSUME NEW s, NEW u, Advances(s, u)
    PROVE  /\ RedrivesFresh(s) => RedrivesFresh(u)
           /\ RoundsApart(s) => RoundsApart(u)
<1>1. \A t \in TaskIds : u.tasks[t].input = s.tasks[t].input /\ (Exists(u, t) <=> Exists(s, t))
  BY DEF Advances, MovesTo
<1> QED BY <1>1 DEF RedrivesFresh, RoundsApart, IsRedrive, BranchOf

(* The branch of a redrive is free, and of a later round. *)
LEMMA NextBranchFree ==
    ASSUME NEW s, Sound(s), NEW t \in TaskIds, FreeRounds(s, s.tasks[t].input.branch) # {}
    PROVE  LET branch == NextBranch(s, s.tasks[t].input.branch)
           IN /\ \A u \in TaskIds : Exists(s, u) => BranchOf(s, u) # branch
              /\ branch[2] > 1
<1> DEFINE old == s.tasks[t].input.branch
           free == FreeRounds(s, old)
           n == FirstOf(free)
<1>1. old \in BranchNames \X TaskIds BY DEF Sound, RuntimeState, Task, TaskInput, Branches
<1>2. old[2] \in TaskIds /\ TaskIds = 1..MaxTasks /\ MaxTasks \in Nat
  BY <1>1, ConstantTypes DEF TaskIds
<1>3. free \in SUBSET TaskIds BY DEF FreeRounds
<1>4. n \in free BY <1>3, ConstantTypes, FirstIsLeast
<1>5. n > old[2] /\ n \in TaskIds /\ \A u \in TaskIds : Exists(s, u) => BranchOf(s, u) # <<old[1], n>>
  BY <1>4 DEF FreeRounds, BranchOf
<1>6. NextBranch(s, old) = <<old[1], n>> BY DEF NextBranch, FirstOf
<1> HIDE DEF n, old
<1>7. n > 1 BY <1>2, <1>5
<1>8. NextBranch(s, old)[2] = n BY <1>6
<1> QED BY <1>5, <1>6, <1>7, <1>8 DEF old

(* What clients dispatch is no redrive. *)
LEMMA DispatchedInputs ==
    ASSUME NEW d \in Dispatches, NEW i \in 1..Len(d)
    PROVE  /\ d[i] \in TaskInput /\ \A s : FreshInput(s, d[i])
           /\ FirstRounds => ~(d[i].redrive = TRUE) /\ d[i].branch[2] = 1
<1>1. d \in Seq(TaskInput) /\ i \in DOMAIN d BY DispatcherAssumption, ElementOfSeq
<1>2. ~d[i].redrive BY <1>1, DispatcherAssumption
<1>3. ~(d[i].redrive = TRUE) BY <1>2
<1>4. d[i] \in TaskInput BY <1>1, ElementOfSeq
<1>5. \A s : FreshInput(s, d[i]) BY <1>3 DEF FreshInput
<1>6. FirstRounds => d[i].branch[2] = 1 BY <1>1 DEF FirstRounds
<1> QED BY <1>3, <1>4, <1>5, <1>6

(* createDispatch adds one or two of them. *)
LEMMA CreateDispatchFresh ==
    ASSUME NEW s, Sound(s), Ordered(s), RedrivesFresh(s), NEW d \in Dispatches,
           NextTaskId(s) + Len(d) - 1 \in TaskIds, NEW u \in CreateDispatch(s, d)
    PROVE  /\ RedrivesFresh(u)
           /\ FirstRounds /\ RoundsApart(s) => RoundsApart(u)
<1>1. Len(d) \in {1, 2} BY DispatcherAssumption
<1>2. NextTaskId(s) \in Nat \ {0} BY NextTaskIdType
<1>3. TaskIds = 1..MaxTasks /\ MaxTasks \in Nat BY ConstantTypes DEF TaskIds
<1>4. NextTaskId(s) \in TaskIds
  <2> DEFINE n == NextTaskId(s)
             k == Len(d)
  <2>1. n \in Nat \ {0} /\ k \in {1, 2} /\ n + k - 1 \in TaskIds BY <1>1, <1>2
  <2> HIDE DEF n, k
  <2>2. n \in TaskIds BY <1>3, <2>1
  <2> QED BY <2>2 DEF n
<1>5. Follows(s) /\ Dense(s) /\ DepsFirst(s) BY DEF Ordered
<1>6. 1 \in 1..Len(d) /\ (Len(d) = 2 => 2 \in 1..Len(d))
  <2>1. CASE Len(d) = 1 BY <2>1
  <2>2. CASE Len(d) = 2 BY <2>2
  <2> QED BY <1>1, <2>1, <2>2
<1>7. d[1] \in TaskInput BY <1>6, DispatchedInputs
<1>8. ASSUME NEW v \in DispatchTask(s, s, d[1])
      PROVE  RedrivesFresh(v) /\ (FirstRounds /\ RoundsApart(s) => RoundsApart(v))
  <2>1. AddsTask(s, v, NextTaskId(s), d[1]) BY <1>4, <1>5, <1>7, DispatchTaskAdds
  <2>2. FreshInput(s, d[1]) BY <1>6, DispatchedInputs
  <2>3. RedrivesFresh(v) BY <2>1, <2>2, AddsFresh
  <2>4. FirstRounds => ~(d[1].redrive = TRUE) /\ d[1].branch[2] = 1 BY <1>6, DispatchedInputs
  <2>5. FirstRounds /\ RoundsApart(s) => RoundsApart(v) BY <2>1, <2>4, AddsApart
  <2> QED BY <2>3, <2>5
<1>9. CASE Len(d) = 1
  <2>1. u \in DispatchTask(s, s, d[1]) BY <1>9 DEF CreateDispatch
  <2> QED BY <1>8, <2>1
<1>10. CASE Len(d) = 2
  <2>1. PICK v \in DispatchTask(s, s, d[1]) : u \in DispatchTask(s, v, d[2])
    BY <1>10 DEF CreateDispatch
  <2>2. Sound(v) /\ NextTaskId(v) \in 1..(NextTaskId(s) + 1)
    BY <1>4, <1>7, <2>1, DispatchTaskSound
  <2>3. NextTaskId(v) \in TaskIds BY <1>2, <1>3, <1>10, <2>2
  <2>4. Dense(v) BY <1>4, <1>5, <1>7, <2>1, DispatchTaskMoves
  <2>5. RedrivesFresh(v) /\ (FirstRounds /\ RoundsApart(s) => RoundsApart(v)) BY <1>8, <2>1
  <2>6. d[2] \in TaskInput /\ FreshInput(v, d[2]) BY <1>6, <1>10, DispatchedInputs
  <2>7. AddsTask(v, u, NextTaskId(v), d[2]) BY <2>1, <2>2, <2>3, <2>4, <2>6, DispatchTaskAdds
  <2>8. RedrivesFresh(u) BY <2>5, <2>6, <2>7, AddsFresh
  <2>9. FirstRounds => ~(d[2].redrive = TRUE) /\ d[2].branch[2] = 1 BY <1>6, <1>10, DispatchedInputs
  <2>10. FirstRounds /\ RoundsApart(v) => RoundsApart(u) BY <2>7, <2>9, AddsApart
  <2> QED BY <2>5, <2>8, <2>10
<1> QED BY <1>1, <1>9, <1>10

(* redriveTask adds one that was not redriven, on a free branch. *)
LEMMA RedriveTaskFresh ==
    ASSUME NEW s, Sound(s), Ordered(s), RedrivesFresh(s), NEW t \in TaskIds, CanRedrive(s, t),
           NextTaskId(s) \in TaskIds, FreeRounds(s, s.tasks[t].input.branch) # {},
           NEW u \in RedriveTask(s, t)
    PROVE  /\ RedrivesFresh(u)
           /\ RoundsApart(s) => RoundsApart(u)
<1> DEFINE input == RedriveInput(s, t)
           branch == NextBranch(s, s.tasks[t].input.branch)
<1>1. input \in TaskInput BY RedriveInputType
<1>2. input.redrive = TRUE /\ input.continueFrom = t /\ input.branch = branch
  <2>1. s.tasks[t].input \in TaskInput BY DEF Sound, RuntimeState, Task
  <2> HIDE DEF branch
  <2>2. input = [s.tasks[t].input EXCEPT
                    !.branch = branch, !.target = SourceWorker(s, t), !.deps = {},
                    !.continueFrom = t, !.followUp = NoTask, !.redrive = TRUE]
    BY DEF RedriveInput, branch
  <2> HIDE DEF input
  <2> QED BY <2>1, <2>2 DEF TaskInput
<1> HIDE DEF input
<1>3. (\A v \in TaskIds : Exists(s, v) => BranchOf(s, v) # branch) /\ branch[2] > 1
  BY NextBranchFree
<1>4. ~Redriven(s, t) BY DEF CanRedrive
<1>5. FreshInput(s, input) BY <1>2, <1>3, <1>4 DEF FreshInput
<1>6. u \in DispatchTask(s, s, input) BY DEF RedriveTask, input
<1>7. AddsTask(s, u, NextTaskId(s), input) BY <1>1, <1>6, DispatchTaskAdds DEF Ordered
<1>8. RedrivesFresh(u) BY <1>5, <1>7, AddsFresh
<1>9. RoundsApart(s) => RoundsApart(u) BY <1>2, <1>3, <1>7, AddsApart
<1> QED BY <1>8, <1>9

RedriveInv == TaskInv /\ RedrivesFresh(State)

(* Every step keeps both. *)
LEMMA NextFresh ==
    ASSUME RedriveInv, [Next]_vars
    PROVE  /\ RedriveInv'
           /\ FirstRounds /\ RoundsApart(State) => RoundsApart(State)'
<1>1. TaskInv /\ RedrivesFresh(State) /\ Sound(State) /\ Ordered(State)
  BY StateSound DEF RedriveInv, TaskInv
<1>2. TaskInv' BY <1>1, NextAdvances, DispatchTaskInv, RedriveTaskInv
<1> SUFFICES RedrivesFresh(State') /\ (FirstRounds /\ RoundsApart(State) => RoundsApart(State'))
  BY <1>2 DEF RedriveInv, RedrivesFresh, RoundsApart, IsRedrive, Exists, BranchOf
<1>3. CASE Advances(State, State') BY <1>1, <1>3, AdvancesKeepsRedrives
<1>4. ASSUME NEW d \in Dispatches, Dispatch(d)
      PROVE  RedrivesFresh(State') /\ (FirstRounds /\ RoundsApart(State) => RoundsApart(State'))
  <2>1. NextTaskId(State) + Len(d) - 1 \in TaskIds BY <1>4 DEF Dispatch
  <2>2. PICK s \in CreateDispatch(State, d) : Save(s) BY <1>4 DEF Dispatch
  <2>3. State' = s BY <1>1, <2>1, <2>2, CreateDispatchSound, SavedState
  <2>4. RedrivesFresh(s) /\ (FirstRounds /\ RoundsApart(State) => RoundsApart(s))
    BY <1>1, <2>1, <2>2, CreateDispatchFresh
  <2> QED BY <2>3, <2>4
<1>5. ASSUME NEW t \in TaskIds, Redrive(t)
      PROVE  RedrivesFresh(State') /\ (RoundsApart(State) => RoundsApart(State'))
  <2>1. /\ NextTaskId(State) \in TaskIds /\ FreeRounds(State, State.tasks[t].input.branch) # {}
        /\ CanRedrive(State, t)
    BY <1>5 DEF Redrive, State
  <2>2. PICK s \in RedriveTask(State, t) : Save(s) BY <1>5 DEF Redrive
  <2>3. State' = s BY <1>1, <2>1, <2>2, RedriveTaskSound, SavedState
  <2>4. RedrivesFresh(s) /\ (RoundsApart(State) => RoundsApart(s))
    BY <1>1, <2>1, <2>2, RedriveTaskFresh
  <2> QED BY <2>3, <2>4
<1> QED BY <1>1, <1>3, <1>4, <1>5, NextAdvances

(* At first there is nothing to redrive. *)
LEMMA InitRedriveInv == Init => RedriveInv /\ RoundsApart(State)
<1> SUFFICES ASSUME Init PROVE RedrivesFresh(State) /\ RoundsApart(State)
  BY InitTaskInv DEF RedriveInv
<1>1. \A t \in TaskIds : ~Exists(State, t) /\ ~IsRedrive(State, t)
  <2> SUFFICES ASSUME NEW t \in TaskIds PROVE ~Exists(State, t) /\ ~IsRedrive(State, t)
    OBVIOUS
  <2>1. tasks[t].status = "absent" BY DEF Init
  <2>2. tasks[t].input = NoInput BY DEF Init
  <2>3. ~NoInput.redrive BY Zenon DEF NoInput
  <2> QED BY <2>1, <2>2, <2>3 DEF State, Exists, IsRedrive
<1> QED BY <1>1 DEF RedrivesFresh, RoundsApart

LEMMA RedriveFlag ==
    ASSUME RedriveInv, NEW t \in TaskIds, tasks[t].input.redrive
    PROVE  IsRedrive(State, t)
<1>1. tasks[t].input \in TaskInput BY DEF RedriveInv, TaskInv, TypeOK, State, RuntimeState, Task
<1>2. tasks[t].input.redrive \in BOOLEAN BY <1>1 DEF TaskInput
<1> QED BY <1>2 DEF IsRedrive, State

(* A task is redriven at most once, whatever the order of failures, reviews *)
(* and redrives, and always on a branch that none of the tasks before has:  *)
(* what was pushed to the old pull request is not overwritten.              *)
THEOREM RedriveIsFresh ==
    Spec => [](/\ \A t, u \in TaskIds : t # u /\ tasks[t].input.redrive /\ tasks[u].input.redrive =>
                     tasks[t].input.continueFrom # tasks[u].input.continueFrom
               /\ \A t, u \in TaskIds : tasks[t].input.redrive /\ Exists(State, u) /\ u < t =>
                     tasks[t].input.branch # tasks[u].input.branch)
<1> DEFINE Fresh ==
      /\ \A t, u \in TaskIds : t # u /\ tasks[t].input.redrive /\ tasks[u].input.redrive =>
             tasks[t].input.continueFrom # tasks[u].input.continueFrom
      /\ \A t, u \in TaskIds : tasks[t].input.redrive /\ Exists(State, u) /\ u < t =>
             tasks[t].input.branch # tasks[u].input.branch
<1>1. RedriveInv => Fresh
  <2> SUFFICES ASSUME RedriveInv PROVE Fresh OBVIOUS
  <2>1. \A t \in TaskIds : tasks[t].input.redrive => IsRedrive(State, t) BY RedriveFlag
  <2> QED BY <2>1 DEF RedriveInv, RedrivesFresh, BranchOf, State
<1>2. Init => RedriveInv BY InitRedriveInv
<1>3. RedriveInv /\ [Next]_vars => RedriveInv' BY NextFresh
<1> QED BY <1>1, <1>2, <1>3, PTL DEF Spec

(* A later dispatch may name the branch of a redrive: the code does not     *)
(* compare them.  As long as clients name no branch the way redrives are    *)
(* named, the branches of redrives and of all other tasks differ.           *)
THEOREM RedrivenOnceHolds ==
    ASSUME FirstRounds
    PROVE  Spec => []RedrivenOnce
<1> DEFINE Inv == RedriveInv /\ RoundsApart(State)
<1>1. Inv => RedrivenOnce
  <2> SUFFICES ASSUME Inv, NEW t \in TaskIds, NEW u \in TaskIds, t # u, tasks[t].input.redrive
               PROVE  /\ tasks[u].input.redrive =>
                            tasks[t].input.continueFrom # tasks[u].input.continueFrom
                      /\ Exists(State, u) => tasks[t].input.branch # tasks[u].input.branch
    BY DEF RedrivenOnce
  <2>1. t \in Nat /\ u \in Nat BY ConstantTypes
  <2>2. IsRedrive(State, t) BY RedriveFlag
  <2>3. tasks[u].input.redrive => IsRedrive(State, u) BY RedriveFlag
  <2>4. Exists(State, t) BY <2>2 DEF RedriveInv, RedrivesFresh
  <2>5. Exists(State, u) => BranchOf(State, t) # BranchOf(State, u)
    <3>1. CASE ~IsRedrive(State, u) BY <2>2, <2>4, <3>1 DEF RoundsApart
    <3>2. CASE IsRedrive(State, u) /\ u < t BY <2>2, <3>2 DEF RedriveInv, RedrivesFresh
    <3>3. CASE IsRedrive(State, u) /\ t < u BY <2>4, <3>3 DEF RedriveInv, RedrivesFresh
    <3> QED BY <2>1, <3>1, <3>2, <3>3
  <2> QED BY <2>2, <2>3, <2>5 DEF RedriveInv, RedrivesFresh, BranchOf, State
<1>2. Init => Inv BY InitRedriveInv
<1>3. Inv /\ [Next]_vars => Inv' BY NextFresh, FirstRounds
<1> QED BY <1>1, <1>2, <1>3, PTL DEF Spec
=============================================================================
