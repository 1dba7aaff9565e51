----------------------------- MODULE TraeWorker -----------------------------
(***************************************************************************)
(* The Trae worker (trae-beta-runtime/src/runtime/worker.ts) against the   *)
(* routes of runtime-dispatcher-server.ts.  The routes are a second way    *)
(* into the state machine: a fetch registers, claims and falls back on a   *)
(* task the worker should have, a start claims once more, a result names   *)
(* no worker and is stamped when it is received.                           *)
(***************************************************************************)
EXTENDS Clients

CONSTANT TraePool

-----------------------------------------------------------------------------
(* The routes *)

Known(s, w) == IF Registered(s, w) THEN s ELSE RegisterWorker(s, w)

(* Defect: any running task of the pool is taken for the worker's. *)
RecoverableAnybodys(s, w) ==
    {t \in TaskIds : s.tasks[t].status \in {"assigned", "in_progress"}
                     /\ s.tasks[t].input.pool = TraePool}

(* Defect: what the claim does not come with is not looked for. *)
RecoverableNowhere(s, w) == {}

RecoverableTasks(s, w) ==
    {t \in TaskIds : /\ s.tasks[t].status \in {"assigned", "in_progress"}
                     /\ s.tasks[t].input.pool = TraePool /\ s.tasks[t].worker = w}

(* findTraeTaskForWorker: the task a claim comes with, or else the one the  *)
(* worker should have.                                                      *)
FetchedTask(w) ==
    LET known == Known(State, w)
        t == ClaimedTask(known, w)
        lost == RecoverableTasks(ClaimAssignedTask(known, w), w)
    IN IF t # NoTask THEN t ELSE IF lost # {} THEN FirstOf(lost) ELSE NoTask

FetchState(w) ==
    LET known == Known(State, w)
        claimed == ClaimAssignedTask(known, w)
        t == FetchedTask(w)
    IN IF t \in {NoTask, ClaimedTask(known, w), claimed.workers[w].currentTask} THEN claimed
       ELSE [claimed EXCEPT !.workers[w] = Busy(claimed.workers[w], t)]

(* s itself, which TLC evaluates here, before other functions are applied.  *)
Settled(s) == CHOOSE u \in {s} : u = s

(* applyTraeStartTask: an envelope without an attempt is turned away, the   *)
(* claim is saved whatever comes after it.                                  *)
StartsTask(m) ==
    LET claimed == Settled(ClaimAssignedTask(State, m.worker))
    IN /\ m.attempt # 0 /\ Registered(State, m.worker)
       /\ ClaimedTask(State, m.worker) = m.task
       /\ \/ MayBegin(claimed, m.worker, m.task, m.attempt)
          \/ AlreadyBegun(claimed, m.worker, m.task, m.attempt)

StartState(m) ==
    LET claimed == Settled(ClaimAssignedTask(State, m.worker))
    IN IF m.attempt = 0 \/ ~Registered(State, m.worker) THEN State
       ELSE IF StartsTask(m) THEN Begun(claimed, m.worker, m.task, m.attempt) ELSE claimed

(* applyTraeSubmitResult: generatedAt is the time of receipt, so no result  *)
(* is ever equal to a recorded one, and no replay is recognised.            *)
TraeAccepted(m) == m.attempt # 0 /\ Recordable(State, m)

HeartbeatState(w) == Reconcile(HeartbeatWorker(Known(State, w), w))

-----------------------------------------------------------------------------
(* The worker *)

(* A process registers and waits for the automation gateway, or ends. *)
Join(w) ==
    /\ At(w, "down")
    /\ Save(Reconcile(RegisterWorker(State, w)))
    /\ Become(w, Idle) \/ Become(w, Down)
    /\ UNCHANGED <<late, results, reported>>

(* A fetch that fails is made again after a pause. *)
Fetch(w) ==
    /\ At(w, "idle") /\ WithinBounds(FetchState(w))
    /\ Save(FetchState(w))
    /\ \/ Become(w, Idle)
       \/ /\ FetchedTask(w) # NoTask
          /\ Become(w, Has(FetchedTask(w), AttemptNoOrZero(FetchState(w), FetchedTask(w))))
    /\ UNCHANGED <<late, results, reported>>

(* Whatever fails before the session is prepared is submitted as a failure. *)
BootstrapFailed(w) ==
    [client[w] EXCEPT !.pc = "submit", !.run = FreshRun, !.verdict = "recoverable"]

TraeStartTask(w) ==
    LET m == RequestOf(w)
    IN /\ At(w, "claimed") /\ WithinBounds(StartState(m))
       /\ Save(StartState(m))
       /\ \/ /\ StartsTask(m)
             /\ Become(w, [client[w] EXCEPT !.pc = "running", !.run = FreshRun])
          \/ Become(w, BootstrapFailed(w))
       /\ UNCHANGED <<late, results, reported>>

(* The worktree cannot be prepared, or the start is not heard. *)
StartFails(w) ==
    /\ At(w, "claimed") /\ Become(w, BootstrapFailed(w))
    /\ GiveUpOn(RequestOf(w))
    /\ UNCHANGED <<vars, results, reported>>

TraeBeat(w) ==
    /\ ~At(w, "down")
    /\ Save(HeartbeatState(w))
    /\ UNCHANGED clientVars

(* Defect: the session is released and the worker goes on in any case. *)
ReleasedAnyway(w) == Idle

(* submitResultLifecycle: the session is released and the worktree cleaned  *)
(* up when the result is acknowledged.                                      *)
Refused(w) == Undelivered(client[w])

TraeSubmitResult(w) ==
    LET m == RequestOf(w)
    IN /\ At(w, "submit")
       /\ IF TraeAccepted(m) THEN SaveResult(m) ELSE UNCHANGED <<vars, results>>
       /\ Become(w, Refused(w)) \/ (TraeAccepted(m) /\ Become(w, Idle))
       /\ UNCHANGED <<late, reported>>

TraeArrive(m) ==
    /\ m \in late /\ late' = late \ {m}
    /\ IF m.kind = "result" THEN SaveResult(m)
       ELSE WithinBounds(StartState(m)) /\ Save(StartState(m)) /\ UNCHANGED results
    /\ UNCHANGED <<client, reported>>

-----------------------------------------------------------------------------
TraeStep(w) ==
    \/ Join(w) \/ Crash(w) \/ Fetch(w) \/ TraeStartTask(w) \/ StartFails(w) \/ TraeBeat(w)
    \/ Execute(w) \/ TraeSubmitResult(w) \/ SubmitUnheard(w)

TraeNext ==
    \/ \E w \in Workers : TraeStep(w)
    \/ \E m \in late : TraeArrive(m)
    \/ Elsewhere

TraeSpec == ClientInit /\ [][TraeNext]_allVars

(* A step of the process whose answer it hears. *)
Heard(w) ==
    \/ Join(w) /\ client'[w].pc = "idle"
    \/ Fetch(w) /\ (FetchedTask(w) # NoTask => client'[w].pc = "claimed")
    \/ TraeStartTask(w) /\ (StartsTask(RequestOf(w)) => client'[w].pc = "running")
    \/ TraeSubmitResult(w) /\ (TraeAccepted(RequestOf(w)) => client'[w].pc = "idle")
    \/ Execute(w) \/ TraeBeat(w)

(* Nobody crashes, no answer is lost, no operator steps in. *)
Calm ==
    \/ \E w \in Workers : Heard(w)
    \/ \E m \in late : TraeArrive(m)
    \/ (GetAssignedTask \/ Tick) /\ UNCHANGED clientVars

FetchesWork(w) ==
    At(w, "idle") /\ WithinBounds(FetchState(w))
    /\ (FetchedTask(w) # NoTask \/ FetchState(w) # State)

(* The faults end; a worker that stopped is restarted by its operator,      *)
(* chats end or time out, requests are answered or time out, and a worker   *)
(* without a task goes on fetching.  The fairness is written out where      *)
(* ENABLED of the action is beyond TLC.                                     *)
FairTraeSpec ==
    /\ TraeSpec /\ <>[][Calm]_allVars
    /\ \A w \in Workers :
        /\ <>[]At(w, "idle") \/ []<><<client'[w] # client[w]>>_client
        /\ <>[]~FetchesWork(w) \/ []<><<Fetch(w)>>_allVars

-----------------------------------------------------------------------------
(* Properties *)

(* "An exact retry after a lost response is idempotent" (ARCHITECTURE.md):  *)
(* as long as no other attempt has followed, a worker that submits a result *)
(* the dispatcher has is told so.                                           *)
TraeRetryIsAcknowledged ==
    \A w \in Workers :
        LET m == RequestOf(w)
        IN /\ At(w, "submit") /\ results[m.task] = m.run
           /\ Len(taskAttempts[m.task]) = m.attempt
           => TraeAccepted(m)
=============================================================================
