---------------------------- MODULE WorkerDaemon ----------------------------
(***************************************************************************)
(* The worker daemon of beta-runtime-core (worker-daemon-cycle.ts,         *)
(* worker-daemon.ts, task-processor.ts) against the dispatcher: register,  *)
(* heartbeat, claim, start, execute, submit, again and again.  A failed    *)
(* request other than a submission ends the process, and so does an        *)
(* execution that failed.                                                  *)
(***************************************************************************)
EXTENDS Clients

(* An answer that is lost ends the process like an error does. *)
AnsweredOr(w, next, dead) == Become(w, next) \/ Become(w, dead)

Enroll(w) ==
    /\ At(w, "idle")
    /\ Save(Reconcile(RegisterWorker(State, w)))
    /\ AnsweredOr(w, [Idle EXCEPT !.pc = "enrolled"], Down)
    /\ UNCHANGED <<late, results, reported>>

Greet(w) ==
    /\ At(w, "enrolled")
    /\ Save(Reconcile(HeartbeatWorker(State, w)))
    /\ AnsweredOr(w, [Idle EXCEPT !.pc = "greeted"], Down)
    /\ UNCHANGED <<late, results, reported>>

Claimed(w) == ClaimAssignedTask(State, w)

ClaimTask(w) ==
    /\ At(w, "greeted") /\ WithinBounds(Claimed(w))
    /\ Save(Claimed(w))
    /\ LET t == ClaimedTask(State, w)
       IN AnsweredOr(w, IF t = NoTask THEN Idle ELSE Has(t, ActiveNo(Claimed(w), t)), Down)
    /\ UNCHANGED <<late, results, reported>>

MayStart(m) == MayBegin(State, m.worker, m.task, m.attempt)
               \/ AlreadyBegun(State, m.worker, m.task, m.attempt)

StartTask(w) ==
    LET m == RequestOf(w)
    IN /\ At(w, "claimed")
       /\ Save(Begun(State, w, m.task, m.attempt))
       /\ IF MayStart(m)
          THEN AnsweredOr(w, [client[w] EXCEPT !.pc = "running", !.run = FreshRun], Down)
          ELSE Become(w, Down)
       /\ UNCHANGED <<late, results, reported>>

(* The interval goes on until the result is delivered. *)
Beat(w) ==
    /\ client[w].pc \in {"running", "submit"}
    /\ Save(Reconcile(HeartbeatWorker(State, w)))
    /\ UNCHANGED clientVars

(* Defect: the payload is not compared with the recorded one. *)
ReplayOfAttempt(m) ==
    /\ ~HasActiveAttempt(State, m.task) /\ m.attempt \in DOMAIN taskAttempts[m.task]
    /\ taskAttempts[m.task][m.attempt].status \in {"succeeded", "failed"}
    /\ taskAttempts[m.task][m.attempt].worker = m.worker

(* Defect: a result is taken once. *)
NoReplay(m) == FALSE

(* isIdempotentWorkerResultReplay *)
Replay(m) ==
    /\ ~HasActiveAttempt(State, m.task) /\ m.attempt \in DOMAIN taskAttempts[m.task]
    /\ taskAttempts[m.task][m.attempt].status \in {"succeeded", "failed"}
    /\ taskAttempts[m.task][m.attempt].worker = m.worker
    /\ results[m.task] = m.run

Accepted(m) == Replay(m) \/ Recordable(State, m)

(* An execution that failed ends the process once its result is delivered, *)
(* one whose verification failed does not.                                 *)
Delivered(w) == IF client[w].verdict = "passed" THEN {Idle} ELSE {Idle, Down}

SubmitResult(w) ==
    LET m == RequestOf(w)
    IN /\ At(w, "submit") /\ SaveResult(m)
       /\ IF Accepted(m)
          THEN \E c \in Delivered(w) \cup {Undelivered(client[w])} : Become(w, c)
          ELSE Become(w, Undelivered(client[w]))
       /\ UNCHANGED <<late, reported>>

(* A request arrives whose sender has given up. *)
Arrive(m) ==
    /\ m \in late /\ late' = late \ {m}
    /\ IF m.kind = "result" THEN SaveResult(m)
       ELSE Save(Begun(State, m.worker, m.task, m.attempt)) /\ UNCHANGED results
    /\ UNCHANGED <<client, reported>>

-----------------------------------------------------------------------------
Cycle(w) == Enroll(w) \/ Greet(w) \/ ClaimTask(w)

DaemonStep(w) ==
    \/ Boot(w) \/ Crash(w) \/ Cycle(w) \/ StartTask(w) \/ Beat(w) \/ Execute(w)
    \/ SubmitResult(w) \/ SubmitUnheard(w)

DaemonNext ==
    \/ \E w \in Workers : DaemonStep(w)
    \/ \E m \in late : Arrive(m)
    \/ Elsewhere

DaemonSpec == ClientInit /\ [][DaemonNext]_allVars

-----------------------------------------------------------------------------
(* Properties *)

(* "An exact retry after a lost response is idempotent" (ARCHITECTURE.md):  *)
(* as long as no other attempt has followed, a worker that submits a result *)
(* the dispatcher has is told so.                                           *)
RetryIsAcknowledged ==
    \A w \in Workers :
        LET m == RequestOf(w)
        IN /\ At(w, "submit") /\ results[m.task] = m.run
           /\ Len(taskAttempts[m.task]) = m.attempt
           => Accepted(m)
=============================================================================
