------------------------------ MODULE Clients ------------------------------
(***************************************************************************)
(* Worker processes and the network between them and the dispatcher: what  *)
(* the daemon of beta-runtime-core and the Trae worker have in common.     *)
(*                                                                         *)
(* A worker id is one process at a time.  A request is handled and         *)
(* answered, or handled with its answer lost, or not handled as far as the *)
(* worker can tell: then it is lost, or arrives late.  A process may crash *)
(* anywhere and is started again under its worker id.                      *)
(*                                                                         *)
(* What the dispatcher stores of a result is the execution it came from:   *)
(* results of two executions differ, if only in generatedAt.               *)
(***************************************************************************)
EXTENDS Dispatcher

CONSTANTS
    SubmitTries,    \* DEFAULT_SUBMIT_RESULT_MAX_ATTEMPTS
    MaxLate         \* bound: requests that are under way after their sender gave up

ASSUME ClientsAssumption ==
    SubmitTries \in Nat \ {0} /\ MaxLate \in Nat /\ IsFiniteSet(Workers)

VARIABLES
    client,     \* [Workers -> Client]
    late,       \* requests whose sender does not wait for them any more
    results,    \* [TaskIds -> run]: the execution of reviews[t].latestWorkerResult
    reported    \* history: <<task, attempt, worker>> of executions that passed

clientVars == <<client, late, results, reported>>

allVars == <<workers, tasks, assignments, taskAttempts, leases, reviews, clientVars>>

(* Executions are told apart while a process, a request or a review refers  *)
(* to them: numbers are taken again afterwards.                             *)
Runs == 1..(Cardinality(Workers) + MaxLate + MaxTasks)

Verdicts == {"passed", "recoverable"}

Client == [pc : {"down", "idle", "enrolled", "greeted", "claimed", "running", "submit"},
           task : TaskIds \cup {NoTask}, attempt : 0..AttemptBound,
           run : Runs \cup {0}, verdict : Verdicts \cup {"none"}, tries : 0..SubmitTries]

Down == [pc |-> "down", task |-> NoTask, attempt |-> 0, run |-> 0, verdict |-> "none", tries |-> 0]

Idle == [Down EXCEPT !.pc = "idle"]

Has(t, i) == [Down EXCEPT !.pc = "claimed", !.task = t, !.attempt = i]

Request == [kind : {"start", "result"}, worker : Workers, task : TaskIds,
            attempt : 0..AttemptBound, run : Runs \cup {0}, verdict : Verdicts \cup {"none"}]

(* The request a process waits for. *)
RequestOf(w) ==
    [kind |-> IF client[w].pc = "submit" THEN "result" ELSE "start", worker |-> w,
     task |-> client[w].task, attempt |-> client[w].attempt, run |-> client[w].run,
     verdict |-> client[w].verdict]

At(w, place) == client[w].pc = place

Become(w, c) == client' = [client EXCEPT ![w] = c]

FreshRun ==
    CHOOSE r \in Runs : /\ \A w \in Workers : client[w].run # r
                        /\ \A m \in late : m.run # r
                        /\ \A t \in TaskIds : results[t] # r

(* A request that was not handled in time is lost or arrives later. *)
GiveUpOn(m) ==
    \/ UNCHANGED late
    \/ Cardinality(late) < MaxLate /\ late' = late \cup {m}

-----------------------------------------------------------------------------
(* A process *)

Boot(w) ==
    /\ At(w, "down") /\ Become(w, Idle)
    /\ UNCHANGED <<vars, late, results, reported>>

Crash(w) ==
    /\ ~At(w, "down") /\ Become(w, Down)
    /\ IF client[w].pc \in {"claimed", "submit"} THEN GiveUpOn(RequestOf(w)) ELSE UNCHANGED late
    /\ UNCHANGED <<vars, results, reported>>

(* The agent ran: what it did is verified, or the execution failed. *)
Execute(w) ==
    /\ At(w, "running")
    /\ \E verdict \in Verdicts :
        /\ Become(w, [client[w] EXCEPT !.pc = "submit", !.verdict = verdict])
        /\ reported' = IF verdict = "passed"
                       THEN reported \cup {<<client[w].task, client[w].attempt, w>>}
                       ELSE reported
    /\ UNCHANGED <<vars, late, results>>

(* Defect: the tries are not counted to their end. *)
UndeliveredForEver(c) == [c EXCEPT !.tries = @ + 1]

(* After the last try the process stops: WorkerResultDeliveryError. *)
Undelivered(c) ==
    IF c.tries + 1 = SubmitTries THEN Down ELSE [c EXCEPT !.tries = @ + 1]

SubmitUnheard(w) ==
    /\ At(w, "submit") /\ Become(w, Undelivered(client[w]))
    /\ GiveUpOn(RequestOf(w))
    /\ UNCHANGED <<vars, results, reported>>

(* recordWorkerResult takes the result of m; the worker's result is stored. *)
Recordable(s, m) == MayRecordResult(s, m.worker, m.task, m.attempt)

SaveResult(m) ==
    IF Recordable(State, m)
    THEN /\ Save(RecordResult(State, m.worker, m.task, m.verdict))
         /\ results' = [results EXCEPT ![m.task] = m.run]
    ELSE UNCHANGED <<vars, results>>

(* The task a claim comes with, if the worker gets all of its leases. *)
Choice(s, w) ==
    IF BoundTask(s, w) # NoTask THEN BoundTask(s, w)
    ELSE IF PreAssigned(s, w) # {} THEN FirstOf(PreAssigned(s, w))
    ELSE IF s.workers[w].status = "idle" /\ Claimable(s, w) # {} THEN FirstOf(Claimable(s, w))
    ELSE NoTask

ClaimedTask(s, w) ==
    LET ready == Revive(s, Reconcile(s), w)
        t == Choice(ready, w)
    IN IF ready.workers[w].disabled \/ t = NoTask THEN NoTask
       ELSE IF LeaseConflicts(ready, t, w) # {} THEN NoTask ELSE t

(* beginTaskForWorker: the start of a task that runs already is answered.  *)
AlreadyBegun(s, w, t, i) ==
    /\ s.tasks[t].worker = w /\ s.tasks[t].status = "in_progress"
    /\ OwnsActiveAttempt(s, w, t, i)

Begun(s, w, t, i) == IF MayBegin(s, w, t, i) THEN BeginTask(s, w, t) ELSE s

-----------------------------------------------------------------------------
ClientInit ==
    /\ Init
    /\ client = [w \in Workers |-> Down]
    /\ late = {} /\ results = [t \in TaskIds |-> 0] /\ reported = {}

(* Operators, their stop and restart commands, polls and time. *)
Elsewhere ==
    /\ OperatorRequest \/ (\E w \in Workers : Offline(w)) \/ GetAssignedTask \/ Tick
    /\ UNCHANGED clientVars

-----------------------------------------------------------------------------
(* Properties *)

(* Every variable has a value of its type: a process is at one of its       *)
(* requests, with the task and the attempt it was given.                    *)
ClientTypeOK ==
    /\ client \in [Workers -> Client] /\ late \subseteq Request
    /\ results \in [TaskIds -> Runs \cup {0}]
    /\ reported \subseteq TaskIds \X (0..AttemptBound) \X Workers

(* "A TaskAttempt is one worker's execution" (TASK_ATTEMPT_MODEL.md): an    *)
(* attempt that succeeded was executed under this very number, by its       *)
(* worker, and passed; a late result of an earlier attempt, or of another   *)
(* worker, never ends it.                                                   *)
SucceededWasReported ==
    \A t \in TaskIds : \A i \in DOMAIN taskAttempts[t] :
        taskAttempts[t][i].status = "succeeded"
            => <<t, i, taskAttempts[t][i].worker>> \in reported

(* Retries, restarts and reassignments keep executions of one attempt       *)
(* apart: no two processes ever execute or deliver the same attempt. An     *)
(* operator's resume of an interrupted task hands its attempt out again,    *)
(* with its number (TASK_ATTEMPT_MODEL.md), and is outside.                 *)
OneExecutor ==
    \A w, v \in Workers :
        /\ w # v /\ client[w].pc \in {"running", "submit"} /\ client[v].pc \in {"running", "submit"}
        => <<client[w].task, client[w].attempt>> # <<client[v].task, client[v].attempt>>

(* A worker goes on to other work only when the dispatcher has the result   *)
(* of this very execution, not of an earlier one of the same attempt: until *)
(* then it keeps its session and its worktree.                              *)
AcknowledgedIsRecorded ==
    [][\A w \in Workers :
        At(w, "submit") /\ client'[w].pc = "idle"
            => results'[client[w].task] = client[w].run]_allVars

OnWorker(w, t) == tasks[t].worker = w /\ tasks[t].status \in {"assigned", "in_progress"}

(* No task stays with a worker that is restarted whenever it stops: also    *)
(* one that was claimed and not started, which the dispatcher never takes   *)
(* back by itself, is delivered, fails or is given back.                    *)
TaskIsReturned == \A w \in Workers, t \in TaskIds : OnWorker(w, t) ~> ~OnWorker(w, t)
=============================================================================
