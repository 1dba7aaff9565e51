----------------------------- MODULE Supervision -----------------------------
(***************************************************************************)
(* The commands of forgeflow-trae-beta (trae-beta-runtime/src/cli.ts) that *)
(* start, stop and restart the gateway and the worker of a machine, and    *)
(* those of forgeflow-codex-beta, whose daemon may run beside them.        *)
(* Processes are found by the name of their script and told to stop with   *)
(* SIGTERM; nobody waits for their end.  A worker that is told finishes    *)
(* what it does first.  The launch of the Trae window, the work of the     *)
(* daemon (WorkerDaemon) and the dispatcher are external; of the           *)
(* dispatcher one task and the worker's status remain.                     *)
(***************************************************************************)
EXTENDS Naturals, Sequences, FiniteSets

CONSTANTS
    Clis,         \* terminals from which commands are given
    Commands,     \* the commands given
    MaxProcesses, \* bound: the processes started
    MaxCommands,  \* bound: the commands given
    None

ASSUME SupervisionAssumption == MaxProcesses \in Nat /\ MaxCommands \in Nat

VARIABLES
    procs,  \* the processes, by pid
    clis,   \* what each terminal has left to do, and the pids it last found
    given,  \* the number of commands given
    last,   \* the last command that has ended
    task,   \* the state of the worker's task in the dispatcher
    online  \* the worker's status in the dispatcher

vars == <<procs, clis, given, last, task, online>>

Pids == 1..MaxProcesses

(* The gateway and the worker of Trae, and the daemon of codex. *)
Kinds == {"gateway", "worker", "daemon"}

-----------------------------------------------------------------------------
(* Commands *)

Do(op, kind) == [op |-> op, kind |-> kind]

Start(kind) == <<Do("find", kind), Do("start", kind)>>

Stop(kind) == <<Do("find", kind), Do("signal", kind)>>

MarkOffline == <<Do("mark", "worker")>>

AwaitGateway == <<Do("await", "gateway")>>

Forced(kind) == <<Do("force", kind)>>

StartAll == Start("gateway") \o AwaitGateway \o Start("worker")

StopWorker == MarkOffline \o Stop("worker")

StopAll == MarkOffline \o Stop("worker") \o Stop("gateway")

RestartGateway == Stop("gateway") \o Forced("gateway")

RestartWorker == MarkOffline \o Stop("worker") \o Forced("worker")

RestartAll ==
    MarkOffline \o Stop("worker") \o Stop("gateway")
    \o Forced("gateway") \o AwaitGateway \o Forced("worker")

Steps(command) ==
    CASE command = "start worker" -> Start("worker")
      [] command = "start worker --force" -> Forced("worker")
      [] command = "start gateway" -> Start("gateway")
      [] command = "start all" -> StartAll
      [] command = "stop worker" -> StopWorker
      [] command = "stop gateway" -> Stop("gateway")
      [] command = "stop all" -> StopAll
      [] command = "restart worker" -> RestartWorker
      [] command = "restart gateway" -> RestartGateway
      [] command = "restart all" -> RestartAll
      [] command = "codex start" -> Start("daemon")
      [] command = "codex start --force" -> Forced("daemon")
      [] command = "codex stop" -> Stop("daemon")

-----------------------------------------------------------------------------
(* Processes *)

NoProcess == [kind |-> None, phase |-> "unborn", told |-> 0]

Alive(p) == procs[p].phase \notin {"unborn", "gone"}

Is(p, kind, phase) == procs[p].kind = kind /\ procs[p].phase = phase

(* In its loop a worker listens to the first signal, and to that only: it   *)
(* is aborted.  All other signals end the process that gets them.           *)
Listening(p) == procs[p].phase \in {"idle", "preparing", "working"}

Told(p) == procs[p].told > 0

Doomed(p) == procs[p].told > (IF Listening(p) THEN 1 ELSE 0)

Runs(p, kind, phase) == Is(p, kind, phase) /\ ~Doomed(p)

(* Defect: the task is only fetched before anyone has begun it. *)
NotBegunTask == task = "ready"

(* What a fetch of the worker comes with: the task it should have, begun or *)
(* not, for every process that goes by the worker's name.                   *)
FetchableTask == task \in {"ready", "in_progress"}

LockHolders == {p \in Pids : Is(p, "worker", "working")}

Become(p, phase) == procs' = [procs EXCEPT ![p].phase = phase]

Serving == \E p \in Pids : Is(p, "gateway", "serving")

Dies(p) ==
    /\ Alive(p) /\ Doomed(p) /\ Become(p, "gone")
    /\ UNCHANGED <<clis, given, last, task, online>>

(* A gateway finds the port free, or ends. *)
Listen(p) ==
    /\ Runs(p, "gateway", "boot") /\ Become(p, IF Serving THEN "gone" ELSE "serving")
    /\ UNCHANGED <<clis, given, last, task, online>>

(* The worker registers, or cannot and ends, and waits for the gateway      *)
(* before it listens to signals.                                            *)
Join(p) ==
    /\ Runs(p, "worker", "boot")
    /\ \E phase \in {"joined", "gone"} : Become(p, phase)
    /\ UNCHANGED <<clis, given, last, task, online>>

EnterLoop(p) ==
    /\ \/ Runs(p, "worker", "joined") /\ Serving /\ Become(p, "idle")
       \/ Runs(p, "worker", "joined") /\ Become(p, "gone")
       \/ Runs(p, "daemon", "boot") /\ \E phase \in {"idle", "gone"} : Become(p, phase)
    /\ UNCHANGED <<clis, given, last, task, online>>

Beat(p) ==
    /\ \E phase \in {"joined", "idle", "preparing", "working"} : Runs(p, "worker", phase)
    /\ online' = TRUE
    /\ UNCHANGED <<procs, clis, given, last, task>>

(* A fetch that is cut by the signal may have claimed the task.             *)
Fetch(p) ==
    /\ Runs(p, "worker", "idle") /\ FetchableTask
    /\ task' = "in_progress" /\ online' = TRUE
    /\ Become(p, IF Told(p) THEN "gone" ELSE "preparing")
    /\ UNCHANGED <<clis, given, last>>

Leave(p) ==
    /\ \E kind \in {"worker", "daemon"} : Runs(p, kind, "idle")
    /\ Told(p) /\ Become(p, "gone")
    /\ UNCHANGED <<clis, given, last, task, online>>

(* A result of the task.  A worker that was told submits none: the signal   *)
(* cuts its requests.  One that is refused is stopped.                      *)
Submit(p, results) ==
    IF Told(p) \/ task # "in_progress" THEN Become(p, "gone") /\ UNCHANGED task
    ELSE Become(p, "idle") /\ task' \in results

(* The worktree is prepared and the start reported. *)
Prepared(p) ==
    /\ Runs(p, "worker", "preparing") /\ LockHolders = {}
    /\ IF Told(p) \/ task # "in_progress" THEN Become(p, "gone") ELSE Become(p, "working")
    /\ UNCHANGED <<clis, given, last, task, online>>

(* Another process holds the lock of the worktree for longer than is waited. *)
NotPrepared(p) ==
    /\ Runs(p, "worker", "preparing") /\ LockHolders # {}
    /\ Submit(p, {"failed"})
    /\ UNCHANGED <<clis, given, last, online>>

(* The chat has ended, which no signal does. *)
Finish(p) ==
    /\ Runs(p, "worker", "working") /\ Submit(p, {"delivered", "failed"})
    /\ UNCHANGED <<clis, given, last, online>>

(* The dispatcher hears of no process for longer than it waits. *)
FallSilent ==
    /\ \A p \in Pids : procs[p].kind = "worker" => procs[p].phase \in {"boot", "gone"}
    /\ online \/ task = "in_progress"
    /\ online' = FALSE /\ task' = IF task = "in_progress" THEN "ready" ELSE task
    /\ UNCHANGED <<procs, clis, given, last>>

-----------------------------------------------------------------------------
(* Terminals *)

Idle == [command |-> None, todo |-> <<>>, found |-> {}]

Busy == \E c \in Clis : clis[c] # Idle

Give(c, command) ==
    /\ clis[c] = Idle /\ given < MaxCommands
    /\ clis' = [clis EXCEPT ![c] = [command |-> command, todo |-> Steps(command), found |-> {}]]
    /\ given' = given + 1
    /\ UNCHANGED <<procs, last, task, online>>

Next1(c) == clis[c].todo[1]

DoesNext(c, op) == clis[c].todo # <<>> /\ Next1(c).op = op

Proceed(c, found) ==
    clis' = [clis EXCEPT ![c].todo = Tail(@), ![c].found = found]

(* bestEffortMarkWorkerOffline: the dispatcher may not be reached.          *)
Mark(c) ==
    /\ DoesNext(c, "mark") /\ Proceed(c, {})
    /\ online' \in {FALSE, online}
    /\ UNCHANGED <<procs, given, last, task>>

(* The script of every worker is dist/runtime/worker.js, whoever's it is. *)
SameScript(kind) == IF kind = "gateway" THEN {"gateway"} ELSE {"worker", "daemon"}

(* listManagedProcesses: pgrep tells nothing of a signal on its way. *)
Find(c) ==
    /\ DoesNext(c, "find")
    /\ Proceed(c, {p \in Pids : Alive(p) /\ procs[p].kind \in SameScript(Next1(c).kind)})
    /\ UNCHANGED <<procs, given, last, task, online>>

(* Defect: one process of each kind is expected. *)
FirstFound(c) ==
    {p \in clis[c].found : Alive(p) /\ \A q \in clis[c].found : p <= q}

(* The processes that get the signal: those found that have not ended. *)
Reached(c) == {p \in clis[c].found : Alive(p)}

Again(told) == IF told = 2 THEN 2 ELSE told + 1

Signal(c) ==
    /\ DoesNext(c, "signal") /\ Proceed(c, {})
    /\ procs' = [p \in Pids |-> [procs[p] EXCEPT !.told = IF p \in Reached(c) THEN Again(@) ELSE @]]
    /\ UNCHANGED <<given, last, task, online>>

Spawn(kind) ==
    \E p \in Pids :
        /\ procs[p] = NoProcess /\ \A q \in 1..(p - 1) : procs[q] # NoProcess
        /\ procs' = [procs EXCEPT ![p] = [kind |-> kind, phase |-> "boot", told |-> 0]]

Abandon(c) == clis' = [clis EXCEPT ![c] = Idle] /\ last' = None

First(c) == CHOOSE p \in clis[c].found : \A q \in clis[c].found : p <= q

(* reuseExistingProcess: the first that was found will do if its command is *)
(* the one asked for, else the start is refused.  The command names the     *)
(* settings in force: restart worker passes neither the Trae binary nor its *)
(* port, which start worker asks for unless the environment sets them.      *)
StartOrReuse(c) ==
    /\ DoesNext(c, "start")
    /\ \/ /\ clis[c].found = {} /\ Spawn(Next1(c).kind)
          /\ Proceed(c, {}) /\ UNCHANGED last
       \/ /\ clis[c].found # {} /\ procs[First(c)].kind = Next1(c).kind
          /\ Proceed(c, {}) /\ UNCHANGED <<procs, last>>
       \/ /\ clis[c].found # {}
          /\ Abandon(c) /\ UNCHANGED procs
    /\ UNCHANGED <<given, task, online>>

Force(c) ==
    /\ DoesNext(c, "force") /\ Proceed(c, {})
    /\ Spawn(Next1(c).kind)
    /\ UNCHANGED <<given, last, task, online>>

(* waitForAutomationReady, whichever gateway answers; else the command ends. *)
Await(c) ==
    /\ DoesNext(c, "await")
    /\ \/ Serving /\ Proceed(c, {}) /\ UNCHANGED last
       \/ Abandon(c)
    /\ UNCHANGED <<procs, given, task, online>>

Return(c) ==
    /\ clis[c].command # None /\ clis[c].todo = <<>>
    /\ clis' = [clis EXCEPT ![c] = Idle] /\ last' = clis[c].command
    /\ UNCHANGED <<procs, given, task, online>>

-----------------------------------------------------------------------------
Init ==
    /\ procs = [p \in Pids |-> NoProcess]
    /\ clis = [c \in Clis |-> Idle]
    /\ given = 0 /\ last = None
    /\ task = "ready" /\ online = FALSE

ProcessStep(p) ==
    \/ Dies(p) \/ Listen(p) \/ Join(p) \/ EnterLoop(p) \/ Fetch(p) \/ Leave(p)
    \/ Prepared(p) \/ NotPrepared(p) \/ Finish(p)

CliStep(c) ==
    \/ Mark(c) \/ Find(c) \/ Signal(c) \/ StartOrReuse(c) \/ Force(c)
    \/ Await(c) \/ Return(c)

Next ==
    \/ \E p \in Pids : ProcessStep(p) \/ Beat(p)
    \/ \E c \in Clis : CliStep(c) \/ \E command \in Commands : Give(c, command)
    \/ FallSilent

Spec == Init /\ [][Next]_vars

(* A process that can go on does: chats, waits and requests have timeouts.  *)
FairSpec ==
    /\ Spec
    /\ \A p \in Pids : WF_vars(ProcessStep(p))
    /\ \A c \in Clis : WF_vars(CliStep(c))

-----------------------------------------------------------------------------
(* Properties *)

WorkersAlive == {p \in Pids : procs[p].kind = "worker" /\ Alive(p)}

TypeOK ==
    /\ procs \in [Pids -> [kind : Kinds \cup {None}, told : 0..2,
                           phase : {"unborn", "boot", "serving", "joined", "idle",
                                    "preparing", "working", "gone"}]]
    /\ given \in 0..MaxCommands /\ last \in Commands \cup {None}
    /\ task \in {"ready", "in_progress", "delivered", "failed"} /\ online \in BOOLEAN
    /\ \A c \in Clis : clis[c].found \subseteq Pids

(* "restart worker: true restart, stop then start" (cli.ts, help): of all   *)
(* the workers there were when it was given, however many were forced and   *)
(* whatever they were doing, none remains beside the new one.               *)
RestartLeavesOne ==
    (last \in {"restart worker", "restart all"} /\ ~Busy) ~> (Cardinality(WorkersAlive) <= 1 \/ Busy)

(* As long as workers are kept alive, the task comes to an end, through all *)
(* the restarts that cut results and fetches.                               *)
TaskEnds ==
    []<>(\A p \in WorkersAlive : Told(p)) \/ <>(task \in {"delivered", "failed"})

(* The lock of the worktree is there so that no other process disturbs the  *)
(* task that is worked on (README of the package): nor is it failed.        *)
WorkedOnIsNotFailed == task = "failed" => LockHolders = {}

(* "start worker reuses an existing managed local process" (README of the   *)
(* package): once the command has returned there is, or was, a worker that  *)
(* nobody has told to stop.                                                 *)
StartedIsThere ==
    last = "start worker" /\ ~Busy => \E p \in Pids : procs[p].kind = "worker" /\ ~Told(p)

(* "Stop codex worker daemon" (help of forgeflow-codex-beta), "not fuzzy    *)
(* package names" (README of trae-beta-runtime): nothing else is told.      *)
OthersAreLeft ==
    [][\A c \in Clis, p \in Pids :
         clis[c].command = "codex stop" /\ procs[p].kind # "daemon"
            => procs'[p].told = procs[p].told]_vars

(* "so the dashboard does not stay falsely online" (README of the package): *)
(* after a stop that has reached the dispatcher the worker is not online.   *)
StoppedIsOffline == last = "stop worker" /\ ~Busy /\ WorkersAlive = {} => ~online
=============================================================================
