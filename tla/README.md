# ForgeFlow: formal models of the control plane and its workers

ForgeFlow is a control plane for coding agents. A *dispatcher* keeps a queue of
tasks; *workers* (daemons around Codex, Gemini or Trae) register, poll, claim a
task, run it in a git worktree and submit a result; a *reviewer* decides what
happens to the result. This directory holds TLA+ models of the dispatcher, of
the workers and of what they share, the TLC runs that check them and the
theorems TLAPS proves about them.

`RS`, `DS` and `LS` below are `runtime-state.ts`, `dispatcher-server.ts` and
`leases.ts` in `apps/dispatcher/src/modules/server/`.

## 1. Inventory

| Part | State | Operations | Hard behaviour | Correct when | Here |
|---|---|---|---|---|---|
| Runtime state machine (RS) | workers, tasks, assignments, attempts, leases, reviews | register, heartbeat, offline, disable, enable; dispatch, redrive; claim, start, result; decide, interrupt, resume, cancel; reconcile | requests in any order, late and repeated; expiry of heartbeats, assignments, attempts, leases, waits; retries; several records per task | records agree; attempts are an audit trail; bounded retries; dependencies first; reviews are of what was read; lost work is found | `Dispatcher`, `TaskLifecycle` |
| Resource leases (LS) | lease table | acquire, release, reclaim | renewal, expiry, partial acquisition | two workers do not work in one repository | `Leases`, `Dispatcher` |
| State lock (DS) | lock file with pid, token, mtime | acquire, reclaim, release | crash, restart, await between load and save, compare-then-unlink, inode reuse | mutual exclusion, no lost update, no orphan | `StateLock` |
| HTTP handlers (DS) | none | one route per operation | which functions a route runs, in which order | as the state machine | actions of `Dispatcher` |
| Trae routes (`runtime-dispatcher-server.ts`) | edits the state in place | register, fetch, start, submit, heartbeat | a second claim path beside the worker routes | no task stays with a worker; results once | `TraeWorker` |
| Stores (`runtime-state-{store,sqlite,json,...}.ts`), Postgres primary | snapshots with a revision, an audit of events, backups | load, save, record a failure, back up, restore | several processes and hosts, lost answers, crashes, restores | no acknowledged update is lost | `RuntimeStore` |
| Shadow projections and queue | copies of snapshots, a status file | copy, record, compare, reconcile | copies overtake each other, fail, die | older never replaces newer, the shadow keeps up | `RuntimeStore` |
| Worker daemon (`beta-runtime-core`) | current task, tries | register, heartbeat, claim, start, execute, submit | lost answers, late requests, crash and restart under one id | a result counts for its own attempt, retries are recognised | `Clients`, `WorkerDaemon` |
| Trae worker (`trae-beta-runtime`) | current task, session | fetch, start, chat, submit, release | as above, and a gateway between it and its agent | a worker goes on only when its result is recorded; every execution ends | `TraeWorker`, `ChatSessions` |
| Worktrees and owner lock (`task-worktree.ts`) | trees, branches, a lock file | acquire, prepare, reset, add, commit, push, clean up | processes share a clone; crashes leave locks, agents, half-done git commands | one owner, clean start, nothing lost | `TaskWorktree` |
| Automation gateway (`automation-gateway-core`) | session records in one file, a cache per process | prepare, chat, status, release | several gateway processes, restarts, timeouts | answers stay | `ChatSessions` |
| Trae DOM and CDP drivers | a page, two baselines, an idle clock | prepare, baseline, submit, collect | the page switches late, answers come line by line, prompts overlap | the answer is of the task and whole, and is found | `ChatWindow` |
| Runtime CLI (`cli.ts`, `process-control.ts`) | processes of the machine | start, stop, restart of worker, gateway, all | signals without a wait, processes found by script name | a restart leaves one; tasks still end | `Supervision` |
| Codex and Gemini runtimes, provider registry | configuration | - | - | - | their daemon in `WorkerDaemon`, start and stop in `Supervision` |
| Review orchestrator CLI, MCP servers, console, scripts, deployment | none of their own, or views | - | - | - | no: clients, adapters, presentation |
| Scoring, quality and risk gates, review memory, artifacts, events, SLO, dashboard | derived data | pure functions | - | - | no: nothing reads them back, or a choice left open |
| Task decomposer | none | plan to task inputs | - | - | no: nothing else in the source imports it |
| `modules/{dispatch,tasks,workers,...}` | in memory | earlier services | - | - | no: not called by the server |

`PROJECT.json` lists the same parts as components, and the hazards of the code
with the line where each bites and the properties that would catch it.

How the modules build on each other:

    Leases <- Dispatcher <- Clients <- WorkerDaemon      TaskLifecycle (abstract)
                                    <- TraeWorker
    StateLock   RuntimeStore   TaskWorktree   ChatSessions   ChatWindow   Supervision

`Dispatcher` takes a handler as atomic. `StateLock` shows why it may, and
`RuntimeStore` takes the lock as given and shows that the saves it orders are
kept. `WorkerDaemon` and `TraeWorker` take an execution as one step: its tree is
`TaskWorktree`, its chat `ChatSessions`, the window of the chat `ChatWindow`,
the processes that come and go around it `Supervision`.

## 2. The models

Definitions whose comment begins with "Defect" are plausible bugs; they belong
to no specification, and show that each property can fail.

**`Leases`** - RS keeps one table of leases; a resource is free, or held by an
owner for a number of ticks. `Acquire`, `Release` and `ReclaimExpiredLeases`
are the functions of LS. A lease that expired is as good as none, except to the
code that sweeps it.

**`Dispatcher`** - the runtime state machine, in the shape of the code. The
functions of RS are pure, from state to state; each is an operator on the
record `State`. A handler loads, applies one or two functions and saves: it is
an action, `Save(Function(State, ...))`. A function that throws saves nothing,
so its condition is a guard (`MayRecordResult`, `MayDecide`, `MayResume`...); a
function that returns the state it was given is a stuttering step.

| Code | Model |
|---|---|
| `Worker` | `workers[w]`: status, disabled, age of the heartbeat, currentTask |
| `Task`, `Assignment` | `tasks[t]`, `assignments[t]`; ids are the order of creation |
| `TaskAttempt[]` | `taskAttempts[t]`, a sequence; an attempt's id and token are its position |
| `RuntimeLease[]` | `leases`, by resource: assignment, repo, branch, session |
| `Review`, `ReviewMaterial` | `reviews[t]`: decision, attempt of the material, attempt reviewed, result, canRedrive |
| `Date.now()` | `Tick`: ages grow to `Stale` and stay there, time-to-live counts down to 0 |
| `reconcileRuntimeState` | `Reconcile`, run by register, heartbeat, lookup and claim as the code runs it |
| `createDispatch` | a set of states: the choice among equal candidates is open |

The constant `Handlers` names the handlers an instance exercises, so that a run
can ask a question of some of them.

**`TaskLifecycle`** - what the dispatcher promises of one task, without clocks,
leases, workers' state or handlers: ten statuses and their moves, who holds
the task, and the number of attempts and expiries. **`DispatcherLifecycle`** maps
every task of `Dispatcher` to it (`Abstract`, `Lifecycle(t)`) and states
`EveryTaskFollowsLifecycle`: every step of the dispatcher is a step or a stutter
of every task. TLC checks it in `MCLifecycle`, and it is proved.

**`StateLock`** - `acquireStateLock`, its release and `withStateAsync`, one
action per system call. `Synchronous` are the places between two awaits:
a request there runs alone in its process, but other processes run. A process
may crash anywhere; a later one has another pid. A new file may get the inode
number of a removed one. The time a lock needs to be stale is the action `Age`.
`MaxLive` is the number of dispatcher processes on one state directory at a
time, `Prompt` says that no process stalls for the stale time between two
awaits.

**`Clients`** - what both kinds of worker have in common, on top of all of
`Dispatcher`: a process per worker id, at one of its requests, the task and
attempt it was given, and the number of its execution. A request is handled and
answered, or handled with the answer lost, or given up, and then lost or put in
`late`, from where it arrives in any later state (`Arrive`). `Crash` takes a
process down anywhere, `Boot` or `Join` bring it back under its id. `results`
is the execution the stored result came from: the payload of a result is the
execution, since two executions differ at least in `generatedAt`. `reported`
is a history variable.

**`WorkerDaemon`** - `worker-daemon-cycle.ts` and `task-processor.ts`: `Enroll`,
`Greet`, `ClaimTask`, `StartTask`, `Execute`, `SubmitResult`, with `Beat` beside
them. Each request runs the very operators of its route. `Replay` is
`isIdempotentWorkerResultReplay`.

**`TraeWorker`** - the routes of `runtime-dispatcher-server.ts` (`FetchState`,
`StartState`, `HeartbeatState`, `TraeAccepted`), which register, claim and repair in
one request, and the loop of the Trae worker against them: a failure before the
chat is submitted as a result of its own (`BootstrapFailed`), a refused result
is submitted again until the tries are used up and the process stops.

**`RuntimeStore`** - one SQLite store with its shadow in Postgres, or Postgres as
the primary store of two hosts (`backend`). A state is the updates it contains,
its events and the number of the last event. `Load` and `SaveSqlite` or
`SavePrimary` are the two halves of a handler; a save begins a copy to the shadow
that nobody awaits (`copies`), which succeeds, fails with or without effect, or
dies with its process; `EndCopy` saves the status and records a failure as an
event of the latest snapshot, without the state lock. `Reconcile` is the drift
check, `Backup` and `Restore` the scripts. What a process copies (`mode`) may
change at a restart.

**`TaskWorktree`** - the owner lock of `task-worktree.ts` step by step
(`TryCreate`, `WriteMetadata`, `Judge`, `CompareSnapshot`, `Reclaim`, `Retry`),
then prepare, reset or add, the agent's writes, collect, commit, push, pull
request, cleanup and removal (`task-processor.ts`, `task-output.ts`). A job is
one execution of an attempt; the changes in a tree, the commits of a branch and
of origin's are sets of jobs. A crash leaves the lock file, git commands half
done (`Torn`) and the agent, which has a process group of its own and writes on.
The synchronous variants of the functions do the same.

**`ChatSessions`** - the session file, the cache of each gateway process, the
handlers that await the driver (`calls`), and the execution of a worker: prepare,
chat, timeout, poll, artifacts, submit, release. Every worker has a session per
run. What a process does under the lock of the session file is one step (`Save`
after `Latest`). `quiet` holds the sessions without activity for longer than the
threshold.

**`ChatWindow`** - what the driver reads and when it takes it for the answer. A
text is a sequence of lines of the kinds the driver tells apart: a line of the
agent's thinking, the heading, the field of the result, the field of the task,
anything else. The page shows chats (`roots`), the agent writes line by line, a
new chat may be shown late (`Slow`), in place of the old one or beside it. The
driver takes two baselines (`CaptureBaseline`), clears the composer, types and sends in
three commands to the page (`PrepareInput`, `InsertText`, `TriggerSubmit`; `SetAndSubmit`
when it finds the composer empty), and polls: `Extract`,
`ActivityText`, `Candidate`, `Guarded`, `Observed`, `Acceptable` are the functions
of the code of similar names.

**`Supervision`** - a command is a list of steps (`Steps`): mark offline, find,
signal, start or reuse (refused when the settings differ), force, wait for the
gateway. Processes are found by script
name, a worker in its loop survives one signal and leaves when what it does is
done, all others die of it. Of the dispatcher one task and the worker's status
remain.

**`MC*`** - small instances; `MCDocumented`, `MCChatWindow` and the last
properties of `ChatSessions` and `Supervision` also state what the documents say
and the code does not do.

**`*Proofs`** - theorems about the module of that name. Those of `Dispatcher` build
on each other: `DispatcherProofs` (types, the two records, dependencies,
redrives), `DispatcherAttemptProofs` (attempts, reviews, retries, the refinement)
and `DispatcherExclusionProofs` (workers and leases); `ClientsProofs` stands on top
of all three, for `WorkerDaemon` and `TraeWorker` alike.

## 3. The runs

All runs set `CHECK_DEADLOCK FALSE`: task ids, attempts, requests, pids,
commands and prompts are bounded and really run out.

| Run | Instance | States | Shows |
|---|---|---|---|
| `lifecycle` | 1 task, 2 workers, all handlers but redrive, 2 attempts | 114k | types; task and assignment agree; attempts agree with the task; a review is of the latest attempt; an expiry at the retry limit ends the task; ended attempts are never touched again; the task follows `TaskLifecycle` |
| `exclusion` | 2 workers, 2 tasks of 1 repository, targets and a follow-up, worker handlers, decisions and offline reports, leases of 2 ticks, `CarefulSpec` | 129k | a worker works on one task; no two work in the repository; who works holds its leases |
| `redrive` | 1 worker, 3 tasks: a task and its dependent, or a task redriven | 104k | a task is redriven once; no path releases a dependent early |
| `recovery` | 2 workers, 1 task, fair | 2k | a task running at, or assigned to and unclaimed by, a silent worker moves on |
| `state_lock` | a request of a process that may crash and 2 of its successor, 2 inodes, fair | 40k | exclusion, no lost update, live owners keep the lock, dead ones leave nothing that stays, every request ends |
| `worktree` | 2 jobs in 2 processes on one task, fair | 40k | one owner of the tree, clean starts, agents that outlived their worker do not disturb, found changes are on origin when delivered and stay, every job ends |
| `daemon` | 2 daemons, 1 task, 2 attempts, 2 tries, 1 late request | 321k | an attempt is executed by one worker, succeeds because it was executed; a retry is acknowledged; what was acknowledged is recorded |
| `trae` | 1 Trae worker, 1 task, offline, disable, enable, fair | 54k | once the faults end no task stays with the worker |
| `store` | 2 processes, 2 updates, 5 revisions, 3 copies, 1 restart, both backends | 365k | acknowledged updates stay; the shadow is an image of one state, and keeps up |
| `chat` | 1 worker, 2 executions, 2 gateways on one session file, fair | 42k | an answer stays until it is released; every execution ends |
| `supervision` | 1 terminal, 3 commands, 4 processes, fair | 202k | a restart leaves one worker; the task ends through all of them |
| `window` | 2 prompts, 2 at a time, idle time and pauses of 1 | 924k | what is returned is of the task and whole; a finished report is taken |

**Why the bounds are enough.** The records of a task are only touched by
requests that name it or its worker, so one task with two workers has every
conflict of one task (late requests of a previous holder); two attempts have
one that ended and one that is active, with the retry limit reached in between.
Two tasks of one repository with two workers are what a lease conflict takes,
a third is what it takes to redrive a redrive. Timeouts are 0 or 1 ticks and leases 1 or 2:
what matters is which expires first; `exclusion` (leases outlive heartbeats)
and `lifecycle` (heartbeats expire with the next tick) differ in it. Two inode
numbers are the reuse of one while the other is taken. A daemon needs two tries
to repeat a request whose answer was lost, and one late request to have an old
one arrive in a new attempt. Three copies to the shadow are the overtaking one,
the overtaken one, and one that dies. Two gateways are the one that works and
the one that reads or rewrites the file under it. Three commands are a stop, a
start and one more that meets what the two left behind. Two prompts are the one
that waits and the one whose answer it must not take.

**What the passing runs leave out, and why it matters.** `RepoIsExclusive`,
`WorkHoldsLeases` and `OneTaskPerWorker` are false of the dispatcher as it is. A
decision, a cancellation or an interruption releases, by resource and owner,
what the worker holds for another task of the repository (`ReleasedAtWork`); an
offline report releases the leases of a task that goes on (`OfflineAtWork`);
enabling a worker that is bound to a task makes it idle with its `currentTaskId`
kept, and a dispatch overwrites it (RS 4565, 2623; `EnabledAtWork`). The first
two are among the findings; the third contradicts no document and is a hazard.
`CarefulSpec` leaves out these requests at these moments, and no others: each of
the five handlers may be called whenever it takes nothing from a worker that has
claimed a task. `exclusion` checks it with two of them, and the proofs show, for
all five, that these moments are all that can go wrong. `state_lock` has one live
process at a time, which is how the dispatcher is deployed with file storage,
and `worktree` has two that do not both find a lock to reclaim; the reclaiming
races are among the findings. `daemon` has workers whose results carry the time
they were built, as this daemon's do; those of Trae do not.

**Further configurations.** They are kept beside the runs: some pass and ask the
same properties of another instance, the others show a finding. Those that
violate several properties are best run with `-continue -workers 1`.

| Configuration | Module | Shows |
|---|---|---|
| `MCChain.cfg` | `MCDispatcher` | passes: `DependenciesMergedFirst`, `RetryBudget` with interrupt, resume, cancel and offline |
| `MCTargets.cfg` | `MCDispatcher` | passes: the properties of `exclusion` for 3 tasks, with offline reports (195k states) |
| `MCTraeRoutes.cfg` | `MCTrae` | passes: types, `CurrentTaskIsOwn`, `AttemptFollowsTask`, `SucceededWasReported`, `AcknowledgedIsRecorded` under the Trae routes |
| `MCDocumented.cfg` | `MCDocumented` | violates `LookupIsReadOnly`, `ReviewedOnceStarted` |
| `MCRepoLeaseReview.cfg`, `MCRepoLeaseOffline.cfg` | `MCDispatcher` | violate `RepoIsExclusive` |
| `MCStateLockReclaim.cfg` | `MCStateLock` | violates `LiveOwnerKeepsLock` with two live processes |
| `MCTaskWorktreeReclaim.cfg` | `MCTaskWorktree` | violates `OneOwner` with the lock of a dead third process |
| `MCTaskWorktreeStatus.cfg` | `MCTaskWorktree` | violates `DeliveredLeavesNothing` when git status fails |
| `MCTraeReplay.cfg` | `MCTrae` | violates `TraeRetryIsAcknowledged` |
| `MCRuntimeStoreAudit.cfg` | `MCRuntimeStore` | violates `DurableAudit` |
| `MCChatDocumented.cfg` | `MCChatSessions` | violates `PreparedSessionTakesPrompt`, `PollsWhileRunning`, `LiveChatIsRunning` |
| `MCChatWindowDocumented.cfg` | `MCChatWindow` | violates `ReadsOwnChat`, `ContinuedIsTaken`, `StaleIsRefused` |
| `MCSupervisionDocumented.cfg` | `MCSupervision` | violates `WorkedOnIsNotFailed`, `StartedIsThere`, `StoppedIsOffline`, `OthersAreLeft` |

**Findings**, places where the code does something else than a document says.
`PROJECT.json` quotes the document in full.

| Property | What the code does | Against |
|---|---|---|
| `RepoIsExclusive` | a decision releases the repo lease its worker holds for another task (RS 3841) | `contracts/runtime-state-query-v1.md:61` |
| `RepoIsExclusive` | offline releases the leases and keeps the attempt running; the returning worker goes on without the repo lease (RS 4590, 1792) | the same |
| `LookupIsReadOnly` | `GET .../assigned-task` reconciles and saves (DS 1607) | `STATE_MACHINE.md:66`, `API_ENDPOINTS.md:273` |
| `ReviewedOnceStarted` | a claimed, never started task goes to review (RS 3583) | `STATE_MACHINE.md:90` |
| `LiveOwnerKeepsLock` | compare and unlink are two steps: a reclaimer removes a live owner's lock (DS 1093) | `API_ENDPOINTS.md:95` |
| `OneOwner` | the same for the owner lock of worktrees (`task-worktree.ts:425`) | `KNOWN_PITFALLS.md:254` |
| `DeliveredLeavesNothing` | a git status that fails counts as no changes: nothing is committed or pushed, and the result is a success (`task-output.ts:25`) | `docs/README.md:292` |
| `TraeRetryIsAcknowledged` | a repeated Trae result gets a new time and is refused with 409 (`runtime-dispatcher-server.ts:367`) | `ARCHITECTURE.md:150` |
| `DurableAudit` | the recorder of failed copies takes an event id that a save of another process also takes, and one event is dropped from the audit (`runtime-state-sqlite.ts:482`) | `KNOWN_PITFALLS.md:230` |
| `PreparedSessionTakesPrompt` | prepare marks the session running, and chat refuses running sessions (`gateway-handler.ts:175`) | `API_ENDPOINTS.md:483` |
| `PollsWhileRunning` | a running session without activity for five minutes counts as stopped (`worker.ts:1430`) | `trae-automation-gateway-v1.md:255` |
| `LiveChatIsRunning` | a second gateway interrupts the sessions of the first before it listens (`trae-automation-gateway.ts:119`) | `trae-automation-gateway-v1.md:181` |
| `ReadsOwnChat` | the snapshot ignores the root it is given and reads all chats shown (`trae-dom-expressions.ts:240`) | the prompt contract design, line 268 |
| `ContinuedIsTaken` | a report in a continued chat is hidden behind the prompt that precedes it (`trae-dom-response-activity.ts:16`) | `ARCHITECTURE.md:178` |
| `StaleIsRefused` | an old chat that ends with the placeholder of the template passes as fresh (`trae-dom-response-activity.ts:59`) | the prompt contract design, line 269 |
| `WorkedOnIsNotFailed` | after a restart the new process fails the task the old one works on (`worker.ts:1562`) | `cli.ts:174` |
| `StartedIsThere` | start reuses a process that has been told to stop (`start-worker.ts:225`) | `trae-beta-runtime/README.md:42` |
| `StoppedIsOffline` | a heartbeat sets the worker online after the stop marked it offline (`cli.ts:819`) | `trae-beta-runtime/README.md:136` |
| `OthersAreLeft` | stopping Codex signals a Trae worker: same script name (`process-control.ts:30`) | `codex-beta-runtime/src/cli.ts:99` |

**Seen while modelling**, without a property of their own:

* Dispatcher: the start writes `claimedAt` (RS 3358; `STATE_MACHINE.md:96` has
  it written by the claim only); a planned task can be cancelled (RS 4128;
  `:59` does not list it); a release removes a lock created between its
  comparison and its unlink (DS 1151; `API_ENDPOINTS.md:96`), with two live
  processes, as a reclaim does. A task interrupted and resumed before it ran
  keeps its attempt, which two workers may then execute
  (`TASK_ATTEMPT_MODEL.md:13`, `:72`). A worker that is disabled is enabled by its
  next registration, and gets targeted tasks meanwhile. A task that is blocked
  and redriven can still be interrupted and resumed. A wait for input that has
  expired never ends.
* Stores: the drift check compares counts only; a restore takes revisions again;
  one status hides the failures of other copies.
* Worktrees: the artifact check of the Trae worker looks into the repository
  (`worker.ts:1528`), the prompt names the worktree.
* Gateway: `responseDetected` makes the worker's poll end at once; the hard
  timeout is 60 minutes, the contract says 45; a session whose preparation failed
  stays prepared, and one of an execution that crashed stays running until a
  gateway restarts; a prompt that timed out is never cancelled.
* Window: of two drivers that type into one composer at a time, one sends what
  the other typed, or both as one prompt, and the other sends its own again;
  when the page empties the composer as soon as a prompt is sent
  (`Empties`), the driver takes the prompt for unsent and sends it again, and
  an answer that was cut is taken for whole; a report that names the
  dispatch and no task passes for either task of it; a retry of a task in one
  window takes the report of the attempt before.
* CLI: after SIGTERM the result of a chat that has just ended is not submitted
  (against `2026-03-31-architecture-review-and-roadmap.md:314`); `--force` starts a
  second process beside the one it is said to replace; two starts at once both
  find none.

## 4. Fairness

`Dispatcher!FairSpec`: time passes (`WF(Tick)`) and some worker keeps polling
(`WF(GetAssignedTask)`). The dispatcher has no timer; reconcile runs only when a
request arrives, and an idle daemon polls in its cycle. No fairness is asked of
the worker the task is stuck with: the properties say that the task is not with
it for ever unless it is heard of for ever. A task that was claimed and not
started does stay with a dead worker, and neither property says otherwise.

`StateLock!FairSpec`: a request's turn comes up between the turns of the
other requests of its process, so its steps are strongly fair; the removal of a
file runs without an await, so weak fairness is enough; files grow old. Nothing
is asked of `GiveUp`: a request gets the lock without its deadline's help.

`TaskWorktree!FairSpec`: a process that runs takes its next step, git commands
and agents end or are killed at their timeout, and locks grow old. Nothing is
asked of crashes, of agents that outlived their worker, or of giving up.

`FairTraeSpec`: crashes, lost messages and operators' interventions end (`Calm`);
a worker that stopped is started again by its operator, with the start and
restart commands that the README of the Trae package describes; a chat ends or
times out; an idle worker goes on fetching. Its conditions are written as
`<>[]~P \/ []<><<A>>_v` with P the condition in which the action is possible,
because the enabledness of an action that composes whole handlers is too dear
for TLC to evaluate.

`ChatSessions!FairSpec`: the worker takes its steps, its clock runs, and a driver
that was called returns, since all its waits have timeouts. A gateway that has
gone need not come back.

`Supervision!FairSpec`: commands and processes go on, since each of their waits
has a timeout. Nobody need type a command.

`ChatWindow` states no liveness: that a report is found is `CompleteIsTaken`, a
bound on how long it stands complete without being taken.

## 5. The proofs

Every theorem holds for all values of the constants that satisfy the named
assumptions `LeasesAssumption`, `DispatcherAssumption`, `ClientsAssumption`,
`StateLockAssumption`, `RuntimeStoreAssumption`, `TaskWorktreeAssumption` and
`ChatAssumption`; where it assumes more, the statement names it.

### The dispatcher

* `TypeOKHolds` - `Spec => []TypeOK`. `Sound(s)` is `TypeOK` of any state
  record; one lemma per function of RS says that it takes sound states to sound
  states, and each handler's proof composes them as its action does. `TypeOK`
  is inductive as it is.
* `AssignmentFollowsTaskHolds`, `DependenciesMergedFirstHolds` - the inductive
  invariant is `TaskInv`: types, the two records agree (`Follows`), tasks exist
  in the order of their ids (`Dense`), dependencies come first (`DepsFirst`).
  That a dependency is merged *before* is not inductive without knowing that
  merged is for ever, and the functions are composed: so each function's lemma
  bounds how far it may move a task (`Advances`), and this relation is
  transitive. `Dense` is there because a dispatch may name dependencies before
  their tasks exist.
* `RedriveIsFresh` - no task is redriven twice, and a redrive gets a branch no
  earlier task has. `RedrivenOnceHolds` (nor does any later task share the branch of
  a redrive) also needs `FirstRounds`: dispatches do not use the names redrives
  generate, which the code does not compare (`nextAvailableRedriveBranchName`
  looks at the tasks there are, not at what will be dispatched).
* `AttemptFollowsTaskHolds`, `CurrentTaskIsOwnHolds`, `RetryBudgetHolds`,
  `ReviewIsOfLatestAttemptHolds`, `AttemptHistoryKeptHolds` - each function of RS is
  a named move of a task: it rests, is requeued, expires, is claimed, begun,
  delivered, decided, asked about, resumed, cancelled, created, or has its expiry
  renewed (`Rests`, `Requeues`, `Expires`, `Claims`...). The effect lemmas say which
  function makes which move of which task; the `...Good` lemmas say that each move
  keeps the attempts, the budget and the review of the task in order (`Fits`).
  A request is then a `TaskStep` of every task (`NextSteps`). `AttemptInv` is
  `TaskInv`, `Fits` of every task, and `Owned`: a worker's current task is its own.
  `Fits` says more than the properties do: all attempts but the latest have ended
  with nothing left of their time (`AttemptsFit`), and
  an expiry at the limit ended the task (`InBudget`).
* `EveryTaskFollowsLifecycleHolds` - the refinement of `TaskLifecycle`, from
  `NextSteps`: each move maps to an action of the abstract task or to a stutter.
* `LeasesOutlastAttemptHolds` - with every handler allowed; proved only, no run has it. `Last(s)`: the leases a
  worker holds for a task it has claimed (`Engaged`) last as long as its attempt.
* `OneTaskPerWorkerHolds` - as long as nobody enables a worker that has a current task
  (`~EnabledAtWork`). `One(s)`: whoever has claimed a task
  has it as its current task, and a worker that is idle has none, so that neither a
  dispatch nor a claim can replace one. A task that is dispatched and not claimed is
  outside: two of them may be bound to one worker.
* `WorkHoldsLeasesHolds`, `RepoIsExclusiveHolds` - of `CarefulSpec`: every handler is
  there, and no request releases leases under a worker that has claimed a task, or
  enables it (`ReleasesUnderWork`). `Held(s)`: the worker of an
  attempt that has time left holds every lease of the task. Neither `Last` nor `Held`
  is inductive alone: time keeps `Held` because of `Last`; releases after a delivery
  or an expiry keep it because of `One`, since the worker has no other attempt; and
  a claim that meets a conflict begins nothing. Each function's lemma says it keeps
  the three (`Kept`); of the operators' functions it says when (`KeptBut`: the
  worker has claimed nothing else in the repository), which is the very condition of
  `ReleasedAtWork`.

### The clients

Workers of any number, each a process that may crash at any time, whose requests
are lost, answered in vain, repeated or late, against all of `Dispatcher`. The
inductive invariant is `ClientsInv`:

* `AttemptInv`, of the runtime state. A request of a daemon is the operators of its
  route, so the lemmas of `Dispatcher` apply; a Trae route is several of them in one
  request, and what is proved of it is what survives composition (`Serves`).
* `Sent` - the shape of processes and requests.
* `RunsApart` - no two processes have one execution number, and a late request with
  the number of a process is that process's own. It needs that a fresh number
  exists: `FreshRunIsFresh` counts the numbers in use, of at most
  `Cardinality(Workers)` processes, `MaxLate` requests and `MaxTasks` results,
  against `Runs`.
* `Vouched` - whoever claims a success, process or late request, has it in `reported`.
* `Answered` - if the stored result is the execution of a process, its attempt was
  ended by it: this is why a repeated submission is recognised.
* `SucceededWasReported` itself.

`DaemonKeepsDispatcher` and `TraeKeepsDispatcher` carry the theorems of
`DispatcherProofs` and `DispatcherAttemptProofs` over to the compositions;
`SucceededWasReportedHolds`, `AcknowledgedIsRecordedHolds` and their Trae forms
(`TraeSucceededWasReported`, `TraeAcknowledgedIsRecorded`) say that late and repeated
requests never make a task succeed that was not executed, and that a worker goes on
only with its own result recorded. `RetryIsAcknowledgedHolds` is about the daemon;
of the Trae worker `MCTraeReplay` refutes it.

* `OneExecutorHolds` - under `NothingIsResumed`: the operator's `resume` is not among
  the handlers. It is needed: interrupt a running task, resume it, and another worker
  claims and starts the attempt with the same number while the first one works on.
  The documents say that the attempt is used again. The argument: a process that
  executes an attempt is its worker (`Executing`) for as long as the attempt is
  not over, no step makes the attempt of a number belong to another worker, and
  an attempt that is over never begins again.
* `DaemonLeasesOutlastAttempt`, `DaemonWorksOnOneTask`, `DaemonRepoIsExclusive` - with the
  hypotheses of the dispatcher's theorems: `~EnabledAtWork` and `~ReleasesUnderWork` are
  about operators' requests, as no request of a daemon is one of them. Every request
  keeps `Last`, `One` and `Held` (`DaemonExcludes`).
* `DaemonKeepsHistory` and `DaemonFollowsLifecycle` - the composition of daemons,
  network and dispatcher implements `TaskLifecycle`, since every step of it is a step
  of the runtime state (`DaemonSteps`).
* `TraeKeepsHistory`, `TraeLeasesOutlastAttempt` - as above, composed along the route
  (`Careful`).

Two things are not stated of Trae workers, because the code does not have them. A
start is a claim and a begin in one request, two steps of `TaskLifecycle`. And a fetch may
make another dispatched task of the worker its current task while its process still
works, so `One` is not kept: this takes two tasks bound to one worker.

### The others

* `MutualExclusionHolds`, `LiveOwnerKeepsLockHolds`, `NoOrphanedLockHolds`,
  `NoLostUpdateHolds` - under `MaxLive = 1`, any number of requests, inodes and
  successive processes. `IInv` says what single occupancy gives: one request at
  most is between two awaits (`SynchronousAlone`), so what it saw of the file
  when it decided to unlink it still holds when it does (`RemovesNoOthers`);
  who is in the critical section has the file with its own inode and token
  (`HoldsFile`); a pid found in a file once ran and, if it is not live, never
  will again (`OnceBooted`). Each action has its lemma.
* `CommittedStaysAlways` - an update whose caller was answered is in the latest
  state, for any processes, updates and copies and either backend. The invariant
  `Sound` says why a save may write what it does: what a
  handler loaded is still current while it holds the lock or, with Postgres,
  while the revision is the one it loaded (`LoadedIsCurrent`), one handler per
  host is between load and save (`OneHandlerPerHost`), revisions grow and a
  backup is a state there was (`RevisionsGrow`, `BackupIsState`).
* `ShadowKeepsUpAlways` - by the invariant `Followed`: the copy of the last
  snapshot is on its way, has arrived, or is known not to have.
* `ShadowIsAnImageAlways` - until a restore takes revisions again, a revision names
  one state: no copy is ahead of the store, and one of its revision has its rows
  (`OfTheStore`); the queue is never ahead of the rows (`QueueIsAnImage`), also after
  a restore.
* `OwnerHoldsLockHolds`, `OneOwnerHolds`, `WorkIsUndisturbedHolds`, `StartsCleanHolds`,
  `DeliveredIsPushedHolds` - under `[]OneReclaims`: no two jobs are between comparing
  a dead owner's lock with their snapshot and unlinking it. This is the window of
  the finding on `OneOwner`, and `MCTaskWorktreeReclaim` shows that the hypothesis
  is needed. `OneProcessReclaims` reduces it to one process living beside the dead
  ones, and `TwoProcessesReclaim` discharges it for two worker processes
  (`TwoProcessesShare`). The invariants are `LockInv` (who is under way lives,
  a process does one job at a time, who holds the lock is its maker, what is
  reclaimed is of the dead) and `WorkInv` (an agent starts on a clean tree, what is
  pushed has all that was found, agents are known or outlived their worker);
  `OwnInv` adds that a job that has found changes has taken all of its own, because
  an agent that could still write is that of a job whose process is gone
  (`OutlivedAreGone`, `CommitsOwn`).
* `PushedWorkStaysHolds` and `TaskWorktreeProofs!TypeOKHolds` need no hypothesis.
* `AnswerStaysAlways` - a completed session is released or stays as it is,
  whatever the gateways on the file cached before. The invariant `Asked`: a session
  has at most one call under way, because a worker asks once per execution.

**Model-checked only**: the liveness properties (`RunningTaskIsHeardOf`,
`UnclaimedTaskIsHeardOf`, `EveryRequestEnds`, `EveryJobEnds`, `TaskIsReturned`,
`EveryRunEnds`, `RestartLeavesOne`, `TaskEnds`), since liveness under fairness and `ENABLED` are out of the
prover's reach, and the three safety properties of `ChatWindow`
(`CompleteIsTaken`, `AnswerIsOfTask`, `AnswerIsWhole`), which say what searches and
comparisons over every sequence of lines return: facts that need induction over
data, which the provers cannot do. No module has a `RECURSIVE` operator.

## 6. What is abstracted or not modelled

* Dispatcher: events, pull requests, artifacts, dispatch records and scores,
  which no transition reads back. `recordWorkerProgress` and worker events
  (RS 3375, 4204) append an event after the admission check of the result.
  Requests repeated after they succeeded and answered without a change of state
  are stuttering steps. The quality gate of a dispatch and the risk gate of a
  decision refuse some requests; the model admits them all. The time a client
  may send as `at` is the dispatcher's clock. Per-task timeouts and termination
  policies, read-only mode, authentication, and body validation.
* Locks: the reuse of a pid by an unrelated process, which makes a dead owner
  look alive until that process ends. The lock of the session file has the
  protocol of `StateLock` and its reclaiming race; `ChatSessions` takes it as
  given.
* Stores: the JSON store, retention, the checks before a cutover.
* Workers: what an agent does but writing into its tree; git beyond the commands
  listed, each of which happens, fails, or leaves something half done.
* `ChatWindow`: the composer is an editable element, which the page empties when it
  sends; the agent answers one prompt of a text that has two; the two snapshots
  of one poll are one step; lengths of text are
  compared by lines; finding the page, selectors, clicks and the framing of CDP
  are external.
* Not modelled: the review CLI, MCP servers and the console are clients or views
  with no state of their own. Scripts and `scripts/lib` repeat code of the
  packages or deploy it. Scoring, the gates, review memory, artifacts, SLO and
  dashboard derive data that no transition reads, or refuse requests that the
  model lets through. Nothing imports the task decomposer, and the server does
  not call the services in `modules/{dispatch,tasks,workers,...}`. These are most
  of the lines of the repository; they have nothing in them that order, time or
  failure could break.

## 7. Plan

1. (done) `Leases`, `Dispatcher`, `TaskLifecycle`, `StateLock`, their runs,
   type correctness, records, dependencies and the state lock proved.
2. (done) The workers against the dispatcher: `Clients`, `WorkerDaemon`,
   `TraeWorker` with lost, late and repeated requests, crashes and restarts.
3. (done) `RuntimeStore` for both backends and the shadow, with its theorems;
   `TaskWorktree` with agents that outlive their worker.
4. (done) `ChatSessions`, `ChatWindow`, `Supervision`: what surrounds an
   execution of the Trae worker.
5. (done) Proofs: attempts, reviews, retries, redrives and leases of the dispatcher,
   the refinement of `TaskLifecycle`, the worktree lock and the work under it, the
   shadow, the answers of chat sessions, and both kinds of worker with crashes,
   lost and late requests on top of the dispatcher. Open: the properties of
   `ChatWindow`, for which its searches over lines would have to be written
   so that they can be reasoned about without induction.
6. Pure algorithms against a reference: candidate scoring, the risk gate.
7. Delivery of progress and events by the workers, beside the results.
