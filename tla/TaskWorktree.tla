---------------------------- MODULE TaskWorktree ----------------------------
(***************************************************************************)
(* Task worktrees of one clone and the owner lock that guards them:        *)
(* beta-runtime-core/src/runtime/task-worktree.ts, held by the executor of *)
(* task-processor.ts from the preparation of the tree to its cleanup.      *)
(*                                                                         *)
(* A job is one execution of an attempt by a worker process.  A process    *)
(* runs its jobs one after the other; the jobs of several processes        *)
(* interleave at every system call and every git command.  A process may   *)
(* crash: its lock file stays, the git command it had started may have     *)
(* done half its work, and its agent, which has a process group of its     *)
(* own, may go on writing.                                                 *)
(*                                                                         *)
(* A job draws its owner token for the file it creates, and the inode of   *)
(* that file is not reused: the job stands for both.  A branch is the set  *)
(* of the jobs whose commits it has, on top of the default branch.         *)
(***************************************************************************)
EXTENDS Naturals, FiniteSets

CONSTANTS
    Processes, Jobs, Tasks,
    ProcessOf, TaskOf,      \* the process and the task of a job
    MaxLive,                \* processes that may run at a time
    CleanupModes,           \* "retain", "remove", "force": the worker's settings
    Elsewhere,              \* the commits another clone pushed before
    NoJob

ASSUME TaskWorktreeAssumption ==
    /\ ProcessOf \in [Jobs -> Processes] /\ TaskOf \in [Jobs -> Tasks]
    /\ MaxLive \in Nat
    /\ CleanupModes \subseteq {"retain", "remove", "force"}
    /\ NoJob \notin Jobs /\ Elsewhere \notin Jobs

VARIABLES
    lock,       \* forgeflow-worktree-owner.lock, or NoLock
    seen,       \* the snapshot a job reclaims by
    pc,         \* where each job is
    tree,       \* [Tasks -> [reg, dir : BOOLEAN]]: known to git, on disk
    dirt,       \* [Tasks -> SUBSET Jobs]: whose uncommitted changes are in it
    changed,    \* [Jobs -> SUBSET Jobs]: the changes collectChangedFiles found
    branch, remote,     \* the local branch of a task, and origin's
    outcome,    \* "none", "delivered", "failed"
    agents,     \* the jobs whose agent process runs
    outlived,   \* history: the jobs whose agent outlived their worker
    live, booted

vars == <<lock, seen, pc, tree, dirt, changed, branch, remote, outcome, agents, outlived, live, booted>>

NoLock == [maker |-> NoJob, written |-> FALSE, old |-> FALSE]

Absent == [reg |-> FALSE, dir |-> FALSE]

Present == [reg |-> TRUE, dir |-> TRUE]

(* Between the acquisition of the lock and the begin of its release. *)
Owning == {"prepare", "reset", "add", "run", "running", "collect", "commit", "push",
           "cleanup", "remove"}

Waiting == {"acquire", "judge", "compare", "reclaim", "wait"}

Places == {"idle", "write", "release", "unlink", "gone"} \cup Owning \cup Waiting

Alive(j) == ProcessOf[j] \in live

At(j, place) == pc[j] = place /\ Alive(j)

GoTo(j, place) == pc' = [pc EXCEPT ![j] = place]

Fail(j, place) == outcome' = [outcome EXCEPT ![j] = "failed"] /\ GoTo(j, place)

Git == <<tree, dirt, changed, branch, remote>>

World == <<agents, outlived, live, booted>>

-----------------------------------------------------------------------------
(* The owner lock *)

(* The worker starts on a claimed task when it has none. *)
Begin(j) ==
    /\ At(j, "idle") /\ GoTo(j, "acquire")
    /\ \A k \in Jobs : ProcessOf[k] = ProcessOf[j] => pc[k] \in {"idle", "gone"}
    /\ UNCHANGED <<lock, seen, outcome, Git, World>>

(* Defect: flag "w", which opens the file whoever made it. *)
CreateAnyway(j) ==
    /\ At(j, "acquire") /\ GoTo(j, "write")
    /\ lock' = [maker |-> j, written |-> FALSE, old |-> FALSE]
    /\ UNCHANGED <<seen, outcome, Git, World>>

(* openSync with "wx" creates the file or fails with EEXIST. *)
TryCreate(j) ==
    /\ At(j, "acquire")
    /\ IF lock = NoLock
       THEN GoTo(j, "write") /\ lock' = [maker |-> j, written |-> FALSE, old |-> FALSE]
       ELSE GoTo(j, "judge") /\ UNCHANGED lock
    /\ UNCHANGED <<seen, outcome, Git, World>>

(* The file may have been taken for a leftover and removed meanwhile. *)
WriteMetadata(j) ==
    /\ At(j, "write") /\ GoTo(j, "prepare")
    /\ lock' = IF lock.maker = j THEN [lock EXCEPT !.written = TRUE, !.old = FALSE] ELSE lock
    /\ UNCHANGED <<seen, outcome, Git, World>>

(* The write fails: the file is removed by its inode, the job fails. *)
WriteFails(j) ==
    /\ At(j, "write") /\ Fail(j, "gone")
    /\ lock' = IF lock.maker = j THEN NoLock ELSE lock
    /\ UNCHANGED <<seen, Git, World>>

(* Defect: an old lock is reclaimed whoever holds it. *)
ReclaimableByAge(file) == file.old

(* Defect: metadata is needed to reclaim. *)
ReclaimableIfWritten(file) == file.old /\ file.written /\ ProcessOf[file.maker] \notin live

(* Old, and its process is gone; a file without metadata names no process. *)
Reclaimable(file) == file.old /\ (file.written => ProcessOf[file.maker] \notin live)

(* Defect: the pid is taken for the token. *)
JudgeByPid(j) ==
    /\ At(j, "judge")
    /\ seen' = [seen EXCEPT ![j] = IF lock = NoLock THEN NoJob ELSE ProcessOf[lock.maker]]
    /\ GoTo(j, IF lock # NoLock /\ Reclaimable(lock) THEN "compare" ELSE "wait")
    /\ UNCHANGED <<lock, outcome, Git, World>>

(* tryReclaimStaleWorktreeLock up to its unlink *)
Judge(j) ==
    /\ At(j, "judge")
    /\ seen' = [seen EXCEPT ![j] = lock.maker]
    /\ GoTo(j, CASE lock = NoLock -> "acquire"
                 [] Reclaimable(lock) -> "compare"
                 [] OTHER -> "wait")
    /\ UNCHANGED <<lock, outcome, Git, World>>

(* unlinkMatchingWorktreeLock compares the file with the snapshot... *)
CompareSnapshot(j) ==
    /\ At(j, "compare") /\ GoTo(j, IF lock.maker = seen[j] THEN "reclaim" ELSE "wait")
    /\ UNCHANGED <<lock, seen, outcome, Git, World>>

(* ...and removes the file that has the path by then. *)
Reclaim(j) ==
    /\ At(j, "reclaim") /\ GoTo(j, "acquire") /\ lock' = NoLock
    /\ UNCHANGED <<seen, outcome, Git, World>>

Retry(j) ==
    /\ At(j, "wait") /\ GoTo(j, "acquire")
    /\ UNCHANGED <<lock, seen, outcome, Git, World>>

(* TaskWorktreeLockTimeoutError *)
GiveUp(j) ==
    /\ At(j, "wait") /\ Fail(j, "gone")
    /\ UNCHANGED <<lock, seen, Git, World>>

(* Defect: no finally. *)
ForgetRelease(j) ==
    /\ At(j, "release") /\ GoTo(j, "gone")
    /\ UNCHANGED <<lock, seen, outcome, Git, World>>

(* releaseTaskWorktreeOwnership: a lock of somebody else is reported, and left. *)
Release(j) ==
    /\ At(j, "release") /\ GoTo(j, IF lock.maker = j /\ lock.written THEN "unlink" ELSE "gone")
    /\ UNCHANGED <<lock, seen, outcome, Git, World>>

UnlinkOwn(j) ==
    /\ At(j, "unlink") /\ GoTo(j, "gone") /\ lock' = NoLock
    /\ UNCHANGED <<seen, outcome, Git, World>>

-----------------------------------------------------------------------------
(* prepareTaskWorktreeUnlockedAsync *)

Mine(j) == tree[TaskOf[j]]

(* Defect: a tree on disk is used as it is. *)
PrepareWithoutReset(j) ==
    /\ At(j, "prepare")
    /\ IF Mine(j).dir THEN GoTo(j, "run") /\ UNCHANGED outcome
       ELSE GoTo(j, "add") /\ UNCHANGED outcome
    /\ UNCHANGED <<lock, seen, Git, World>>

(* validateReuse: a directory git does not know, or a registration without  *)
(* a directory, is refused; git worktree list may fail as well.             *)
Prepare(j) ==
    /\ At(j, "prepare")
    /\ \/ Mine(j) = Present /\ GoTo(j, "reset") /\ UNCHANGED outcome
       \/ Mine(j) = Absent /\ GoTo(j, "add") /\ UNCHANGED outcome
       \/ Fail(j, "release")
    /\ UNCHANGED <<lock, seen, Git, World>>

(* git reset --hard HEAD and git clean -fd keep what was committed. *)
Reset(j) ==
    /\ At(j, "reset") /\ GoTo(j, "run")
    /\ dirt' = [dirt EXCEPT ![TaskOf[j]] = {}]
    /\ UNCHANGED <<lock, seen, tree, changed, branch, remote, outcome, World>>

(* git fetch and git worktree add -B: the branch starts at origin's default. *)
Add(j) ==
    /\ At(j, "add") /\ GoTo(j, "run")
    /\ tree' = [tree EXCEPT ![TaskOf[j]] = Present]
    /\ dirt' = [dirt EXCEPT ![TaskOf[j]] = {}]
    /\ branch' = [branch EXCEPT ![TaskOf[j]] = {}]
    /\ UNCHANGED <<lock, seen, changed, remote, outcome, World>>

(* What git worktree add leaves when it does not come to its end. *)
HalfAdded == {Absent, [reg |-> TRUE, dir |-> FALSE], Present}

(* What git worktree remove leaves. *)
HalfRemoved == {Present, [reg |-> TRUE, dir |-> FALSE]}

PrepareFails(j) ==
    /\ Alive(j) /\ pc[j] \in {"reset", "add"} /\ Fail(j, "release")
    /\ IF pc[j] = "add" THEN \E half \in HalfAdded : tree' = [tree EXCEPT ![TaskOf[j]] = half]
       ELSE UNCHANGED tree
    /\ UNCHANGED <<lock, seen, dirt, changed, branch, remote, World>>

-----------------------------------------------------------------------------
(* executeLiveWorkerTask *)

(* The assignment is written into the tree and the agent is started. *)
Start(j) ==
    /\ At(j, "run")
    /\ \/ GoTo(j, "running") /\ agents' = agents \cup {j} /\ UNCHANGED outcome
       \/ Fail(j, "cleanup") /\ UNCHANGED agents
    /\ UNCHANGED <<lock, seen, Git, outlived, live, booted>>

(* An agent writes as long as it runs, with or without its worker. *)
Write(j) ==
    /\ j \in agents /\ Mine(j).dir
    /\ dirt' = [dirt EXCEPT ![TaskOf[j]] = @ \cup {j}]
    /\ UNCHANGED <<lock, seen, pc, tree, changed, branch, remote, outcome, World>>

(* It ends, fails, or is killed at the timeout with its process tree. *)
AgentEnds(j) ==
    /\ j \in agents /\ agents' = agents \ {j}
    /\ IF At(j, "running")
       THEN \/ GoTo(j, "collect") /\ UNCHANGED outcome
            \/ Fail(j, "cleanup")
       ELSE UNCHANGED <<pc, outcome>>
    /\ UNCHANGED <<lock, seen, Git, outlived, live, booted>>

(* A git status that fails counts as one without changes.  Without changes  *)
(* nothing is committed or pushed, and the job is done; the report of the   *)
(* execution in between may fail.                                           *)
CollectChanges(j) ==
    /\ At(j, "collect")
    /\ \E found \in {dirt[TaskOf[j]], {}} :
        /\ changed' = [changed EXCEPT ![j] = found]
        /\ \/ found # {} /\ GoTo(j, "commit") /\ UNCHANGED outcome
           \/ found = {} /\ GoTo(j, "cleanup") /\ outcome' = [outcome EXCEPT ![j] = "delivered"]
           \/ Fail(j, "cleanup")
    /\ UNCHANGED <<lock, seen, tree, dirt, branch, remote, World>>

Commit(j) ==
    /\ At(j, "commit") /\ GoTo(j, "push")
    /\ branch' = [branch EXCEPT ![TaskOf[j]] = @ \cup changed[j]]
    /\ dirt' = [dirt EXCEPT ![TaskOf[j]] = @ \ changed[j]]
    /\ UNCHANGED <<lock, seen, tree, changed, remote, outcome, World>>

(* Defect: push --force. *)
PushForced(j) ==
    /\ At(j, "push") /\ GoTo(j, "cleanup")
    /\ remote' = [remote EXCEPT ![TaskOf[j]] = branch[TaskOf[j]]]
    /\ outcome' = [outcome EXCEPT ![j] = "delivered"]
    /\ UNCHANGED <<lock, seen, tree, dirt, changed, branch, World>>

(* origin takes a push that only adds commits; the pull request may fail. *)
Push(j) ==
    /\ At(j, "push") /\ GoTo(j, "cleanup")
    /\ remote[TaskOf[j]] \subseteq branch[TaskOf[j]]
    /\ remote' = [remote EXCEPT ![TaskOf[j]] = branch[TaskOf[j]]]
    /\ \E end \in {"delivered", "failed"} : outcome' = [outcome EXCEPT ![j] = end]
    /\ UNCHANGED <<lock, seen, tree, dirt, changed, branch, World>>

(* Defect: the status of git push is not looked at. *)
PushFailureIgnored(j) ==
    /\ Alive(j) /\ pc[j] \in {"commit", "push"} /\ GoTo(j, "cleanup")
    /\ outcome' = [outcome EXCEPT ![j] = "delivered"]
    /\ UNCHANGED <<lock, seen, Git, World>>

DeliveryFails(j) ==
    /\ Alive(j) /\ pc[j] \in {"commit", "push"} /\ Fail(j, "cleanup")
    /\ UNCHANGED <<lock, seen, Git, World>>

(* cleanupLiveWorkerTask: the owner is checked before git is asked. *)
Cleanup(j) ==
    /\ At(j, "cleanup")
    /\ \/ "retain" \in CleanupModes /\ GoTo(j, "release")
       \/ /\ CleanupModes # {"retain"}
          /\ GoTo(j, IF lock.maker = j /\ lock.written /\ Mine(j) = Present
                     THEN "remove" ELSE "release")
    /\ UNCHANGED <<lock, seen, outcome, Git, World>>

(* git worktree remove refuses a tree with changes unless it is forced. *)
Remove(j) ==
    /\ At(j, "remove") /\ GoTo(j, "release")
    /\ "force" \in CleanupModes \/ dirt[TaskOf[j]] = {}
    /\ tree' = [tree EXCEPT ![TaskOf[j]] = Absent]
    /\ dirt' = [dirt EXCEPT ![TaskOf[j]] = {}]
    /\ UNCHANGED <<lock, seen, changed, branch, remote, outcome, World>>

(* An error of the cleanup does not change the outcome of the job. *)
RemoveFails(j) ==
    /\ At(j, "remove") /\ GoTo(j, "release")
    /\ \E half \in HalfRemoved : tree' = [tree EXCEPT ![TaskOf[j]] = half]
    /\ UNCHANGED <<lock, seen, dirt, changed, branch, remote, outcome, World>>

-----------------------------------------------------------------------------
(* The environment *)

Boot(p) ==
    /\ p \notin booted /\ Cardinality(live) < MaxLive
    /\ live' = live \cup {p} /\ booted' = booted \cup {p}
    /\ UNCHANGED <<lock, seen, pc, outcome, agents, outlived, Git>>

(* What the git command of a crashed job leaves of its tree. *)
Torn(j) ==
    CASE pc[j] = "add" -> HalfAdded
      [] pc[j] = "remove" -> HalfRemoved \cup {Absent}
      [] OTHER -> {Mine(j)}

Crash(p) ==
    /\ p \in live /\ live' = live \ {p}
    /\ pc' = [j \in Jobs |-> IF ProcessOf[j] = p THEN "gone" ELSE pc[j]]
    /\ \E stay \in SUBSET {j \in agents : At(j, "running") /\ ProcessOf[j] = p} :
        /\ agents' = {j \in agents : ProcessOf[j] # p} \cup stay \cup (agents \cap outlived)
        /\ outlived' = outlived \cup stay
    /\ tree' \in [Tasks -> {Absent, Present, [reg |-> TRUE, dir |-> FALSE]}]
    /\ \A t \in Tasks :
        \/ tree'[t] = tree[t]
        \/ \E j \in Jobs : ProcessOf[j] = p /\ TaskOf[j] = t /\ tree'[t] \in Torn(j)
    /\ UNCHANGED <<lock, seen, dirt, changed, branch, remote, outcome, booted>>

(* DEFAULT_WORKTREE_LOCK_STALE_MS pass; no job stalls that long between the *)
(* creation of its file and the write of its metadata.                      *)
Age ==
    /\ lock # NoLock /\ lock' = [lock EXCEPT !.old = TRUE]
    /\ ~lock.written => pc[lock.maker] # "write"
    /\ UNCHANGED <<seen, pc, outcome, Git, World>>

-----------------------------------------------------------------------------
Init ==
    /\ lock = NoLock
    /\ seen = [j \in Jobs |-> NoJob]
    /\ pc = [j \in Jobs |-> "idle"]
    /\ tree = [t \in Tasks |-> Absent]
    /\ dirt = [t \in Tasks |-> {}]
    /\ changed = [j \in Jobs |-> {}]
    /\ branch = [t \in Tasks |-> {}]
    /\ remote \in [Tasks -> {{}, {Elsewhere}}]
    /\ outcome = [j \in Jobs |-> "none"]
    /\ agents = {} /\ outlived = {} /\ live = {} /\ booted = {}

Acquisition(j) ==
    TryCreate(j) \/ WriteMetadata(j) \/ WriteFails(j) \/ Judge(j) \/ CompareSnapshot(j)
    \/ Reclaim(j) \/ Retry(j)

Preparation(j) == Prepare(j) \/ Reset(j) \/ Add(j) \/ PrepareFails(j)

Execution(j) == Start(j) \/ AgentEnds(j) \/ CollectChanges(j) \/ Commit(j) \/ Push(j) \/ DeliveryFails(j)

Ending(j) == Cleanup(j) \/ Remove(j) \/ RemoveFails(j) \/ Release(j) \/ UnlinkOwn(j)

Next ==
    \/ \E j \in Jobs :
        \/ Begin(j) \/ Acquisition(j) \/ GiveUp(j)
        \/ Preparation(j) \/ Execution(j) \/ Write(j) \/ Ending(j)
    \/ \E p \in Processes : Boot(p) \/ Crash(p)
    \/ Age

Spec == Init /\ [][Next]_vars

(* A process that runs takes its next step, git commands and agents end or  *)
(* are killed at their timeout, files get old.  No deadline is assumed to   *)
(* end a wait.                                                              *)
FairSpec ==
    /\ Spec /\ WF_vars(Age)
    /\ \A j \in Jobs :
        /\ WF_vars(Acquisition(j)) /\ WF_vars(Preparation(j))
        /\ WF_vars(Execution(j)) /\ WF_vars(Ending(j))

-----------------------------------------------------------------------------
(* Properties *)

(* Every variable has a value of its type: the lock file names a job, every *)
(* job is at a place of the executor, a branch is a set of commits.         *)
TypeOK ==
    /\ lock \in [maker : Jobs \cup {NoJob}, written : BOOLEAN, old : BOOLEAN]
    /\ seen \in [Jobs -> Jobs \cup {NoJob}] /\ pc \in [Jobs -> Places]
    /\ tree \in [Tasks -> [reg : BOOLEAN, dir : BOOLEAN]]
    /\ dirt \in [Tasks -> SUBSET Jobs] /\ changed \in [Jobs -> SUBSET Jobs]
    /\ branch \in [Tasks -> SUBSET Jobs]
    /\ remote \in [Tasks -> SUBSET (Jobs \cup {Elsewhere})]
    /\ outcome \in [Jobs -> {"none", "delivered", "failed"}]
    /\ agents \in SUBSET Jobs /\ outlived \in SUBSET Jobs
    /\ live \in SUBSET Processes /\ booted \in SUBSET Processes

(* "A live PID is not reclaimed because of its age" (TECH_DEBT.md): the     *)
(* lock file is that of the one job which prepares, runs, delivers or       *)
(* cleans up a tree of this clone, for as long as it does.                  *)
OwnerHoldsLock ==
    \A j \in Jobs : pc[j] \in Owning => lock.maker = j /\ lock.written

(* An execution is over when its job failed or delivered; until then nobody *)
(* else resets, removes or replaces the tree it works in.                   *)
Working == {"run", "running", "collect", "commit", "push"}

WorkIsUndisturbed ==
    [][\A j \in Jobs :
        pc[j] \in Working /\ pc'[j] = pc[j]
            => /\ tree'[TaskOf[j]] = tree[TaskOf[j]]
               /\ dirt[TaskOf[j]] \subseteq dirt'[TaskOf[j]]]_vars

(* What an attempt that crashed or failed left uncommitted is not delivered *)
(* with a later one: an agent starts on a tree with changes of nobody, but  *)
(* for agents that outlived their worker and wrote after the reset.         *)
StartsClean ==
    [][\A j \in Jobs : Start(j) => dirt[TaskOf[j]] \subseteq outlived]_vars

(* No attempt takes from origin what another attempt, here or in another    *)
(* clone, has pushed.                                                       *)
PushedWorkStays == [][\A t \in Tasks : remote[t] \subseteq remote'[t]]_vars

(* A job that found changes and reports success has all of them on origin,  *)
(* for ever, and nothing of its own work was left behind in the tree.       *)
DeliveredIsPushed ==
    \A j \in Jobs : outcome[j] = "delivered" /\ changed[j] # {} =>
        changed[j] \subseteq remote[TaskOf[j]] /\ j \notin dirt[TaskOf[j]]

(* Without "found changes" the second half does not hold: a job whose git   *)
(* status fails reports success with its work neither committed nor pushed. *)
DeliveredLeavesNothing ==
    \A j \in Jobs : outcome[j] = "delivered" => j \notin dirt[TaskOf[j]]

(* "It keeps overlapping prepare, reset and remove from destroying an       *)
(* active worker" (KNOWN_PITFALLS.md): at most one job owns the clone.      *)
OneOwner == \A j, k \in Jobs : pc[j] \in Owning /\ pc[k] \in Owning => j = k

(* The lock does not outlive its job in a process that goes on: its pid is  *)
(* alive, so that every later job of the clone would time out.              *)
NoOrphanedLock == \A j \in Jobs : lock.maker = j /\ pc[j] = "gone" => ~Alive(j)

(* Every job that begins ends, and not because of its deadline: the lock it *)
(* waits for is released, or reclaimed when its owner crashed.              *)
EveryJobEnds == \A j \in Jobs : pc[j] # "idle" ~> pc[j] = "gone"
=============================================================================
