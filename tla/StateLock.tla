------------------------------ MODULE StateLock ------------------------------
(***************************************************************************)
(* The state lock of the dispatcher: acquireStateLock, its release and     *)
(* withStateAsync in apps/dispatcher/src/modules/server/dispatcher-server. *)
(* Every handler loads, changes and saves the runtime state between the    *)
(* creation and the removal of the file .runtime-state.lock.               *)
(*                                                                         *)
(* A request acquires the lock once and is answered once.  The requests of *)
(* a process interleave where the code awaits; between two awaits a        *)
(* request runs alone in its process, and other processes run at any       *)
(* system call.  A process may crash; a later one has another pid.  The    *)
(* file system may give a new file the inode number of a removed one.      *)
(*                                                                         *)
(* The owner token is drawn per acquisition, so the request stands for it. *)
(* Of the runtime state only this matters: whether what a request loaded   *)
(* is still what is stored.                                                *)
(*                                                                         *)
(* A definition whose comment begins with "Defect" is not part of the      *)
(* model: it is the definition after it with a bug one could write.        *)
(***************************************************************************)
EXTENDS Naturals, FiniteSets

CONSTANTS
    Processes, Requests,
    ProcessOf,      \* the process that serves a request
    Inodes,         \* inode numbers of the file system
    MaxLive,        \* processes that may share the state directory at a time
    Prompt,         \* no process stalls for the stale time between two awaits
    None            \* no file, no metadata in the file, no snapshot

ASSUME StateLockAssumption ==
    /\ ProcessOf \in [Requests -> Processes]
    /\ MaxLive \in Nat /\ Prompt \in BOOLEAN
    /\ None \notin Requests /\ None \notin Inodes

VARIABLES
    lock,       \* the lock file, [ino, owner, old], or NoFile
    pc,         \* where each request is
    want,       \* the snapshot each request means to unlink, [ino, owner]
    goal,       \* what it unlinks for: "reclaim" or "release"
    fresh,      \* nothing was saved since the request loaded
    live,       \* the processes that run
    booted      \* the processes that ever ran

vars == <<lock, pc, want, goal, fresh, live, booted>>

NoFile == [ino |-> None, owner |-> None, old |-> FALSE]

(* The request runs between two awaits. *)
Synchronous == {"create", "stat", "read", "restat", "reread", "unlink", "reopen"}

(* The lock was acquired and its release has not begun. *)
Critical == {"holding", "loaded"}

Places == {"idle", "open", "wait", "gone"} \cup Synchronous \cup Critical

(* Whose turn it may be. *)
MayRun(r) ==
    /\ ProcessOf[r] \in live
    /\ \A q \in Requests \ {r} : ProcessOf[q] = ProcessOf[r] => pc[q] \notin Synchronous

At(r, place) == MayRun(r) /\ pc[r] = place

GoTo(r, place) == pc' = [pc EXCEPT ![r] = place]

-----------------------------------------------------------------------------
(* Creating the lock *)

Arrive(r) ==
    /\ At(r, "idle") /\ GoTo(r, "open")
    /\ UNCHANGED <<lock, want, goal, fresh, live, booted>>

(* An inode is free when no directory entry and no open file has it. *)
FreeInodes ==
    Inodes \ ({lock.ino} \cup {want[r].ino : r \in {q \in Requests : pc[q] = "create"}})

(* Defect: flag "w", which creates or truncates. *)
OpenNotExclusive(r) ==
    /\ At(r, "open") \/ At(r, "reopen")
    /\ \E ino \in FreeInodes :
        /\ lock' = [ino |-> ino, owner |-> None, old |-> FALSE]
        /\ want' = [want EXCEPT ![r] = [ino |-> ino, owner |-> r]]
    /\ GoTo(r, "create")
    /\ UNCHANGED <<goal, fresh, live, booted>>

(* openSync with "wx" creates the file or fails with EEXIST. *)
Open(r) ==
    /\ At(r, "open") \/ At(r, "reopen")
    /\ IF lock = NoFile
       THEN \E ino \in FreeInodes :
                /\ lock' = [ino |-> ino, owner |-> None, old |-> FALSE]
                /\ want' = [want EXCEPT ![r] = [ino |-> ino, owner |-> r]]
                /\ GoTo(r, "create")
       ELSE GoTo(r, "stat") /\ UNCHANGED <<lock, want>>
    /\ UNCHANGED <<goal, fresh, live, booted>>

(* The metadata goes to the file that was opened, wherever it is by now. *)
WriteMetadata(r) ==
    /\ At(r, "create")
    /\ lock' = IF lock.ino = want[r].ino
               THEN [lock EXCEPT !.owner = r, !.old = FALSE] ELSE lock
    /\ GoTo(r, "holding")
    /\ UNCHANGED <<want, goal, fresh, live, booted>>

(* When the write fails the file is removed without looking for a token. *)
WriteFails(r) ==
    /\ At(r, "create") /\ GoTo(r, "restat")
    /\ want' = [want EXCEPT ![r].owner = None]
    /\ goal' = [goal EXCEPT ![r] = "release"]
    /\ UNCHANGED <<lock, fresh, live, booted>>

-----------------------------------------------------------------------------
(* Looking at a lock that exists: readStateLockSnapshot, tryReclaimStaleStateLock *)

Stat(r) ==
    /\ At(r, "stat")
    /\ want' = [want EXCEPT ![r] = [ino |-> lock.ino, owner |-> None]]
    /\ GoTo(r, IF lock.old THEN "read" ELSE "wait")
    /\ UNCHANGED <<lock, goal, fresh, live, booted>>

(* Defect: age alone makes a lock reclaimable. *)
OwnerIsIgnored(owner) == FALSE

(* Defect: a lock without metadata is taken to be somebody's. *)
OwnerIsAliveIfUnknown(owner) == owner = None \/ ProcessOf[owner] \in live

OwnerIsAlive(owner) == owner # None /\ ProcessOf[owner] \in live

(* Defect: the pid is taken for the token. *)
ReadPid(r) ==
    /\ At(r, "read")
    /\ want' = [want EXCEPT ![r].owner = IF lock.owner = None THEN None ELSE ProcessOf[lock.owner]]
    /\ goal' = [goal EXCEPT ![r] = "reclaim"]
    /\ GoTo(r, IF OwnerIsAlive(lock.owner) THEN "wait" ELSE "restat")
    /\ UNCHANGED <<lock, fresh, live, booted>>

(* The file is read by its path: it may not be the one that was stat'ed. *)
ReadOwner(r) ==
    /\ At(r, "read")
    /\ want' = [want EXCEPT ![r].owner = lock.owner]
    /\ goal' = [goal EXCEPT ![r] = "reclaim"]
    /\ GoTo(r, IF OwnerIsAlive(lock.owner) THEN "wait" ELSE "restat")
    /\ UNCHANGED <<lock, fresh, live, booted>>

Retry(r) ==
    /\ At(r, "wait") /\ GoTo(r, "open")
    /\ UNCHANGED <<lock, want, goal, fresh, live, booted>>

(* StateLockTimeoutError *)
GiveUp(r) ==
    /\ At(r, "wait") /\ GoTo(r, "gone")
    /\ UNCHANGED <<lock, want, goal, fresh, live, booted>>

-----------------------------------------------------------------------------
(* unlinkMatchingStateLock: look again, compare, unlink. *)

NotUnlinked(r) == IF goal[r] = "reclaim" THEN "wait" ELSE "gone"

Unlinked(r) == IF goal[r] = "reclaim" THEN "reopen" ELSE "gone"

Restat(r) ==
    /\ At(r, "restat")
    /\ GoTo(r, IF lock.ino = want[r].ino THEN "reread" ELSE NotUnlinked(r))
    /\ UNCHANGED <<lock, want, goal, fresh, live, booted>>

(* A snapshot without metadata is not compared by token. *)
SameToken(owner, expected) == expected = None \/ owner = expected

Reread(r) ==
    /\ At(r, "reread")
    /\ GoTo(r, IF SameToken(lock.owner, want[r].owner) THEN "unlink" ELSE NotUnlinked(r))
    /\ UNCHANGED <<lock, want, goal, fresh, live, booted>>

(* unlinkSync removes whatever file has the path now. *)
Unlink(r) ==
    /\ At(r, "unlink") /\ lock' = NoFile
    /\ GoTo(r, Unlinked(r))
    /\ UNCHANGED <<want, goal, fresh, live, booted>>

-----------------------------------------------------------------------------
(* withStateAsync *)

(* Defect: the lock is released once the state is read. *)
LoadAndUnlock(r) ==
    /\ At(r, "holding") /\ GoTo(r, "loaded")
    /\ fresh' = [fresh EXCEPT ![r] = TRUE]
    /\ lock' = NoFile
    /\ UNCHANGED <<want, goal, live, booted>>

Load(r) ==
    /\ At(r, "holding") /\ GoTo(r, "loaded")
    /\ fresh' = [fresh EXCEPT ![r] = TRUE]
    /\ UNCHANGED <<lock, want, goal, live, booted>>

(* The release starts with the look at the file, in the same turn. *)
Release(r) == GoTo(r, "restat") /\ goal' = [goal EXCEPT ![r] = "release"]

Save(r) ==
    /\ At(r, "loaded") /\ Release(r)
    /\ fresh' = [q \in Requests |-> FALSE]
    /\ UNCHANGED <<lock, want, live, booted>>

(* Defect: no finally. *)
LeaveLocked(r) ==
    /\ At(r, "holding") \/ At(r, "loaded")
    /\ GoTo(r, "gone")
    /\ UNCHANGED <<lock, want, goal, fresh, live, booted>>

(* The handler throws, or has nothing to save. *)
Leave(r) ==
    /\ At(r, "holding") \/ At(r, "loaded")
    /\ Release(r)
    /\ UNCHANGED <<lock, want, fresh, live, booted>>

-----------------------------------------------------------------------------
(* The environment *)

Boot(p) ==
    /\ p \notin booted /\ Cardinality(live) < MaxLive
    /\ live' = live \cup {p} /\ booted' = booted \cup {p}
    /\ UNCHANGED <<lock, pc, want, goal, fresh>>

(* The requests of a crashed process are gone, its lock file is not. *)
Crash(p) ==
    /\ p \in live /\ live' = live \ {p}
    /\ pc' = [r \in Requests |-> IF ProcessOf[r] = p THEN "gone" ELSE pc[r]]
    /\ UNCHANGED <<lock, want, goal, fresh, booted>>

(* DISPATCHER_STATE_LOCK_STALE_MS pass. *)
Age ==
    /\ lock # NoFile /\ lock' = [lock EXCEPT !.old = TRUE]
    /\ Prompt => \A r \in Requests : pc[r] \notin Synchronous
    /\ UNCHANGED <<pc, want, goal, fresh, live, booted>>

-----------------------------------------------------------------------------
Init ==
    /\ lock = NoFile
    /\ pc = [r \in Requests |-> "idle"]
    /\ want = [r \in Requests |-> [ino |-> None, owner |-> None]]
    /\ goal = [r \in Requests |-> "reclaim"]
    /\ fresh = [r \in Requests |-> FALSE]
    /\ live = {} /\ booted = {}

Acquisition(r) ==
    Arrive(r) \/ Open(r) \/ WriteMetadata(r) \/ WriteFails(r) \/ Stat(r) \/ ReadOwner(r) \/ Retry(r)

Removal(r) == Restat(r) \/ Reread(r) \/ Unlink(r)

Handling(r) == Load(r) \/ Save(r) \/ Leave(r)

Next ==
    \/ \E r \in Requests : Acquisition(r) \/ Removal(r) \/ Handling(r) \/ GiveUp(r)
    \/ \E p \in Processes : Boot(p) \/ Crash(p)
    \/ Age

Spec == Init /\ [][Next]_vars

(* Lock files get old, and the event loop of a process comes back to every  *)
(* request: a request is ready to run only between the turns of the others, *)
(* hence strong fairness.  Nothing makes a waiting request meet its         *)
(* deadline, so that a wait may be as long as it takes.                     *)
FairSpec ==
    /\ Spec /\ WF_vars(Age)
    /\ \A r \in Requests :
        SF_vars(Acquisition(r)) /\ WF_vars(Removal(r)) /\ SF_vars(Handling(r))

-----------------------------------------------------------------------------
(* Properties *)

(* Every variable has a value of its type: the lock file names an inode and *)
(* a request or nobody, every request is at a place of acquireStateLock,    *)
(* withStateAsync or the release.                                           *)
TypeOK ==
    /\ lock \in [ino : Inodes \cup {None}, owner : Requests \cup {None}, old : BOOLEAN]
    /\ pc \in [Requests -> Places]
    /\ want \in [Requests -> [ino : Inodes \cup {None}, owner : Requests \cup {None}]]
    /\ goal \in [Requests -> {"reclaim", "release"}]
    /\ fresh \in [Requests -> BOOLEAN]
    /\ live \in SUBSET Processes /\ booted \in SUBSET Processes

(* Two requests are never both between acquireStateLock and the release.    *)
MutualExclusion ==
    \A r, q \in Requests : pc[r] \in Critical /\ pc[q] \in Critical => r = q

(* A request saves what it made of the state that is stored, never of one   *)
(* that another request has overwritten since.                              *)
NoLostUpdate == [][\A r \in Requests : Save(r) => fresh[r]]_vars

(* "A live owner PID is not reclaimed" (API_ENDPOINTS.md): as long as a     *)
(* request of a live process is in its critical section the file is its.    *)
LiveOwnerKeepsLock == \A r \in Requests : pc[r] \in Critical => lock.owner = r

(* A lock never outlives its request in a process that goes on: nobody      *)
(* would reclaim it, every later request would time out.                    *)
NoOrphanedLock ==
    \A r \in Requests : lock.owner = r /\ pc[r] = "gone" => ProcessOf[r] \notin live

(* Every request that arrives ends, and not because of its deadline: the    *)
(* lock it waits for is released, or reclaimed when its owner crashed, with *)
(* metadata or without.                                                     *)
EveryRequestEnds == \A r \in Requests : pc[r] # "idle" ~> pc[r] = "gone"
=============================================================================
