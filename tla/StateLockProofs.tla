--------------------------- MODULE StateLockProofs ---------------------------
(***************************************************************************)
(* The state lock excludes, and loses no update, for any number of         *)
(* requests, inodes and successive processes, as long as one process at a  *)
(* time uses the state directory.  (With two a live owner may lose its     *)
(* lock: see the run of MCStateLockReclaim.)                               *)
(*                                                                         *)
(* The inductive invariant says what single occupancy gives: between two   *)
(* awaits a request is alone, so that what it saw of the file when it      *)
(* decided to unlink it still holds when it does.                          *)
(***************************************************************************)
EXTENDS StateLock, FiniteSetTheorems, TLAPS

Removing == {"restat", "reread", "unlink"}

(* At most one process runs. *)
OneLive == live = {} \/ \E p \in Processes : live = {p}

(* Requests under way belong to it. *)
UnderWayIsLive == \A r \in Requests : pc[r] \notin {"idle", "gone"} => ProcessOf[r] \in live

(* Of these, one at most is between two awaits. *)
SynchronousAlone ==
    \A r, q \in Requests : pc[r] \in Synchronous /\ pc[q] \in Synchronous => r = q

(* A request that created the file and has not begun to remove it has it. *)
HoldsFile ==
    \A r \in Requests :
        /\ pc[r] \in Critical \cup {"create"} =>
            lock.ino # None /\ want[r] = [ino |-> lock.ino, owner |-> r]
        /\ pc[r] \in Critical => lock.owner = r
        /\ pc[r] = "create" => lock.owner = None

(* A request that may unlink the file leaves those of live requests alone. *)
RemovesNoOthers ==
    \A r \in Requests : pc[r] \in Removing =>
        lock.owner \in {None, r} \/ ProcessOf[lock.owner] \notin live

(* A file that names a live request is one it works under or is removing. *)
OwnerIsUnderWay ==
    \A r \in Requests : lock.owner = r /\ ProcessOf[r] \in live =>
        \/ pc[r] \in Critical
        \/ pc[r] \in Removing /\ goal[r] = "release" /\ want[r] = [ino |-> lock.ino, owner |-> r]

(* The pid in a lock file was a running process once. *)
OnceBooted ==
    live \subseteq booted /\ (lock.owner # None => ProcessOf[lock.owner] \in booted)

LoadedIsFresh == \A r \in Requests : pc[r] = "loaded" => fresh[r]

IInv ==
    /\ TypeOK /\ OneLive /\ UnderWayIsLive /\ SynchronousAlone
    /\ HoldsFile /\ RemovesNoOthers /\ OwnerIsUnderWay /\ OnceBooted /\ LoadedIsFresh

-----------------------------------------------------------------------------
USE StateLockAssumption

(* Nobody has arrived and no process runs. *)
LEMMA InitIInv == Init => IInv
BY DEF Init, IInv, TypeOK, OneLive, UnderWayIsLive, SynchronousAlone, HoldsFile,
       RemovesNoOthers, OwnerIsUnderWay, OnceBooted, LoadedIsFresh,
       NoFile, Places, Synchronous, Critical, Removing

(* A process boots only into an empty directory. *)
LEMMA BootsAlone ==
    ASSUME MaxLive = 1, OneLive, NEW p \in Processes, Boot(p)
    PROVE  live = {}
<1>1. ASSUME NEW q \in Processes, live = {q} PROVE FALSE
  <2>1. Cardinality({q}) = 1 BY FS_Singleton
  <2> QED BY <1>1, <2>1 DEF Boot
<1> QED BY <1>1 DEF OneLive

(* A new process has no requests under way; what an earlier one left in     *)
(* the file names a process that is not live, and never will be again.      *)
LEMMA BootIInv ==
    ASSUME MaxLive = 1, IInv, NEW p \in Processes, Boot(p)
    PROVE  IInv'
<1> USE DEF IInv
<1>0. live = {} BY BootsAlone
<1>1. TypeOK' BY DEF TypeOK, Boot
<1>2. OneLive' BY <1>0 DEF OneLive, Boot
<1>3. UnderWayIsLive' BY <1>0 DEF UnderWayIsLive, Boot
<1>4. SynchronousAlone' BY DEF SynchronousAlone, Boot
<1>5. HoldsFile' BY DEF HoldsFile, Boot
<1>6. RemovesNoOthers' BY <1>0 DEF RemovesNoOthers, UnderWayIsLive, Removing, Boot
<1>7. OwnerIsUnderWay' BY <1>0 DEF OwnerIsUnderWay, OnceBooted, Boot
<1>8. OnceBooted' BY DEF OnceBooted, Boot
<1>9. LoadedIsFresh' BY DEF LoadedIsFresh, Boot
<1> QED BY <1>1, <1>2, <1>3, <1>4, <1>5, <1>6, <1>7, <1>8, <1>9

(* A crash ends the requests of the process, and the file loses its claim.  *)
LEMMA CrashIInv ==
    ASSUME IInv, NEW p \in Processes, Crash(p)
    PROVE  IInv'
<1> USE DEF IInv, Crash
<1>1. TypeOK' BY DEF TypeOK, Places
<1>2. OneLive' BY DEF OneLive
<1>3. UnderWayIsLive' BY DEF UnderWayIsLive
<1>4. SynchronousAlone' BY DEF SynchronousAlone, Synchronous
<1>5. HoldsFile' BY DEF HoldsFile, Critical
<1>6. RemovesNoOthers' BY DEF RemovesNoOthers, Removing
<1>7. OwnerIsUnderWay' BY DEF OwnerIsUnderWay
<1>8. OnceBooted' BY DEF OnceBooted
<1>9. LoadedIsFresh' BY DEF LoadedIsFresh
<1> QED BY <1>1, <1>2, <1>3, <1>4, <1>5, <1>6, <1>7, <1>8, <1>9

(* Growing old changes neither the inode nor the owner of the file. *)
LEMMA AgeIInv == ASSUME IInv, Age PROVE IInv'
BY DEF IInv, Age, TypeOK, OneLive, UnderWayIsLive, SynchronousAlone, HoldsFile,
       RemovesNoOthers, OwnerIsUnderWay, OnceBooted, LoadedIsFresh, NoFile

(* A request that arrives is under way, and touches nothing. *)
LEMMA ArriveIInv == ASSUME IInv, NEW r \in Requests, Arrive(r) PROVE IInv'
<1> USE DEF IInv, Arrive, At, MayRun, GoTo
<1>1. TypeOK' BY DEF TypeOK, Places
<1>2. OneLive' BY DEF OneLive
<1>3. UnderWayIsLive' BY DEF UnderWayIsLive
<1>4. SynchronousAlone' BY DEF SynchronousAlone, Synchronous
<1>5. HoldsFile' BY DEF HoldsFile, Critical
<1>6. RemovesNoOthers' BY DEF RemovesNoOthers, Removing
<1>7. OwnerIsUnderWay' BY DEF OwnerIsUnderWay, Removing, Critical
<1>8. OnceBooted' BY DEF OnceBooted
<1>9. LoadedIsFresh' BY DEF LoadedIsFresh
<1> QED BY <1>1, <1>2, <1>3, <1>4, <1>5, <1>6, <1>7, <1>8, <1>9

(* Whoever creates the file found none, so nobody is in its critical        *)
(* section.                                                                 *)
LEMMA OpenIInv == ASSUME IInv, NEW r \in Requests, Open(r) PROVE IInv'
<1> USE DEF IInv, Open, FreeInodes, At, MayRun, GoTo
<1>1. TypeOK'
  <2>1. pc' \in [Requests -> Places] BY DEF TypeOK, Places, Synchronous
  <2>2. lock' \in [ino : Inodes \cup {None}, owner : Requests \cup {None}, old : BOOLEAN]
    <3>1. CASE lock = NoFile
      <4>1. PICK ino \in Inodes : lock' = [ino |-> ino, owner |-> None, old |-> FALSE] BY <3>1
      <4> QED BY <4>1
    <3>2. CASE lock # NoFile BY <3>2 DEF TypeOK
    <3> QED BY <3>1, <3>2
  <2>3. want' \in [Requests -> [ino : Inodes \cup {None}, owner : Requests \cup {None}]]
    BY DEF TypeOK
  <2> QED BY <2>1, <2>2, <2>3 DEF TypeOK
<1>2. OneLive' BY DEF OneLive
<1>3. UnderWayIsLive' BY DEF UnderWayIsLive, TypeOK
<1>4. SynchronousAlone' BY DEF SynchronousAlone, UnderWayIsLive, OneLive, Synchronous, TypeOK
<1>5. HoldsFile' BY DEF HoldsFile, Critical, TypeOK, NoFile
<1>6. RemovesNoOthers' BY DEF RemovesNoOthers, Removing, TypeOK
<1>7. OwnerIsUnderWay' BY DEF OwnerIsUnderWay, Removing, Critical, TypeOK
<1>8. OnceBooted' BY DEF OnceBooted
<1>9. LoadedIsFresh' BY DEF LoadedIsFresh, TypeOK
<1> QED BY <1>1, <1>2, <1>3, <1>4, <1>5, <1>6, <1>7, <1>8, <1>9

(* The metadata goes to the file the request created: no other request of   *)
(* the process ran in between, and there is no other process.               *)
LEMMA WriteMetadataIInv == ASSUME IInv, NEW r \in Requests, WriteMetadata(r) PROVE IInv'
<1> USE DEF IInv, WriteMetadata, At, MayRun, GoTo
<1>1. TypeOK' BY DEF TypeOK, Places, Critical
<1>2. OneLive' BY DEF OneLive
<1>3. UnderWayIsLive' BY DEF UnderWayIsLive
<1>4. SynchronousAlone' BY DEF SynchronousAlone, Synchronous
<1>5. HoldsFile' BY DEF HoldsFile, SynchronousAlone, Synchronous, TypeOK
<1>6. RemovesNoOthers' BY DEF RemovesNoOthers, SynchronousAlone, Removing, Synchronous
<1>7. OwnerIsUnderWay' BY DEF OwnerIsUnderWay, Critical, TypeOK
<1>8. OnceBooted' BY DEF OnceBooted
<1>9. LoadedIsFresh' BY DEF LoadedIsFresh
<1> QED BY <1>1, <1>2, <1>3, <1>4, <1>5, <1>6, <1>7, <1>8, <1>9

(* The file whose metadata could not be written still names nobody. *)
LEMMA WriteFailsIInv == ASSUME IInv, NEW r \in Requests, WriteFails(r) PROVE IInv'
<1> USE DEF IInv, WriteFails, At, MayRun, GoTo
<1>1. TypeOK' BY DEF TypeOK, Places, Synchronous
<1>2. OneLive' BY DEF OneLive
<1>3. UnderWayIsLive' BY DEF UnderWayIsLive
<1>4. SynchronousAlone' BY DEF SynchronousAlone, Synchronous
<1>5. HoldsFile' BY DEF HoldsFile, Critical, TypeOK
<1>6. RemovesNoOthers' BY DEF RemovesNoOthers, HoldsFile
<1>7. OwnerIsUnderWay' BY DEF OwnerIsUnderWay, Removing, Critical
<1>8. OnceBooted' BY DEF OnceBooted
<1>9. LoadedIsFresh' BY DEF LoadedIsFresh
<1> QED BY <1>1, <1>2, <1>3, <1>4, <1>5, <1>6, <1>7, <1>8, <1>9

(* A look at the file changes what the request knows, nothing else. *)
LEMMA StatIInv == ASSUME IInv, NEW r \in Requests, Stat(r) PROVE IInv'
<1> USE DEF IInv, Stat, At, MayRun, GoTo
<1>1. TypeOK' BY DEF TypeOK, Places, Synchronous
<1>2. OneLive' BY DEF OneLive
<1>3. UnderWayIsLive' BY DEF UnderWayIsLive
<1>4. SynchronousAlone' BY DEF SynchronousAlone, Synchronous
<1>5. HoldsFile' BY DEF HoldsFile, Critical
<1>6. RemovesNoOthers' BY DEF RemovesNoOthers, Removing
<1>7. OwnerIsUnderWay' BY DEF OwnerIsUnderWay, Removing, Critical
<1>8. OnceBooted' BY DEF OnceBooted
<1>9. LoadedIsFresh' BY DEF LoadedIsFresh
<1> QED BY <1>1, <1>2, <1>3, <1>4, <1>5, <1>6, <1>7, <1>8, <1>9

(* The request goes on to unlink only when the owner is not a live request. *)
LEMMA ReadOwnerIInv == ASSUME IInv, NEW r \in Requests, ReadOwner(r) PROVE IInv'
<1> USE DEF IInv, ReadOwner, OwnerIsAlive, At, MayRun, GoTo
<1>1. TypeOK' BY DEF TypeOK, Places, Synchronous
<1>2. OneLive' BY DEF OneLive
<1>3. UnderWayIsLive' BY DEF UnderWayIsLive
<1>4. SynchronousAlone' BY DEF SynchronousAlone, Synchronous
<1>5. HoldsFile' BY DEF HoldsFile, Critical
<1>6. RemovesNoOthers' BY DEF RemovesNoOthers, Removing
<1>7. OwnerIsUnderWay' BY DEF OwnerIsUnderWay, Removing, Critical
<1>8. OnceBooted' BY DEF OnceBooted
<1>9. LoadedIsFresh' BY DEF LoadedIsFresh
<1> QED BY <1>1, <1>2, <1>3, <1>4, <1>5, <1>6, <1>7, <1>8, <1>9

(* Waiting and trying again touch nothing. *)
LEMMA RetryIInv == ASSUME IInv, NEW r \in Requests, Retry(r) PROVE IInv'
<1> USE DEF IInv, Retry, At, MayRun, GoTo
<1>1. TypeOK' BY DEF TypeOK, Places
<1>2. OneLive' BY DEF OneLive
<1>3. UnderWayIsLive' BY DEF UnderWayIsLive
<1>4. SynchronousAlone' BY DEF SynchronousAlone, Synchronous
<1>5. HoldsFile' BY DEF HoldsFile, Critical
<1>6. RemovesNoOthers' BY DEF RemovesNoOthers, Removing
<1>7. OwnerIsUnderWay' BY DEF OwnerIsUnderWay, Removing, Critical
<1>8. OnceBooted' BY DEF OnceBooted
<1>9. LoadedIsFresh' BY DEF LoadedIsFresh
<1> QED BY <1>1, <1>2, <1>3, <1>4, <1>5, <1>6, <1>7, <1>8, <1>9

(* A request that waited has no file to leave behind. *)
LEMMA GiveUpIInv == ASSUME IInv, NEW r \in Requests, GiveUp(r) PROVE IInv'
<1> USE DEF IInv, GiveUp, At, MayRun, GoTo
<1>1. TypeOK' BY DEF TypeOK, Places
<1>2. OneLive' BY DEF OneLive
<1>3. UnderWayIsLive' BY DEF UnderWayIsLive
<1>4. SynchronousAlone' BY DEF SynchronousAlone, Synchronous
<1>5. HoldsFile' BY DEF HoldsFile, Critical
<1>6. RemovesNoOthers' BY DEF RemovesNoOthers, Removing
<1>7. OwnerIsUnderWay' BY DEF OwnerIsUnderWay, Removing, Critical
<1>8. OnceBooted' BY DEF OnceBooted
<1>9. LoadedIsFresh' BY DEF LoadedIsFresh
<1> QED BY <1>1, <1>2, <1>3, <1>4, <1>5, <1>6, <1>7, <1>8, <1>9

(* A request that finds another inode gives up the removal: the file is not *)
(* the one it had, so it leaves none of its own behind.                     *)
LEMMA RestatIInv == ASSUME IInv, NEW r \in Requests, Restat(r) PROVE IInv'
<1> USE DEF IInv, Restat, NotUnlinked, At, MayRun, GoTo
<1>1. TypeOK' BY DEF TypeOK, Places, Synchronous
<1>2. OneLive' BY DEF OneLive
<1>3. UnderWayIsLive' BY DEF UnderWayIsLive
<1>4. SynchronousAlone' BY DEF SynchronousAlone, Synchronous
<1>5. HoldsFile' BY DEF HoldsFile, Critical
<1>6. RemovesNoOthers' BY DEF RemovesNoOthers, Removing
<1>7. OwnerIsUnderWay' BY DEF OwnerIsUnderWay, Removing, Critical
<1>8. OnceBooted' BY DEF OnceBooted
<1>9. LoadedIsFresh' BY DEF LoadedIsFresh
<1> QED BY <1>1, <1>2, <1>3, <1>4, <1>5, <1>6, <1>7, <1>8, <1>9

(* Likewise a request that finds another token. *)
LEMMA RereadIInv == ASSUME IInv, NEW r \in Requests, Reread(r) PROVE IInv'
<1> USE DEF IInv, Reread, SameToken, NotUnlinked, At, MayRun, GoTo
<1>1. TypeOK' BY DEF TypeOK, Places, Synchronous
<1>2. OneLive' BY DEF OneLive
<1>3. UnderWayIsLive' BY DEF UnderWayIsLive
<1>4. SynchronousAlone' BY DEF SynchronousAlone, Synchronous
<1>5. HoldsFile' BY DEF HoldsFile, Critical
<1>6. RemovesNoOthers' BY DEF RemovesNoOthers, Removing
<1>7. OwnerIsUnderWay' BY DEF OwnerIsUnderWay, Removing, Critical
<1>8. OnceBooted' BY DEF OnceBooted
<1>9. LoadedIsFresh' BY DEF LoadedIsFresh
<1> QED BY <1>1, <1>2, <1>3, <1>4, <1>5, <1>6, <1>7, <1>8, <1>9

(* What is removed belongs to nobody live but the request that removes it. *)
LEMMA UnlinkIInv == ASSUME IInv, NEW r \in Requests, Unlink(r) PROVE IInv'
<1> USE DEF IInv, Unlink, Unlinked, At, MayRun, GoTo
<1>1. TypeOK' BY DEF TypeOK, Places, Synchronous, NoFile
<1>2. OneLive' BY DEF OneLive
<1>3. UnderWayIsLive' BY DEF UnderWayIsLive
<1>4. SynchronousAlone' BY DEF SynchronousAlone, Synchronous
<1>5. HoldsFile' BY DEF HoldsFile, RemovesNoOthers, SynchronousAlone, UnderWayIsLive, Removing, Synchronous, Critical, TypeOK
<1>6. RemovesNoOthers' BY DEF RemovesNoOthers, NoFile
<1>7. OwnerIsUnderWay' BY DEF OwnerIsUnderWay, NoFile
<1>8. OnceBooted' BY DEF OnceBooted, NoFile
<1>9. LoadedIsFresh' BY DEF LoadedIsFresh
<1> QED BY <1>1, <1>2, <1>3, <1>4, <1>5, <1>6, <1>7, <1>8, <1>9

(* What a request just loaded is what is stored. *)
LEMMA LoadIInv == ASSUME IInv, NEW r \in Requests, Load(r) PROVE IInv'
<1> USE DEF IInv, Load, At, MayRun, GoTo
<1>1. TypeOK' BY DEF TypeOK, Places, Critical
<1>2. OneLive' BY DEF OneLive
<1>3. UnderWayIsLive' BY DEF UnderWayIsLive
<1>4. SynchronousAlone' BY DEF SynchronousAlone, Synchronous
<1>5. HoldsFile' BY DEF HoldsFile, Critical
<1>6. RemovesNoOthers' BY DEF RemovesNoOthers, Removing
<1>7. OwnerIsUnderWay' BY DEF OwnerIsUnderWay, Critical
<1>8. OnceBooted' BY DEF OnceBooted
<1>9. LoadedIsFresh' BY DEF LoadedIsFresh, TypeOK
<1> QED BY <1>1, <1>2, <1>3, <1>4, <1>5, <1>6, <1>7, <1>8, <1>9

(* A save makes every other loaded state stale, and no other request has    *)
(* one: the critical section is the saving request's.                       *)
LEMMA SaveIInv == ASSUME IInv, NEW r \in Requests, Save(r) PROVE IInv'
<1> USE DEF IInv, Save, Release, At, MayRun, GoTo
<1>1. TypeOK' BY DEF TypeOK, Places, Synchronous
<1>2. OneLive' BY DEF OneLive
<1>3. UnderWayIsLive' BY DEF UnderWayIsLive
<1>4. SynchronousAlone' BY DEF SynchronousAlone, UnderWayIsLive, OneLive, Synchronous
<1>5. HoldsFile' BY DEF HoldsFile, Critical
<1>6. RemovesNoOthers' BY DEF RemovesNoOthers, HoldsFile, Critical, TypeOK
<1>7. OwnerIsUnderWay' BY DEF OwnerIsUnderWay, HoldsFile, Removing, TypeOK
<1>8. OnceBooted' BY DEF OnceBooted
<1>9. LoadedIsFresh' BY DEF LoadedIsFresh, HoldsFile, Critical, TypeOK
<1> QED BY <1>1, <1>2, <1>3, <1>4, <1>5, <1>6, <1>7, <1>8, <1>9

(* The release of a request that saves nothing. *)
LEMMA LeaveIInv == ASSUME IInv, NEW r \in Requests, Leave(r) PROVE IInv'
<1> USE DEF IInv, Leave, Release, At, MayRun, GoTo
<1>1. TypeOK' BY DEF TypeOK, Places, Synchronous
<1>2. OneLive' BY DEF OneLive
<1>3. UnderWayIsLive' BY DEF UnderWayIsLive
<1>4. SynchronousAlone' BY DEF SynchronousAlone, UnderWayIsLive, OneLive, Synchronous
<1>5. HoldsFile' BY DEF HoldsFile, Critical
<1>6. RemovesNoOthers' BY DEF RemovesNoOthers, HoldsFile, Critical, TypeOK
<1>7. OwnerIsUnderWay' BY DEF OwnerIsUnderWay, HoldsFile, Removing, TypeOK
<1>8. OnceBooted' BY DEF OnceBooted
<1>9. LoadedIsFresh' BY DEF LoadedIsFresh
<1> QED BY <1>1, <1>2, <1>3, <1>4, <1>5, <1>6, <1>7, <1>8, <1>9

(* The invariant holds in every reachable state of a directory that one     *)
(* process uses at a time.                                                  *)
THEOREM IInvHolds == ASSUME MaxLive = 1 PROVE Spec => []IInv
<1>1. ASSUME IInv, [Next]_vars PROVE IInv'
  <2>1. ASSUME NEW r \in Requests, Acquisition(r) PROVE IInv'
    BY <1>1, <2>1, ArriveIInv, OpenIInv, WriteMetadataIInv, WriteFailsIInv, StatIInv,
       ReadOwnerIInv, RetryIInv DEF Acquisition
  <2>2. ASSUME NEW r \in Requests, Removal(r) PROVE IInv'
    BY <1>1, <2>2, RestatIInv, RereadIInv, UnlinkIInv DEF Removal
  <2>3. ASSUME NEW r \in Requests, Handling(r) PROVE IInv'
    BY <1>1, <2>3, LoadIInv, SaveIInv, LeaveIInv DEF Handling
  <2>4. ASSUME NEW r \in Requests, GiveUp(r) PROVE IInv'
    BY <1>1, <2>4, GiveUpIInv
  <2>5. ASSUME NEW p \in Processes, Boot(p) PROVE IInv'
    BY <1>1, <2>5, BootIInv
  <2>6. ASSUME NEW p \in Processes, Crash(p) PROVE IInv'
    BY <1>1, <2>6, CrashIInv
  <2>7. CASE Age BY <1>1, <2>7, AgeIInv
  <2>8. CASE UNCHANGED vars
    BY <1>1, <2>8 DEF vars, IInv, TypeOK, OneLive, UnderWayIsLive, SynchronousAlone, HoldsFile,
       RemovesNoOthers, OwnerIsUnderWay, OnceBooted, LoadedIsFresh
  <2> QED BY <1>1, <2>1, <2>2, <2>3, <2>4, <2>5, <2>6, <2>7, <2>8 DEF Next
<1> QED BY <1>1, InitIInv, PTL DEF Spec

(* Two requests are never both in their critical sections (withStateAsync). *)
THEOREM MutualExclusionHolds == ASSUME MaxLive = 1 PROVE Spec => []MutualExclusion
<1>1. IInv => MutualExclusion BY DEF IInv, HoldsFile, MutualExclusion
<1> QED BY <1>1, IInvHolds, PTL

(* The lock file is the request's as long as it is in its critical section. *)
THEOREM LiveOwnerKeepsLockHolds == ASSUME MaxLive = 1 PROVE Spec => []LiveOwnerKeepsLock
<1>1. IInv => LiveOwnerKeepsLock BY DEF IInv, HoldsFile, LiveOwnerKeepsLock
<1> QED BY <1>1, IInvHolds, PTL

(* No lock is left behind by a request of a process that goes on. *)
THEOREM NoOrphanedLockHolds == ASSUME MaxLive = 1 PROVE Spec => []NoOrphanedLock
<1>1. IInv => NoOrphanedLock BY DEF IInv, OwnerIsUnderWay, NoOrphanedLock, Critical, Removing
<1> QED BY <1>1, IInvHolds, PTL

(* No handler saves over a state it did not load. *)
THEOREM NoLostUpdateHolds == ASSUME MaxLive = 1 PROVE Spec => NoLostUpdate
<1>1. ASSUME IInv, NEW r \in Requests, Save(r) PROVE fresh[r]
  BY <1>1 DEF IInv, LoadedIsFresh, Save, At
<1>2. IInv => [\A r \in Requests : Save(r) => fresh[r]]_vars BY <1>1
<1> QED BY <1>2, IInvHolds, PTL DEF NoLostUpdate
=============================================================================
