------------------------- MODULE TaskWorktreeProofs -------------------------
(***************************************************************************)
(* One job at a time owns the trees of a clone, works undisturbed, starts  *)
(* clean and delivers what it found, for any number of processes, jobs and *)
(* tasks, as long as no two jobs stand between the comparison of a dead    *)
(* owner's lock with their snapshot and its unlink (OneReclaims).  When    *)
(* two do, the second removes the lock of the first: see the run of        *)
(* MCTaskWorktreeReclaim.  They do not when the processes of a clone that  *)
(* saw a crash run one at a time, which two processes always do.           *)
(***************************************************************************)
EXTENDS TaskWorktree, FiniteSetTheorems, TLAPS

(* The window that unlinkMatchingWorktreeLock leaves open. *)
OneReclaims == \A j, k \in Jobs : pc[j] = "reclaim" /\ pc[k] = "reclaim" => j = k

(* From the write of the metadata to the removal of the file. *)
Holding == Owning \cup {"release", "unlink"}

(* Jobs under way belong to processes that run. *)
UnderWayIsLive == \A j \in Jobs : pc[j] \notin {"idle", "gone"} => Alive(j)

(* A process has one of them at most. *)
Serial ==
    \A j, k \in Jobs : ProcessOf[j] = ProcessOf[k] /\ j # k =>
        pc[j] \in {"idle", "gone"} \/ pc[k] \in {"idle", "gone"}

(* A job that created the file and has not removed it has it. *)
HoldsLock ==
    \A j \in Jobs :
        /\ pc[j] \in Holding => lock.maker = j /\ lock.written
        /\ pc[j] = "write" => lock.maker = j /\ ~lock.written /\ ~lock.old

(* A file of a running process is that of a job which has it. *)
MakerIsUnderWay ==
    \A j \in Jobs : lock.maker = j /\ Alive(j) => pc[j] \in Holding \cup {"write"}

(* What names nobody is no file; who is named has run. *)
MakerHasRun ==
    /\ live \subseteq booted
    /\ lock.maker = NoJob => lock = NoLock
    /\ lock.maker \in Jobs => ProcessOf[lock.maker] \in booted

Dead(j) == j \in Jobs /\ ProcessOf[j] \in booted \ live

(* A job reclaims the lock of a dead one: the file is still the one that it *)
(* judged.                                                                  *)
ReclaimsTheDead ==
    \A j \in Jobs :
        /\ pc[j] \in {"compare", "reclaim"} => Dead(seen[j])
        /\ pc[j] = "reclaim" => lock.maker = seen[j]

LockInv ==
    /\ TypeOK /\ UnderWayIsLive /\ Serial /\ HoldsLock /\ MakerIsUnderWay
    /\ MakerHasRun /\ ReclaimsTheDead

(* Once an agent is started, the changes of the tree are its own, but for   *)
(* those of agents without a worker.                                        *)
RunsClean == \A j \in Jobs : pc[j] = "run" => dirt[TaskOf[j]] \subseteq outlived

AgentsAreKnown == \A j \in agents : j \in outlived \/ pc[j] = "running"

(* What is pushed has what was found. *)
PushesAll == \A j \in Jobs : pc[j] = "push" => changed[j] \subseteq branch[TaskOf[j]]

Delivered ==
    \A j \in Jobs : outcome[j] = "delivered" =>
        /\ pc[j] \in {"cleanup", "remove", "release", "unlink", "gone"}
        /\ changed[j] \subseteq remote[TaskOf[j]]

WorkInv == RunsClean /\ AgentsAreKnown /\ PushesAll /\ Delivered

(* What a job committed it has not left in the tree, where only an agent of *)
(* its own could put it again, which has ended by then.                     *)
OutlivedAreGone == \A j \in outlived : pc[j] = "gone" /\ outcome[j] # "delivered"

CommitsOwn ==
    \A j \in Jobs :
        /\ pc[j] = "commit" /\ j \in dirt[TaskOf[j]] => j \in changed[j]
        /\ pc[j] = "push" => j \notin dirt[TaskOf[j]]
        /\ outcome[j] = "delivered" /\ changed[j] # {} => j \notin dirt[TaskOf[j]]

OwnInv == OutlivedAreGone /\ CommitsOwn

-----------------------------------------------------------------------------
(* Types *)

USE TaskWorktreeAssumption

LEMMA InitType == Init => TypeOK
BY DEF Init, TypeOK, NoLock, Places, Absent

LEMMA AcquisitionType ==
    ASSUME TypeOK, NEW j \in Jobs,
           Begin(j) \/ Acquisition(j) \/ GiveUp(j) \/ Release(j) \/ UnlinkOwn(j)
    PROVE  TypeOK'
<1> USE DEF TypeOK, At, GoTo, Fail, Git, World, Places, Waiting, Owning, NoLock
<1>1. CASE Begin(j) BY <1>1 DEF Begin
<1>2. CASE TryCreate(j)
  <2>1. CASE lock = NoLock
    <3>1. [maker |-> j, written |-> FALSE, old |-> FALSE]
            \in [maker : Jobs \cup {NoJob}, written : BOOLEAN, old : BOOLEAN]
      OBVIOUS
    <3>2. /\ GoTo(j, "write") /\ lock' = [maker |-> j, written |-> FALSE, old |-> FALSE]
          /\ UNCHANGED <<seen, outcome, Git, World>>
      BY <1>2, <2>1, Zenon DEF TryCreate
    <3> QED BY <3>1, <3>2
  <2>2. CASE lock # NoLock BY <1>2, <2>2 DEF TryCreate
  <2> QED BY <2>1, <2>2
<1>3. CASE WriteMetadata(j)
  <2>1. [lock EXCEPT !.written = TRUE, !.old = FALSE]
          \in [maker : Jobs \cup {NoJob}, written : BOOLEAN, old : BOOLEAN]
    OBVIOUS
  <2> QED BY <1>3, <2>1 DEF WriteMetadata
<1>4. CASE WriteFails(j) BY <1>4 DEF WriteFails
<1>5. CASE Judge(j) BY <1>5 DEF Judge
<1>6. CASE CompareSnapshot(j) BY <1>6 DEF CompareSnapshot
<1>7. CASE Reclaim(j) BY <1>7 DEF Reclaim
<1>8. CASE Retry(j) BY <1>8 DEF Retry
<1>9. CASE GiveUp(j) BY <1>9 DEF GiveUp
<1>10. CASE Release(j) BY <1>10 DEF Release
<1>11. CASE UnlinkOwn(j) BY <1>11 DEF UnlinkOwn
<1> QED BY <1>1, <1>2, <1>3, <1>4, <1>5, <1>6, <1>7, <1>8, <1>9, <1>10, <1>11 DEF Acquisition

LEMMA WorkType ==
    ASSUME TypeOK, NEW j \in Jobs,
           Preparation(j) \/ Execution(j) \/ Write(j) \/ Cleanup(j) \/ Remove(j) \/ RemoveFails(j)
    PROVE  TypeOK'
<1> USE DEF TypeOK, At, GoTo, Fail, Git, World, Places, Waiting, Owning, Absent, Present,
            HalfAdded, HalfRemoved
<1>1. CASE Prepare(j)
  <2>1. CASE GoTo(j, "reset") \/ GoTo(j, "add") BY <1>1, <2>1 DEF Prepare
  <2>2. CASE Fail(j, "release") BY <1>1, <2>2 DEF Prepare
  <2> QED BY <1>1, <2>1, <2>2 DEF Prepare
<1>2. CASE Reset(j) BY <1>2 DEF Reset
<1>3. CASE Add(j) BY <1>3 DEF Add
<1>4. CASE PrepareFails(j)
  <2>1. tree' \in [Tasks -> [reg : BOOLEAN, dir : BOOLEAN]]
    <3>1. HalfAdded \subseteq [reg : BOOLEAN, dir : BOOLEAN] OBVIOUS
    <3> QED BY <1>4, <3>1 DEF PrepareFails
  <2> QED BY <1>4, <2>1 DEF PrepareFails
<1>5. CASE Start(j)
  <2>1. agents' \in SUBSET Jobs /\ outlived' \in SUBSET Jobs BY <1>5 DEF Start
  <2>2. CASE GoTo(j, "running") /\ UNCHANGED outcome BY <1>5, <2>1, <2>2 DEF Start
  <2>3. CASE Fail(j, "cleanup") BY <1>5, <2>1, <2>3 DEF Start
  <2> QED BY <1>5, <2>2, <2>3 DEF Start
<1>6. CASE AgentEnds(j) BY <1>6 DEF AgentEnds
<1>7. CASE CollectChanges(j)
  <2>1. /\ changed' \in [Jobs -> SUBSET Jobs]
        /\ UNCHANGED <<lock, seen, tree, dirt, branch, remote, agents, outlived, live, booted>>
    BY <1>7 DEF CollectChanges
  <2>2. \/ GoTo(j, "commit") /\ outcome' = outcome
        \/ GoTo(j, "cleanup") /\ \E end \in {"delivered", "failed"} :
                                    outcome' = [outcome EXCEPT ![j] = end]
    BY <1>7 DEF CollectChanges
  <2>3. pc' \in [Jobs -> Places] BY <2>2
  <2>4. outcome' \in [Jobs -> {"none", "delivered", "failed"}] BY <2>2
  <2> QED BY <2>1, <2>3, <2>4
<1>8. CASE Commit(j) BY <1>8 DEF Commit
<1>9. CASE Push(j) BY <1>9 DEF Push
<1>10. CASE DeliveryFails(j) BY <1>10 DEF DeliveryFails
<1>11. CASE Write(j) BY <1>11 DEF Write
<1>12. CASE Cleanup(j) BY <1>12 DEF Cleanup
<1>13. CASE Remove(j) BY <1>13 DEF Remove
<1>14. CASE RemoveFails(j)
  <2>1. tree' \in [Tasks -> [reg : BOOLEAN, dir : BOOLEAN]]
    <3>1. HalfRemoved \subseteq [reg : BOOLEAN, dir : BOOLEAN] OBVIOUS
    <3>2. PICK half \in HalfRemoved : tree' = [tree EXCEPT ![TaskOf[j]] = half]
      BY <1>14 DEF RemoveFails
    <3> HIDE DEF HalfRemoved
    <3> QED BY <3>1, <3>2
  <2> QED BY <1>14, <2>1 DEF RemoveFails
<1> QED BY <1>1, <1>2, <1>3, <1>4, <1>5, <1>6, <1>7, <1>8, <1>9, <1>10, <1>11, <1>12, <1>13, <1>14
        DEF Preparation, Execution

LEMMA WorldType ==
    ASSUME TypeOK, Age \/ \E p \in Processes : Boot(p) \/ Crash(p)
    PROVE  TypeOK'
<1> USE DEF TypeOK, Git, World, Places
<1>1. CASE Age BY <1>1 DEF Age
<1>2. ASSUME NEW p \in Processes, Boot(p) PROVE TypeOK' BY <1>2 DEF Boot
<1>3. ASSUME NEW p \in Processes, Crash(p) PROVE TypeOK'
  <2>1. tree' \in [Tasks -> [reg : BOOLEAN, dir : BOOLEAN]]
    <3>1. {Absent, Present, [reg |-> TRUE, dir |-> FALSE]} \subseteq [reg : BOOLEAN, dir : BOOLEAN]
      BY DEF Absent, Present
    <3>2. tree' \in [Tasks -> {Absent, Present, [reg |-> TRUE, dir |-> FALSE]}]
      BY <1>3 DEF Crash
    <3> DEFINE S == {Absent, Present, [reg |-> TRUE, dir |-> FALSE]}
               R == [reg : BOOLEAN, dir : BOOLEAN]
    <3> HIDE DEF S, R
    <3>3. tree' \in [Tasks -> S] /\ S \subseteq R BY <3>1, <3>2 DEF S, R
    <3>4. tree' \in [Tasks -> R] BY <3>3
    <3> QED BY <3>4 DEF R
  <2>2. agents' \in SUBSET Jobs /\ outlived' \in SUBSET Jobs
    <3>1. PICK stay \in SUBSET {j \in agents : At(j, "running") /\ ProcessOf[j] = p} :
              /\ agents' = {j \in agents : ProcessOf[j] # p} \cup stay \cup (agents \cap outlived)
              /\ outlived' = outlived \cup stay
      BY <1>3 DEF Crash
    <3> QED BY <3>1
  <2>3. pc' \in [Jobs -> Places] BY <1>3 DEF Crash
  <2>4. live' \in SUBSET Processes BY <1>3 DEF Crash
  <2> QED BY <1>3, <2>1, <2>2, <2>3, <2>4 DEF Crash
<1> QED BY <1>1, <1>2, <1>3

-----------------------------------------------------------------------------
(* The lock *)

(* What LockInv says of the lock and the jobs. *)
LockRules ==
    UnderWayIsLive /\ Serial /\ HoldsLock /\ MakerIsUnderWay /\ MakerHasRun /\ ReclaimsTheDead

(* The variables they are about. *)
lockVars == <<lock, seen, pc, live, booted>>

LEMMA RulesStay == LockRules /\ UNCHANGED lockVars => LockRules'
BY DEF LockRules, UnderWayIsLive, Serial, HoldsLock, MakerIsUnderWay, MakerHasRun, ReclaimsTheDead,
       lockVars, Alive, Dead, NoLock

(* A job that holds the lock goes on holding it. *)
LEMMA HoldingGoesOn ==
    ASSUME TypeOK, LockRules, NEW j \in Jobs, pc[j] \in Holding, NEW place \in Holding,
           GoTo(j, place), UNCHANGED <<lock, seen, live, booted>>
    PROVE  LockRules'
<1> USE DEF LockRules, GoTo, Holding, Owning
<1>1. UnderWayIsLive' BY DEF UnderWayIsLive, Alive, TypeOK
<1>2. Serial' BY DEF Serial, TypeOK
<1>3. HoldsLock' BY DEF HoldsLock, TypeOK
<1>4. MakerIsUnderWay' BY DEF MakerIsUnderWay, Alive, TypeOK
<1>5. MakerHasRun' BY DEF MakerHasRun, NoLock
<1>6. ReclaimsTheDead' BY DEF ReclaimsTheDead, Dead, TypeOK
<1> QED BY <1>1, <1>2, <1>3, <1>4, <1>5, <1>6

(* A lock that may be reclaimed is that of a dead job: a file without       *)
(* metadata has lost the job that was writing it.                           *)
LEMMA ReclaimableIsDead ==
    ASSUME TypeOK, LockRules, lock # NoLock, Reclaimable(lock)
    PROVE  Dead(lock.maker)
<1>1. lock.maker \in Jobs BY DEF TypeOK, LockRules, MakerHasRun
<1>2. ProcessOf[lock.maker] \in booted BY <1>1 DEF LockRules, MakerHasRun
<1>3. ASSUME Alive(lock.maker) PROVE FALSE
  <2>1. ~lock.written /\ lock.old BY <1>3 DEF Reclaimable, Alive
  <2>2. pc[lock.maker] \in Holding \cup {"write"} BY <1>1, <1>3 DEF LockRules, MakerIsUnderWay
  <2> QED BY <1>1, <2>1, <2>2 DEF LockRules, HoldsLock
<1> QED BY <1>1, <1>2, <1>3 DEF Dead, Alive

LEMMA BeginRules == ASSUME TypeOK, LockRules, NEW j \in Jobs, Begin(j) PROVE LockRules'
<1> USE DEF LockRules, Begin, At, GoTo, World
<1>1. UnderWayIsLive' BY DEF UnderWayIsLive, Alive, TypeOK
<1>2. Serial' BY DEF Serial, TypeOK
<1>3. HoldsLock'
  <2>1. lock' = lock /\ pc'[j] = "acquire" /\ \A k \in Jobs : k # j => pc'[k] = pc[k] BY DEF TypeOK
  <2> QED BY <2>1 DEF HoldsLock, Holding, Owning
<1>4. MakerIsUnderWay' BY DEF MakerIsUnderWay, Alive, TypeOK, Holding, Owning
<1>5. MakerHasRun' BY DEF MakerHasRun, NoLock
<1>6. ReclaimsTheDead' BY DEF ReclaimsTheDead, Dead, TypeOK
<1> QED BY <1>1, <1>2, <1>3, <1>4, <1>5, <1>6

LEMMA TryCreateRules == ASSUME TypeOK, LockRules, NEW j \in Jobs, TryCreate(j) PROVE LockRules'
<1> USE DEF LockRules, TryCreate, At, GoTo, World
<1>1. UnderWayIsLive' BY DEF UnderWayIsLive, Alive, TypeOK
<1>2. Serial'
  <2>1. pc[j] = "acquire" OBVIOUS
  <2>2. /\ pc'[j] \in {"write", "judge"}
        /\ \A k \in Jobs : k # j => pc'[k] = pc[k]
    <3>1. CASE lock = NoLock BY <3>1 DEF TypeOK
    <3>2. CASE lock # NoLock BY <3>2 DEF TypeOK
    <3> QED BY <3>1, <3>2
  <2> HIDE DEF TryCreate
  <2> QED BY <2>1, <2>2 DEF Serial
<1>3. HoldsLock'
  <2>1. CASE lock = NoLock
    <3>1. \A k \in Jobs : pc[k] \notin Holding \cup {"write"} BY <2>1 DEF HoldsLock, NoLock
    <3>2. /\ pc'[j] = "write" /\ \A k \in Jobs : k # j => pc'[k] = pc[k]
          /\ lock'.maker = j /\ ~lock'.written /\ ~lock'.old
      BY <2>1 DEF TypeOK
    <3> QED BY <3>1, <3>2 DEF HoldsLock, Holding, Owning
  <2>2. CASE lock # NoLock
    <3>1. lock' = lock /\ pc'[j] = "judge" /\ \A k \in Jobs : k # j => pc'[k] = pc[k]
      BY <2>2 DEF TypeOK
    <3> QED BY <3>1 DEF HoldsLock, Holding, Owning
  <2> QED BY <2>1, <2>2
<1>4. MakerIsUnderWay' BY DEF MakerIsUnderWay, Alive, TypeOK, Holding, Owning
<1>5. MakerHasRun' BY DEF MakerHasRun, NoLock, Alive
<1>6. ReclaimsTheDead'
  <2>1. CASE lock = NoLock
    <3>1. \A k \in Jobs : pc[k] # "reclaim" BY <2>1 DEF ReclaimsTheDead, Dead, NoLock
    <3> QED BY <2>1, <3>1 DEF ReclaimsTheDead, Dead, TypeOK
  <2>2. CASE lock # NoLock BY <2>2 DEF ReclaimsTheDead, Dead, TypeOK
  <2> QED BY <2>1, <2>2
<1> QED BY <1>1, <1>2, <1>3, <1>4, <1>5, <1>6

LEMMA WriteMetadataRules ==
    ASSUME TypeOK, LockRules, NEW j \in Jobs, WriteMetadata(j)
    PROVE  LockRules'
<1> USE DEF LockRules, WriteMetadata, At, GoTo, World
<1>0. lock.maker = j BY DEF HoldsLock
<1>a. lock'.maker = j /\ lock'.written BY <1>0 DEF TypeOK
<1>1. UnderWayIsLive' BY DEF UnderWayIsLive, Alive, TypeOK
<1>2. Serial' BY DEF Serial, TypeOK
<1>3. HoldsLock' BY <1>0, <1>a DEF HoldsLock, TypeOK, Holding, Owning
<1>4. MakerIsUnderWay' BY <1>a DEF MakerIsUnderWay, Alive, TypeOK, Holding, Owning
<1>5. MakerHasRun' BY <1>0, <1>a DEF MakerHasRun
<1>6. ReclaimsTheDead' BY <1>0, <1>a DEF ReclaimsTheDead, Dead, TypeOK
<1> QED BY <1>1, <1>2, <1>3, <1>4, <1>5, <1>6

LEMMA WriteFailsRules ==
    ASSUME TypeOK, LockRules, NEW j \in Jobs, WriteFails(j)
    PROVE  LockRules'
<1> USE DEF LockRules, WriteFails, At, GoTo, Fail, World
<1>0. lock.maker = j /\ lock' = NoLock BY DEF HoldsLock
<1>1. UnderWayIsLive' BY DEF UnderWayIsLive, Alive, TypeOK
<1>2. Serial' BY DEF Serial, TypeOK
<1>3. HoldsLock' BY <1>0 DEF HoldsLock, TypeOK, Holding, Owning
<1>4. MakerIsUnderWay' BY <1>0 DEF MakerIsUnderWay, NoLock
<1>5. MakerHasRun' BY <1>0 DEF MakerHasRun, NoLock
<1>6. ReclaimsTheDead' BY <1>0 DEF ReclaimsTheDead, Dead, Alive, TypeOK
<1> QED BY <1>1, <1>2, <1>3, <1>4, <1>5, <1>6

LEMMA JudgeRules == ASSUME TypeOK, LockRules, NEW j \in Jobs, Judge(j) PROVE LockRules'
<1> USE DEF LockRules, Judge, At, GoTo, World
<1>0. pc'[j] \in {"acquire", "wait"} \/ (pc'[j] = "compare" /\ Dead(lock.maker))
  <2> DEFINE place == CASE lock = NoLock -> "acquire"
                        [] Reclaimable(lock) -> "compare"
                        [] OTHER -> "wait"
  <2>1. pc' = [pc EXCEPT ![j] = place] OBVIOUS
  <2>2. lock = NoLock => place = "acquire" BY DEF Reclaimable, NoLock
  <2>3. lock # NoLock /\ Reclaimable(lock) => place = "compare" OBVIOUS
  <2>4. lock # NoLock /\ ~Reclaimable(lock) => place = "wait" OBVIOUS
  <2> HIDE DEF place, Judge, LockRules
  <2>5. pc'[j] = place BY <2>1 DEF TypeOK
  <2>6. lock # NoLock /\ Reclaimable(lock) => Dead(lock.maker) BY ReclaimableIsDead
  <2> QED BY <2>2, <2>3, <2>4, <2>5, <2>6
<1>a. \A k \in Jobs : k # j => pc'[k] = pc[k] /\ seen'[k] = seen[k]
  <2>1. \E place : pc' = [pc EXCEPT ![j] = place] OBVIOUS
  <2>2. seen' = [seen EXCEPT ![j] = lock.maker] OBVIOUS
  <2> HIDE DEF Judge
  <2> QED BY <2>1, <2>2 DEF TypeOK
<1>b. pc[j] = "judge" /\ Alive(j) /\ lock' = lock /\ live' = live /\ booted' = booted
      /\ seen'[j] = lock.maker
  BY DEF TypeOK
<1> HIDE DEF Judge
<1>1. UnderWayIsLive' BY <1>0, <1>a, <1>b DEF UnderWayIsLive, Alive
<1>2. Serial' BY <1>a, <1>b DEF Serial
<1>3. HoldsLock' BY <1>0, <1>a, <1>b DEF HoldsLock, Holding, Owning
<1>4. MakerIsUnderWay' BY <1>a, <1>b DEF MakerIsUnderWay, Alive, Holding, Owning
<1>5. MakerHasRun' BY <1>b DEF MakerHasRun, NoLock
<1>6. ReclaimsTheDead' BY <1>0, <1>a, <1>b DEF ReclaimsTheDead, Dead
<1> QED BY <1>1, <1>2, <1>3, <1>4, <1>5, <1>6

LEMMA CompareSnapshotRules ==
    ASSUME TypeOK, LockRules, NEW j \in Jobs, CompareSnapshot(j)
    PROVE  LockRules'
<1> USE DEF LockRules, CompareSnapshot, At, GoTo, World
<1>1. UnderWayIsLive' BY DEF UnderWayIsLive, Alive, TypeOK
<1>2. Serial' BY DEF Serial, TypeOK
<1>3. HoldsLock' BY DEF HoldsLock, TypeOK, Holding, Owning
<1>4. MakerIsUnderWay' BY DEF MakerIsUnderWay, Alive, TypeOK, Holding, Owning
<1>5. MakerHasRun' BY DEF MakerHasRun, NoLock
<1>6. ReclaimsTheDead' BY DEF ReclaimsTheDead, Dead, TypeOK
<1> QED BY <1>1, <1>2, <1>3, <1>4, <1>5, <1>6

(* The file that is removed is the dead job's, and nobody else is about to  *)
(* remove it.                                                               *)
LEMMA ReclaimRules ==
    ASSUME TypeOK, LockRules, OneReclaims, NEW j \in Jobs, Reclaim(j)
    PROVE  LockRules'
<1> USE DEF LockRules, Reclaim, At, GoTo, World
<1>0. Dead(lock.maker) /\ lock' = NoLock BY DEF ReclaimsTheDead
<1>1. UnderWayIsLive' BY DEF UnderWayIsLive, Alive, TypeOK
<1>2. Serial' BY DEF Serial, TypeOK
<1>3. HoldsLock' BY <1>0 DEF HoldsLock, UnderWayIsLive, Alive, Dead, TypeOK, Holding, Owning
<1>4. MakerIsUnderWay' BY <1>0 DEF MakerIsUnderWay, NoLock
<1>5. MakerHasRun' BY <1>0 DEF MakerHasRun, NoLock
<1>6. ReclaimsTheDead' BY DEF ReclaimsTheDead, OneReclaims, Dead, TypeOK
<1> QED BY <1>1, <1>2, <1>3, <1>4, <1>5, <1>6

LEMMA WaitRules ==
    ASSUME TypeOK, LockRules, NEW j \in Jobs, Retry(j) \/ GiveUp(j)
    PROVE  LockRules'
<1> USE DEF LockRules, Retry, GiveUp, At, GoTo, Fail, World
<1>1. UnderWayIsLive' BY DEF UnderWayIsLive, Alive, TypeOK
<1>2. Serial' BY DEF Serial, TypeOK
<1>3. HoldsLock' BY DEF HoldsLock, TypeOK, Holding, Owning
<1>4. MakerIsUnderWay' BY DEF MakerIsUnderWay, Alive, TypeOK, Holding, Owning
<1>5. MakerHasRun' BY DEF MakerHasRun, NoLock
<1>6. ReclaimsTheDead' BY DEF ReclaimsTheDead, Dead, TypeOK
<1> QED BY <1>1, <1>2, <1>3, <1>4, <1>5, <1>6

(* A release finds the lock it made: it goes on to the unlink. *)
LEMMA ReleaseRules == ASSUME TypeOK, LockRules, NEW j \in Jobs, Release(j) PROVE LockRules'
<1>1. pc[j] \in Holding BY DEF Release, At, Holding
<1>2. lock.maker = j /\ lock.written BY <1>1 DEF LockRules, HoldsLock
<1>3. GoTo(j, "unlink") /\ UNCHANGED <<lock, seen, live, booted>> BY <1>2 DEF Release, World
<1> QED BY <1>1, <1>3, HoldingGoesOn DEF Holding

LEMMA UnlinkOwnRules == ASSUME TypeOK, LockRules, NEW j \in Jobs, UnlinkOwn(j) PROVE LockRules'
<1> USE DEF LockRules, UnlinkOwn, At, GoTo, World
<1>0. lock.maker = j /\ lock' = NoLock BY DEF HoldsLock, Holding
<1>1. UnderWayIsLive' BY DEF UnderWayIsLive, Alive, TypeOK
<1>2. Serial' BY DEF Serial, TypeOK
<1>3. HoldsLock' BY <1>0 DEF HoldsLock, TypeOK, Holding, Owning
<1>4. MakerIsUnderWay' BY <1>0 DEF MakerIsUnderWay, NoLock
<1>5. MakerHasRun' BY <1>0 DEF MakerHasRun, NoLock
<1>6. ReclaimsTheDead' BY <1>0 DEF ReclaimsTheDead, Dead, Alive, TypeOK
<1> QED BY <1>1, <1>2, <1>3, <1>4, <1>5, <1>6

(* A new process is none of the dead. *)
LEMMA BootRules == ASSUME TypeOK, LockRules, NEW p \in Processes, Boot(p) PROVE LockRules'
<1> USE DEF LockRules, Boot
<1>1. UnderWayIsLive' BY DEF UnderWayIsLive, Alive
<1>2. Serial' BY DEF Serial
<1>3. HoldsLock' BY DEF HoldsLock
<1>4. MakerIsUnderWay' BY DEF MakerIsUnderWay, MakerHasRun, Alive
<1>5. MakerHasRun' BY DEF MakerHasRun, NoLock
<1>6. ReclaimsTheDead' BY DEF ReclaimsTheDead, Dead
<1> QED BY <1>1, <1>2, <1>3, <1>4, <1>5, <1>6

(* A crash takes the jobs of its process. *)
LEMMA CrashRules == ASSUME TypeOK, LockRules, NEW p \in Processes, Crash(p) PROVE LockRules'
<1>1. /\ p \in live /\ live' = live \ {p} /\ booted' = booted /\ lock' = lock /\ seen' = seen
      /\ \A j \in Jobs : pc'[j] = IF ProcessOf[j] = p THEN "gone" ELSE pc[j]
  BY DEF Crash
<1> USE DEF LockRules
<1>2. UnderWayIsLive' BY <1>1 DEF UnderWayIsLive, Alive
<1>3. Serial' BY <1>1 DEF Serial
<1>4. HoldsLock' BY <1>1 DEF HoldsLock, Holding, Owning
<1>5. MakerIsUnderWay' BY <1>1 DEF MakerIsUnderWay, Alive
<1>6. MakerHasRun' BY <1>1 DEF MakerHasRun, NoLock
<1>7. ReclaimsTheDead' BY <1>1 DEF ReclaimsTheDead, Dead
<1> QED BY <1>2, <1>3, <1>4, <1>5, <1>6, <1>7

(* A file gets old without a change of its maker, and not while its         *)
(* metadata is being written.                                               *)
LEMMA AgeRules == ASSUME TypeOK, LockRules, Age PROVE LockRules'
<1>1. /\ lock'.maker = lock.maker /\ lock'.written = lock.written /\ lock # NoLock
      /\ UNCHANGED <<seen, pc, live, booted>>
      /\ ~lock.written => pc[lock.maker] # "write"
  BY DEF Age, TypeOK, World
<1> USE DEF LockRules
<1>2. UnderWayIsLive' BY <1>1 DEF UnderWayIsLive, Alive
<1>3. Serial' BY <1>1 DEF Serial
<1>4. HoldsLock' BY <1>1 DEF HoldsLock
<1>5. MakerIsUnderWay' BY <1>1 DEF MakerIsUnderWay, Alive
<1>6. MakerHasRun' BY <1>1 DEF MakerHasRun
<1>7. ReclaimsTheDead' BY <1>1 DEF ReclaimsTheDead, Dead
<1> QED BY <1>2, <1>3, <1>4, <1>5, <1>6, <1>7

(* The steps of an owner. *)
LEMMA OwnerRules ==
    ASSUME TypeOK, LockRules, NEW j \in Jobs,
           Preparation(j) \/ Execution(j) \/ Write(j) \/ Cleanup(j) \/ Remove(j) \/ RemoveFails(j)
    PROVE  LockRules'
<1>1. /\ UNCHANGED <<lock, seen, live, booted>>
      /\ pc' = pc \/ (pc[j] \in Owning /\ \E place \in Holding : GoTo(j, place))
  <2> USE DEF World, At, Fail, Owning, Holding
  <2>1. CASE Preparation(j)
    BY <2>1 DEF Preparation, Prepare, Reset, Add, PrepareFails
  <2>2. CASE Start(j) BY <2>2 DEF Start
  <2>3. CASE AgentEnds(j)
    <3>1. UNCHANGED <<lock, seen, live, booted>> BY <2>3 DEF AgentEnds
    <3>2. CASE At(j, "running") BY <2>3, <3>1, <3>2 DEF AgentEnds
    <3> HIDE DEF At
    <3>3. CASE ~At(j, "running") BY <2>3, <3>1, <3>3, Zenon DEF AgentEnds
    <3> QED BY <3>2, <3>3
  <2>4. CASE CollectChanges(j) BY <2>4 DEF CollectChanges
  <2>5. CASE Commit(j) \/ Push(j) \/ DeliveryFails(j) BY <2>5 DEF Commit, Push, DeliveryFails
  <2>6. CASE Write(j)
    <3> HIDE DEF At, Owning, Holding
    <3> QED BY <2>6 DEF Write
  <2>7. CASE Cleanup(j) BY <2>7 DEF Cleanup
  <2>8. CASE Remove(j) \/ RemoveFails(j) BY <2>8 DEF Remove, RemoveFails
  <2> QED BY <2>1, <2>2, <2>3, <2>4, <2>5, <2>6, <2>7, <2>8 DEF Execution
<1>2. CASE pc' = pc BY <1>1, <1>2, RulesStay DEF lockVars
<1>3. CASE pc[j] \in Owning /\ \E place \in Holding : GoTo(j, place)
  BY <1>1, <1>3, HoldingGoesOn DEF Holding
<1> QED BY <1>1, <1>2, <1>3

-----------------------------------------------------------------------------
(* The invariant of the lock *)

LEMMA InitLockInv == Init => LockInv
<1> SUFFICES ASSUME Init PROVE LockInv OBVIOUS
<1>1. UnderWayIsLive /\ Serial /\ HoldsLock /\ MakerIsUnderWay /\ MakerHasRun /\ ReclaimsTheDead
  BY DEF Init, UnderWayIsLive, Serial, HoldsLock, MakerIsUnderWay, MakerHasRun, ReclaimsTheDead,
         Holding, Owning, NoLock, Alive
<1> QED BY <1>1, InitType DEF LockInv

LEMMA NextLockInv ==
    ASSUME LockInv, OneReclaims, [Next]_vars
    PROVE  LockInv'
<1>1. TypeOK /\ LockRules BY DEF LockInv, LockRules
<1> SUFFICES TypeOK' /\ LockRules' BY DEF LockInv, LockRules
<1>2. ASSUME NEW j \in Jobs, Begin(j) \/ Acquisition(j) \/ GiveUp(j) \/ Release(j) \/ UnlinkOwn(j)
      PROVE  TypeOK' /\ LockRules'
  <2>1. LockRules'
    BY <1>1, <1>2, BeginRules, TryCreateRules, WriteMetadataRules, WriteFailsRules, JudgeRules,
       CompareSnapshotRules, ReclaimRules, WaitRules, ReleaseRules, UnlinkOwnRules DEF Acquisition
  <2> QED BY <1>1, <1>2, <2>1, AcquisitionType
<1>3. ASSUME NEW j \in Jobs,
             \/ Preparation(j) \/ Execution(j) \/ Write(j)
             \/ Cleanup(j) \/ Remove(j) \/ RemoveFails(j)
      PROVE  TypeOK' /\ LockRules'
  BY <1>1, <1>3, OwnerRules, WorkType
<1>4. ASSUME NEW p \in Processes, Boot(p) \/ Crash(p) PROVE TypeOK' /\ LockRules'
  BY <1>1, <1>4, BootRules, CrashRules, WorldType
<1>5. CASE Age BY <1>1, <1>5, AgeRules, WorldType
<1>6. CASE UNCHANGED vars
  <2>1. UNCHANGED lockVars BY <1>6 DEF vars, lockVars
  <2>2. TypeOK' BY <1>1, <1>6 DEF vars, TypeOK
  <2> QED BY <1>1, <2>1, <2>2, RulesStay
<1> QED BY <1>2, <1>3, <1>4, <1>5, <1>6 DEF Next, Ending

(* Where one process stands beside the dead, no two jobs reclaim. *)
OneBesideTheDead == live = booted \/ \A p, q \in live : p = q

LEMMA OneReclaimsThere ==
    LockInv /\ OneBesideTheDead => OneReclaims
<1> SUFFICES ASSUME LockInv, OneBesideTheDead, NEW j \in Jobs, NEW k \in Jobs,
                    pc[j] = "reclaim", pc[k] = "reclaim"
             PROVE  j = k
  BY DEF OneReclaims
<1>1. Dead(seen[j]) BY DEF LockInv, ReclaimsTheDead
<1>2. live # booted BY <1>1 DEF Dead
<1>3. ProcessOf[j] \in live /\ ProcessOf[k] \in live BY DEF LockInv, UnderWayIsLive, Alive
<1>4. ProcessOf[j] = ProcessOf[k] BY <1>2, <1>3 DEF OneBesideTheDead
<1> QED BY <1>4 DEF LockInv, Serial

(* One job owns the clone. *)
LEMMA OwnerAlone ==
    LockInv => \A j, k \in Jobs : pc[j] \in Owning /\ pc[k] \in Owning => j = k
BY DEF LockInv, HoldsLock, Holding

-----------------------------------------------------------------------------
(* The work under the lock *)

LEMMA InitWorkInv == Init => WorkInv
BY DEF Init, WorkInv, RunsClean, AgentsAreKnown, PushesAll, Delivered

(* What the work is judged by. *)
workVars == <<pc, dirt, changed, branch, remote, outcome, agents, outlived>>

LEMMA WorkStays == WorkInv /\ UNCHANGED workVars => WorkInv'
BY DEF WorkInv, RunsClean, AgentsAreKnown, PushesAll, Delivered, workVars

(* A job that begins, waits or ends moves none of it; it does not come to   *)
(* run or to push, and it does not leave the agent of its own.              *)
LEMMA MovesElsewhere ==
    ASSUME LockInv, WorkInv, NEW j \in Jobs, NEW place,
           GoTo(j, place), place \notin {"run", "push"}, pc[j] # "running",
           \/ outcome' = outcome
           \/ outcome' = [outcome EXCEPT ![j] = "failed"],
           outcome'[j] = "delivered" => place \in {"cleanup", "remove", "release", "unlink", "gone"},
           UNCHANGED <<dirt, changed, branch, remote, agents, outlived>>
    PROVE  WorkInv'
<1>1. TypeOK BY DEF LockInv
<1>2. /\ pc'[j] = place /\ \A k \in Jobs : k # j => pc'[k] = pc[k]
      /\ \A k \in Jobs : k # j => outcome'[k] = outcome[k]
      /\ outcome'[j] = outcome[j] \/ outcome'[j] = "failed"
  BY <1>1 DEF TypeOK, GoTo
<1>3. RunsClean' BY <1>2 DEF WorkInv, RunsClean
<1>4. AgentsAreKnown' BY <1>1, <1>2 DEF WorkInv, AgentsAreKnown, TypeOK
<1>5. PushesAll' BY <1>2 DEF WorkInv, PushesAll
<1>6. Delivered' BY <1>2 DEF WorkInv, Delivered
<1> QED BY <1>3, <1>4, <1>5, <1>6 DEF WorkInv

LEMMA LockStepsWork ==
    ASSUME LockInv, WorkInv, NEW j \in Jobs,
           Begin(j) \/ Acquisition(j) \/ GiveUp(j) \/ Release(j) \/ UnlinkOwn(j) \/ Cleanup(j)
           \/ RemoveFails(j)
    PROVE  WorkInv'
<1> USE DEF At, Fail, Git, World
<1>1. TypeOK BY DEF LockInv
<1>2. outcome[j] = "delivered" => pc[j] \in {"cleanup", "remove", "release", "unlink", "gone"}
  BY DEF WorkInv, Delivered
<1>3. \A x : [outcome EXCEPT ![j] = x][j] = x BY <1>1 DEF TypeOK
<1>4. /\ UNCHANGED <<dirt, changed, branch, remote, agents, outlived>>
      /\ pc[j] # "running"
      /\ \E place : /\ GoTo(j, place) /\ place \notin {"run", "push"}
                    /\ \/ outcome' = outcome
                       \/ outcome' = [outcome EXCEPT ![j] = "failed"]
                    /\ outcome'[j] = "delivered" =>
                          place \in {"cleanup", "remove", "release", "unlink", "gone"}
  <2>1. CASE Begin(j) BY <1>2, <2>1 DEF Begin
  <2>2. CASE TryCreate(j)
    <3>1. CASE lock = NoLock BY <1>2, <2>2, <3>1 DEF TryCreate
    <3>2. CASE lock # NoLock BY <1>2, <2>2, <3>2 DEF TryCreate
    <3> QED BY <3>1, <3>2
  <2>3. CASE WriteMetadata(j) BY <1>2, <2>3 DEF WriteMetadata
  <2>4. CASE WriteFails(j) BY <1>3, <2>4 DEF WriteFails
  <2>5. CASE Judge(j)
    <3> DEFINE place == CASE lock = NoLock -> "acquire"
                          [] Reclaimable(lock) -> "compare"
                          [] OTHER -> "wait"
    <3>1. place \notin {"run", "push"} /\ GoTo(j, place)
      <4>1. GoTo(j, place) BY <2>5 DEF Judge
      <4>2. lock = NoLock => place = "acquire" BY DEF Reclaimable, NoLock
      <4>3. lock # NoLock /\ Reclaimable(lock) => place = "compare" OBVIOUS
      <4>4. lock # NoLock /\ ~Reclaimable(lock) => place = "wait" OBVIOUS
      <4> HIDE DEF place
      <4> QED BY <4>1, <4>2, <4>3, <4>4
    <3>2. UNCHANGED <<outcome, dirt, changed, branch, remote, agents, outlived>> /\ pc[j] = "judge"
      BY <2>5 DEF Judge
    <3> HIDE DEF place
    <3> QED BY <1>2, <3>1, <3>2
  <2>6. CASE CompareSnapshot(j) BY <1>2, <2>6 DEF CompareSnapshot
  <2>7. CASE Reclaim(j) \/ Retry(j) BY <1>2, <2>7 DEF Reclaim, Retry
  <2>8. CASE GiveUp(j) BY <1>3, <2>8 DEF GiveUp
  <2>9. CASE Release(j) BY <2>9 DEF Release
  <2>10. CASE UnlinkOwn(j) BY <2>10 DEF UnlinkOwn
  <2>11. CASE Cleanup(j) BY <2>11 DEF Cleanup
  <2>12. CASE RemoveFails(j) BY <2>12 DEF RemoveFails
  <2> QED BY <2>1, <2>2, <2>3, <2>4, <2>5, <2>6, <2>7, <2>8, <2>9, <2>10, <2>11, <2>12
          DEF Acquisition
<1> QED BY <1>4, MovesElsewhere

(* The steps of a job that the others cannot be in the midst of. *)
LEMMA PreparationWork ==
    ASSUME LockInv, WorkInv, NEW j \in Jobs, Preparation(j)
    PROVE  WorkInv'
<1> USE DEF At, Fail, Git, World
<1>1. TypeOK BY DEF LockInv
<1>2. pc[j] \in {"prepare", "reset", "add"} /\ outcome[j] # "delivered"
  BY DEF Preparation, Prepare, Reset, Add, PrepareFails, WorkInv, Delivered
<1>3. \A x : [outcome EXCEPT ![j] = x][j] = x BY <1>1 DEF TypeOK
<1>4. CASE Prepare(j) \/ PrepareFails(j)
  <2>1. /\ UNCHANGED <<dirt, changed, branch, remote, agents, outlived>>
        /\ \E place : /\ GoTo(j, place) /\ place \in {"reset", "add", "release"}
                      /\ \/ outcome' = outcome
                         \/ outcome' = [outcome EXCEPT ![j] = "failed"]
    BY <1>4 DEF Prepare, PrepareFails
  <2>2. outcome'[j] # "delivered" BY <1>2, <1>3, <2>1
  <2> QED BY <1>2, <2>1, <2>2, MovesElsewhere
<1>5. CASE Reset(j) \/ Add(j)
  <2>1. /\ GoTo(j, "run") /\ dirt' = [dirt EXCEPT ![TaskOf[j]] = {}]
        /\ UNCHANGED <<changed, remote, outcome, agents, outlived>>
        /\ branch' = branch \/ branch' = [branch EXCEPT ![TaskOf[j]] = {}]
    BY <1>5 DEF Reset, Add
  <2>2. \A k \in Jobs : pc[k] \in Owning => k = j BY <1>2, OwnerAlone DEF Owning
  <2>3. pc'[j] = "run" /\ \A k \in Jobs : k # j => pc'[k] = pc[k] BY <1>1, <2>1 DEF TypeOK, GoTo
  <2>4. \A k \in Jobs : dirt'[TaskOf[k]] \in {{}, dirt[TaskOf[k]]} BY <1>1, <2>1 DEF TypeOK
  <2>5. dirt'[TaskOf[j]] = {} BY <1>1, <2>1 DEF TypeOK
  <2>6. RunsClean' BY <2>1, <2>2, <2>3, <2>5 DEF RunsClean, Owning
  <2>7. AgentsAreKnown' BY <1>1, <1>2, <2>1, <2>3 DEF WorkInv, AgentsAreKnown, TypeOK
  <2>8. PushesAll' BY <2>2, <2>3 DEF PushesAll, Owning
  <2>9. Delivered' BY <1>2, <2>1, <2>3 DEF WorkInv, Delivered
  <2> QED BY <2>6, <2>7, <2>8, <2>9 DEF WorkInv
<1> QED BY <1>4, <1>5 DEF Preparation

LEMMA ExecutionWork ==
    ASSUME LockInv, WorkInv, NEW j \in Jobs, Execution(j)
    PROVE  WorkInv'
<1>1. TypeOK BY DEF LockInv
<1>2. \A k \in Jobs : pc[k] \in Owning /\ pc[j] \in Owning => k = j BY OwnerAlone
<1>3. \A x : pc' = [pc EXCEPT ![j] = x] => \A k \in Jobs : pc'[k] = IF k = j THEN x ELSE pc[k]
  BY <1>1 DEF TypeOK
<1>4. \A x : outcome' = [outcome EXCEPT ![j] = x] =>
          \A k \in Jobs : outcome'[k] = IF k = j THEN x ELSE outcome[k]
  BY <1>1 DEF TypeOK
<1>5. outcome[j] = "delivered" => pc[j] \in {"cleanup", "remove", "release", "unlink", "gone"}
  BY DEF WorkInv, Delivered
<1> USE DEF At, GoTo, Fail, Git, World
<1>6. CASE Start(j)
  <2>1. /\ pc[j] = "run" /\ UNCHANGED <<dirt, changed, branch, remote, outlived>>
        /\ \/ pc' = [pc EXCEPT ![j] = "running"] /\ agents' = agents \cup {j} /\ outcome' = outcome
           \/ /\ pc' = [pc EXCEPT ![j] = "cleanup"] /\ agents' = agents
              /\ outcome' = [outcome EXCEPT ![j] = "failed"]
    BY <1>6 DEF Start
  <2>2. \A k \in Jobs : k # j => pc'[k] = pc[k] /\ outcome'[k] = outcome[k]
    <3>1. \E x : pc' = [pc EXCEPT ![j] = x] BY <2>1
    <3>2. \E x : outcome' = outcome \/ outcome' = [outcome EXCEPT ![j] = x] BY <2>1
    <3> QED BY <1>3, <1>4, <3>1, <3>2
  <2>3. \/ pc'[j] = "running" /\ agents' = agents \cup {j} /\ outcome'[j] = outcome[j]
        \/ pc'[j] = "cleanup" /\ agents' = agents /\ outcome'[j] = "failed"
    BY <1>3, <1>4, <2>1
  <2>4. RunsClean' BY <2>1, <2>2, <2>3 DEF WorkInv, RunsClean
  <2>5. AgentsAreKnown' BY <1>1, <2>1, <2>2, <2>3 DEF WorkInv, AgentsAreKnown, TypeOK
  <2>6. PushesAll' BY <2>1, <2>2, <2>3 DEF WorkInv, PushesAll
  <2>7. Delivered' BY <1>5, <2>1, <2>2, <2>3 DEF WorkInv, Delivered
  <2> QED BY <2>4, <2>5, <2>6, <2>7 DEF WorkInv
<1>7. CASE AgentEnds(j)
  <2>1. /\ agents' = agents \ {j} /\ UNCHANGED <<dirt, changed, branch, remote, outlived>>
        /\ \/ pc[j] = "running" /\ pc' = [pc EXCEPT ![j] = "collect"] /\ outcome' = outcome
           \/ /\ pc[j] = "running" /\ pc' = [pc EXCEPT ![j] = "cleanup"]
              /\ outcome' = [outcome EXCEPT ![j] = "failed"]
           \/ pc' = pc /\ outcome' = outcome
    <3> HIDE DEF At
    <3>1. CASE At(j, "running") BY <1>7, <3>1 DEF AgentEnds, At
    <3>2. CASE ~At(j, "running") BY <1>7, <3>2 DEF AgentEnds
    <3> QED BY <3>1, <3>2
  <2> DEFINE OthersStay == \A k \in Jobs : k # j => pc'[k] = pc[k] /\ outcome'[k] = outcome[k]
             Moved == \/ pc[j] = "running" /\ pc'[j] = "collect" /\ outcome'[j] = outcome[j]
                      \/ pc'[j] = "cleanup" /\ outcome'[j] = "failed"
                      \/ pc'[j] = pc[j] /\ outcome'[j] = outcome[j]
  <2>2. OthersStay /\ Moved
    <3>1. CASE pc' = pc /\ outcome' = outcome BY <3>1
    <3>2. CASE pc[j] = "running" /\ pc' = [pc EXCEPT ![j] = "collect"] /\ outcome' = outcome
      BY <1>3, <3>2
    <3>3. CASE pc' = [pc EXCEPT ![j] = "cleanup"] /\ outcome' = [outcome EXCEPT ![j] = "failed"]
      <4>1. \A k \in Jobs : pc'[k] = IF k = j THEN "cleanup" ELSE pc[k] BY <1>3, <3>3
      <4>2. \A k \in Jobs : outcome'[k] = IF k = j THEN "failed" ELSE outcome[k] BY <1>4, <3>3
      <4> QED BY <4>1, <4>2
    <3> HIDE DEF OthersStay, Moved
    <3> QED BY <2>1, <3>1, <3>2, <3>3
  <2>3. Moved BY <2>2
  <2>4. RunsClean' BY <2>1, <2>2, <2>3 DEF WorkInv, RunsClean
  <2>5. AgentsAreKnown' BY <1>1, <2>1, <2>2 DEF WorkInv, AgentsAreKnown, TypeOK
  <2>6. PushesAll' BY <2>1, <2>2, <2>3 DEF WorkInv, PushesAll
  <2>7. Delivered' BY <1>5, <2>1, <2>2, <2>3 DEF WorkInv, Delivered
  <2> QED BY <2>4, <2>5, <2>6, <2>7 DEF WorkInv
<1>8. CASE CollectChanges(j)
  <2>1. PICK found \in {dirt[TaskOf[j]], {}} :
           /\ pc[j] = "collect" /\ changed' = [changed EXCEPT ![j] = found]
           /\ UNCHANGED <<dirt, branch, remote, agents, outlived>>
           /\ \/ /\ found = {} /\ pc' = [pc EXCEPT ![j] = "cleanup"]
                 /\ outcome' = [outcome EXCEPT ![j] = "delivered"]
              \/ pc' = [pc EXCEPT ![j] = "commit"] /\ outcome' = outcome
              \/ /\ pc' = [pc EXCEPT ![j] = "cleanup"]
                 /\ outcome' = [outcome EXCEPT ![j] = "failed"]
    BY <1>8 DEF CollectChanges
  <2>2. \A k \in Jobs : k # j => /\ pc'[k] = pc[k] /\ outcome'[k] = outcome[k]
                                 /\ changed'[k] = changed[k]
    BY <1>1, <1>3, <1>4, <2>1 DEF TypeOK
  <2>3. \/ pc'[j] = "cleanup" /\ changed'[j] = {}
        \/ pc'[j] = "commit" /\ outcome'[j] = outcome[j]
        \/ pc'[j] = "cleanup" /\ outcome'[j] = "failed"
    BY <1>1, <1>3, <1>4, <2>1 DEF TypeOK
  <2>4. RunsClean' BY <2>1, <2>2, <2>3 DEF WorkInv, RunsClean
  <2>5. AgentsAreKnown' BY <1>1, <2>1, <2>2, <2>3 DEF WorkInv, AgentsAreKnown, TypeOK
  <2>6. PushesAll' BY <2>1, <2>2, <2>3 DEF WorkInv, PushesAll
  <2>7. Delivered' BY <1>5, <2>1, <2>2, <2>3 DEF WorkInv, Delivered
  <2> QED BY <2>4, <2>5, <2>6, <2>7 DEF WorkInv
<1>9. CASE Commit(j)
  <2>1. /\ pc[j] = "commit" /\ pc' = [pc EXCEPT ![j] = "push"]
        /\ branch' = [branch EXCEPT ![TaskOf[j]] = @ \cup changed[j]]
        /\ dirt' = [dirt EXCEPT ![TaskOf[j]] = @ \ changed[j]]
        /\ UNCHANGED <<changed, remote, outcome, agents, outlived>>
    BY <1>9 DEF Commit
  <2>2. pc'[j] = "push" /\ \A k \in Jobs : k # j => pc'[k] = pc[k] BY <1>3, <2>1
  <2>3. \A k \in Jobs : k # j => pc[k] \notin Owning BY <1>2, <2>1 DEF Owning
  <2>4. changed[j] \subseteq branch'[TaskOf[j]] BY <1>1, <2>1 DEF TypeOK
  <2>5. RunsClean' BY <2>2, <2>3 DEF RunsClean, Owning
  <2>6. AgentsAreKnown' BY <1>1, <2>1, <2>2 DEF WorkInv, AgentsAreKnown, TypeOK
  <2>7. PushesAll' BY <2>1, <2>2, <2>3, <2>4 DEF PushesAll, Owning
  <2>8. Delivered' BY <1>5, <2>1, <2>2 DEF WorkInv, Delivered
  <2> QED BY <2>5, <2>6, <2>7, <2>8 DEF WorkInv
<1>10. CASE Push(j)
  <2>1. /\ pc[j] = "push" /\ pc' = [pc EXCEPT ![j] = "cleanup"]
        /\ remote[TaskOf[j]] \subseteq branch[TaskOf[j]]
        /\ remote' = [remote EXCEPT ![TaskOf[j]] = branch[TaskOf[j]]]
        /\ \E end \in {"delivered", "failed"} : outcome' = [outcome EXCEPT ![j] = end]
        /\ UNCHANGED <<dirt, changed, branch, agents, outlived>>
    BY <1>10 DEF Push
  <2>2. /\ pc'[j] = "cleanup"
        /\ \A k \in Jobs : k # j => pc'[k] = pc[k] /\ outcome'[k] = outcome[k]
    BY <1>3, <1>4, <2>1
  <2>3. /\ remote'[TaskOf[j]] = branch[TaskOf[j]]
        /\ \A k \in Jobs : remote[TaskOf[k]] \subseteq remote'[TaskOf[k]]
    BY <1>1, <2>1 DEF TypeOK
  <2>4. changed[j] \subseteq branch[TaskOf[j]] BY <2>1 DEF WorkInv, PushesAll
  <2>5. RunsClean' BY <2>1, <2>2 DEF WorkInv, RunsClean
  <2>6. AgentsAreKnown' BY <1>1, <2>1, <2>2 DEF WorkInv, AgentsAreKnown, TypeOK
  <2>7. PushesAll' BY <2>1, <2>2 DEF WorkInv, PushesAll
  <2>8. Delivered' BY <2>1, <2>2, <2>3, <2>4 DEF WorkInv, Delivered
  <2> QED BY <2>5, <2>6, <2>7, <2>8 DEF WorkInv
<1>11. CASE DeliveryFails(j)
  <2>1. /\ pc[j] \in {"commit", "push"} /\ GoTo(j, "cleanup")
        /\ outcome' = [outcome EXCEPT ![j] = "failed"]
        /\ UNCHANGED <<dirt, changed, branch, remote, agents, outlived>>
    BY <1>11 DEF DeliveryFails
  <2> HIDE DEF GoTo
  <2> QED BY <2>1, MovesElsewhere
<1> QED BY <1>6, <1>7, <1>8, <1>9, <1>10, <1>11 DEF Execution

(* An agent writes into the tree of its own job, or has outlived it. *)
LEMMA WriteWork ==
    ASSUME LockInv, WorkInv, NEW j \in Jobs, Write(j)
    PROVE  WorkInv'
<1>1. TypeOK BY DEF LockInv
<1>2. /\ j \in agents /\ dirt' = [dirt EXCEPT ![TaskOf[j]] = @ \cup {j}]
      /\ UNCHANGED <<pc, changed, branch, remote, outcome, agents, outlived>>
  BY DEF Write, World
<1>3. RunsClean'
  <2>1. CASE j \in outlived BY <1>1, <1>2, <2>1 DEF WorkInv, RunsClean, TypeOK
  <2>2. CASE pc[j] = "running"
    <3>1. \A k \in Jobs : pc[k] # "run" BY <2>2, OwnerAlone DEF Owning
    <3> QED BY <1>2, <3>1 DEF RunsClean
  <2> QED BY <1>2, <2>1, <2>2 DEF WorkInv, AgentsAreKnown
<1> QED BY <1>2, <1>3 DEF WorkInv, AgentsAreKnown, PushesAll, Delivered

(* A tree is removed when no job runs in it. *)
LEMMA RemoveWork ==
    ASSUME LockInv, WorkInv, NEW j \in Jobs, Remove(j)
    PROVE  WorkInv'
<1>1. TypeOK BY DEF LockInv
<1>2. /\ pc[j] = "remove" /\ pc' = [pc EXCEPT ![j] = "release"]
      /\ dirt' = [dirt EXCEPT ![TaskOf[j]] = {}]
      /\ UNCHANGED <<changed, branch, remote, outcome, agents, outlived>>
  BY DEF Remove, At, GoTo, World
<1>3. pc'[j] = "release" /\ \A k \in Jobs : k # j => pc'[k] = pc[k] BY <1>1, <1>2 DEF TypeOK
<1>4. \A k \in Jobs : pc[k] # "run" BY <1>2, OwnerAlone DEF Owning
<1>5. RunsClean' BY <1>3, <1>4 DEF RunsClean
<1>6. AgentsAreKnown' BY <1>1, <1>2, <1>3 DEF WorkInv, AgentsAreKnown, TypeOK
<1>7. PushesAll' BY <1>2, <1>3 DEF WorkInv, PushesAll
<1>8. Delivered' BY <1>2, <1>3 DEF WorkInv, Delivered
<1> QED BY <1>5, <1>6, <1>7, <1>8 DEF WorkInv

(* A crash stops the agents of its process, but for those it leaves. *)
LEMMA CrashWork ==
    ASSUME LockInv, WorkInv, NEW p \in Processes, Crash(p)
    PROVE  WorkInv'
<1>1. TypeOK BY DEF LockInv
<1>2. PICK stay \in SUBSET {j \in agents : At(j, "running") /\ ProcessOf[j] = p} :
          /\ agents' = {j \in agents : ProcessOf[j] # p} \cup stay \cup (agents \cap outlived)
          /\ outlived' = outlived \cup stay
  BY DEF Crash
<1>3. /\ \A j \in Jobs : pc'[j] = IF ProcessOf[j] = p THEN "gone" ELSE pc[j]
      /\ UNCHANGED <<dirt, changed, branch, remote, outcome>>
  BY DEF Crash
<1>4. RunsClean' BY <1>2, <1>3 DEF WorkInv, RunsClean
<1>5. AgentsAreKnown' BY <1>1, <1>2, <1>3 DEF WorkInv, AgentsAreKnown, TypeOK
<1>6. PushesAll' BY <1>3 DEF WorkInv, PushesAll
<1>7. Delivered' BY <1>3 DEF WorkInv, Delivered
<1> QED BY <1>4, <1>5, <1>6, <1>7 DEF WorkInv

(* Its own changes. *)
LEMMA InitOwnInv == Init => OwnInv
BY DEF Init, OwnInv, OutlivedAreGone, CommitsOwn

(* Trees are cleaned, and jobs move but neither to commit nor to push. *)
LEMMA OwnStays ==
    ASSUME LockInv, OwnInv, UNCHANGED <<changed, outlived>>,
           \A j \in Jobs :
             /\ pc[j] = "gone" => pc'[j] = "gone"
             /\ j \in dirt'[TaskOf[j]] => j \in dirt[TaskOf[j]]
             /\ pc'[j] \in {"commit", "push"} => pc'[j] = pc[j]
             /\ outcome'[j] \in {outcome[j], "failed"}
    PROVE  OwnInv'
<1>1. outlived \subseteq Jobs BY DEF LockInv, TypeOK
<1>2. OutlivedAreGone' BY <1>1 DEF OwnInv, OutlivedAreGone
<1>3. CommitsOwn' BY DEF OwnInv, CommitsOwn
<1> QED BY <1>2, <1>3 DEF OwnInv

(* The steps of a job that move it or clean its tree. *)
LEMMA MovesOwn ==
    ASSUME LockInv, OwnInv, NEW j \in Jobs, NEW place, place \notin {"commit", "push"},
           pc[j] # "gone", GoTo(j, place),
           outcome' = outcome \/ outcome' = [outcome EXCEPT ![j] = "failed"],
           dirt' = dirt \/ dirt' = [dirt EXCEPT ![TaskOf[j]] = {}],
           UNCHANGED <<changed, outlived>>
    PROVE  OwnInv'
<1>1. TypeOK BY DEF LockInv
<1>2. pc'[j] = place /\ \A k \in Jobs : k # j => pc'[k] = pc[k] BY <1>1 DEF TypeOK, GoTo
<1>3. \A k \in Jobs : outcome'[k] \in {outcome[k], "failed"} BY <1>1 DEF TypeOK
<1>4. \A k \in Jobs : dirt'[TaskOf[k]] \in {{}, dirt[TaskOf[k]]} BY <1>1 DEF TypeOK
<1> QED BY <1>2, <1>3, <1>4, OwnStays

LEMMA JobOwn ==
    ASSUME LockInv, OwnInv, NEW j \in Jobs,
           Begin(j) \/ Acquisition(j) \/ GiveUp(j) \/ Preparation(j) \/ Start(j) \/ AgentEnds(j)
           \/ DeliveryFails(j) \/ Ending(j)
    PROVE  OwnInv'
<1> DEFINE Moved(place) ==
        /\ place \notin {"commit", "push"}
        /\ GoTo(j, place)
        /\ outcome' = outcome \/ outcome' = [outcome EXCEPT ![j] = "failed"]
        /\ dirt' = dirt \/ dirt' = [dirt EXCEPT ![TaskOf[j]] = {}]
        /\ UNCHANGED <<changed, outlived>>
<1> USE DEF At, Fail, Git, World
<1>1. CASE Begin(j) \/ GiveUp(j) \/ Start(j) \/ DeliveryFails(j)
  <2>1. pc[j] # "gone" /\ \E place : Moved(place) BY <1>1 DEF Begin, GiveUp, Start, DeliveryFails
  <2> QED BY <2>1, MovesOwn
<1>2. CASE Judge(j)
  <2> DEFINE place == CASE lock = NoLock -> "acquire"
                        [] Reclaimable(lock) -> "compare"
                        [] OTHER -> "wait"
  <2>1. GoTo(j, place) /\ pc[j] = "judge" BY <1>2 DEF Judge
  <2>2. UNCHANGED <<outcome, dirt, changed, outlived>> BY <1>2 DEF Judge
  <2>3. place \notin {"commit", "push"}
    <3>1. lock = NoLock => place = "acquire" BY DEF Reclaimable, NoLock
    <3>2. lock # NoLock /\ Reclaimable(lock) => place = "compare" OBVIOUS
    <3>3. lock # NoLock /\ ~Reclaimable(lock) => place = "wait" OBVIOUS
    <3> HIDE DEF place
    <3> QED BY <3>1, <3>2, <3>3
  <2> HIDE DEF place
  <2> QED BY <2>1, <2>2, <2>3, MovesOwn
<1>3. CASE Acquisition(j) /\ ~Judge(j)
  <2>1. pc[j] # "gone" /\ \E place : Moved(place)
    <3>1. CASE TryCreate(j)
      <4>1. CASE lock = NoLock BY <3>1, <4>1 DEF TryCreate
      <4>2. CASE lock # NoLock BY <3>1, <4>2 DEF TryCreate
      <4> QED BY <4>1, <4>2
    <3>2. CASE WriteMetadata(j) \/ WriteFails(j) BY <3>2 DEF WriteMetadata, WriteFails
    <3>3. CASE CompareSnapshot(j) BY <3>3 DEF CompareSnapshot
    <3>4. CASE Reclaim(j) \/ Retry(j) BY <3>4 DEF Reclaim, Retry
    <3> QED BY <1>3, <3>1, <3>2, <3>3, <3>4 DEF Acquisition
  <2> QED BY <2>1, MovesOwn
<1>4. CASE Preparation(j)
  <2>1. pc[j] # "gone" /\ \E place : Moved(place)
    BY <1>4 DEF Preparation, Prepare, Reset, Add, PrepareFails
  <2> QED BY <2>1, MovesOwn
<1>5. CASE Ending(j)
  <2>1. pc[j] # "gone" /\ \E place : Moved(place)
    BY <1>5 DEF Ending, Cleanup, Remove, RemoveFails, Release, UnlinkOwn
  <2> QED BY <2>1, MovesOwn
<1>6. CASE AgentEnds(j)
  <2>1. CASE pc[j] = "running" /\ Alive(j)
    <3>1. /\ UNCHANGED <<dirt, changed, outlived>>
          /\ \/ GoTo(j, "collect") /\ outcome' = outcome
             \/ GoTo(j, "cleanup") /\ outcome' = [outcome EXCEPT ![j] = "failed"]
      BY <1>6, <2>1 DEF AgentEnds
    <3> QED BY <2>1, <3>1, MovesOwn
  <2>2. CASE ~(pc[j] = "running" /\ Alive(j))
    <3>1. UNCHANGED <<pc, outcome, dirt, changed, outlived>> BY <1>6, <2>2 DEF AgentEnds
    <3> QED BY <3>1, OwnStays
  <2> QED BY <2>1, <2>2
<1> QED BY <1>1, <1>2, <1>3, <1>4, <1>5, <1>6

(* What is found has the job's own changes, unless git status fails. *)
LEMMA CollectOwn ==
    ASSUME LockInv, WorkInv, OwnInv, NEW j \in Jobs, CollectChanges(j)
    PROVE  OwnInv'
<1>1. TypeOK BY DEF LockInv
<1>2. PICK found \in {dirt[TaskOf[j]], {}} :
         /\ pc[j] = "collect" /\ changed' = [changed EXCEPT ![j] = found]
         /\ UNCHANGED <<dirt, outlived>>
         /\ \/ /\ found # {} /\ pc' = [pc EXCEPT ![j] = "commit"] /\ outcome' = outcome
            \/ /\ found = {} /\ pc' = [pc EXCEPT ![j] = "cleanup"]
               /\ outcome' = [outcome EXCEPT ![j] = "delivered"]
            \/ /\ pc' = [pc EXCEPT ![j] = "cleanup"]
               /\ outcome' = [outcome EXCEPT ![j] = "failed"]
  BY DEF CollectChanges, At, GoTo, Fail, World
<1>3. \A k \in Jobs : k # j => /\ pc'[k] = pc[k] /\ outcome'[k] = outcome[k]
                               /\ changed'[k] = changed[k]
  BY <1>1, <1>2 DEF TypeOK
<1>4. /\ changed'[j] = found
      /\ \/ found # {} /\ pc'[j] = "commit" /\ outcome'[j] = outcome[j]
         \/ found = {} /\ pc'[j] = "cleanup" /\ outcome'[j] = "delivered"
         \/ pc'[j] = "cleanup" /\ outcome'[j] = "failed"
  BY <1>1, <1>2 DEF TypeOK
<1>5. j \notin outlived /\ outcome[j] # "delivered"
  BY <1>2 DEF OwnInv, OutlivedAreGone, WorkInv, Delivered
<1>6. outlived \subseteq Jobs BY <1>1 DEF TypeOK
<1>7. OutlivedAreGone' BY <1>2, <1>3, <1>5, <1>6 DEF OwnInv, OutlivedAreGone
<1>8. CommitsOwn'
  <2>1. CASE pc'[j] = "commit" /\ found # {} /\ outcome'[j] = outcome[j]
    <3>1. changed'[j] = dirt[TaskOf[j]] BY <1>4, <2>1
    <3> QED BY <1>2, <1>3, <1>5, <2>1, <3>1 DEF OwnInv, CommitsOwn
  <2>2. CASE pc'[j] = "cleanup" /\ (changed'[j] = {} \/ outcome'[j] = "failed")
    BY <1>2, <1>3, <2>2 DEF OwnInv, CommitsOwn
  <2> QED BY <1>4, <2>1, <2>2
<1> QED BY <1>7, <1>8 DEF OwnInv

(* Commit takes the job's own changes out of the tree... *)
LEMMA CommitOwn ==
    ASSUME LockInv, WorkInv, OwnInv, NEW j \in Jobs, Commit(j)
    PROVE  OwnInv'
<1>1. TypeOK BY DEF LockInv
<1>2. /\ pc[j] = "commit" /\ pc' = [pc EXCEPT ![j] = "push"]
      /\ dirt' = [dirt EXCEPT ![TaskOf[j]] = @ \ changed[j]]
      /\ UNCHANGED <<changed, outcome, outlived>>
  BY DEF Commit, At, GoTo, World
<1>3. pc'[j] = "push" /\ \A k \in Jobs : k # j => pc'[k] = pc[k] BY <1>1, <1>2 DEF TypeOK
<1>4. \A k \in Jobs : dirt'[TaskOf[k]] \subseteq dirt[TaskOf[k]] BY <1>1, <1>2 DEF TypeOK
<1>5. j \notin dirt'[TaskOf[j]]
  <2>1. dirt'[TaskOf[j]] = dirt[TaskOf[j]] \ changed[j] BY <1>1, <1>2 DEF TypeOK
  <2> QED BY <1>2, <2>1 DEF OwnInv, CommitsOwn
<1>6. outlived \subseteq Jobs BY <1>1 DEF TypeOK
<1>7. OutlivedAreGone' BY <1>2, <1>3, <1>6 DEF OwnInv, OutlivedAreGone
<1>8. CommitsOwn' BY <1>2, <1>3, <1>4, <1>5 DEF OwnInv, CommitsOwn
<1> QED BY <1>7, <1>8 DEF OwnInv

(* ...and push leaves the tree as it is. *)
LEMMA PushOwn ==
    ASSUME LockInv, OwnInv, NEW j \in Jobs, Push(j)
    PROVE  OwnInv'
<1>1. TypeOK BY DEF LockInv
<1>2. /\ pc[j] = "push" /\ pc' = [pc EXCEPT ![j] = "cleanup"]
      /\ \E end \in {"delivered", "failed"} : outcome' = [outcome EXCEPT ![j] = end]
      /\ UNCHANGED <<dirt, changed, outlived>>
  BY DEF Push, At, GoTo, World
<1>3. /\ pc'[j] = "cleanup"
      /\ \A k \in Jobs : k # j => pc'[k] = pc[k] /\ outcome'[k] = outcome[k]
  BY <1>1, <1>2 DEF TypeOK
<1>4. j \notin dirt[TaskOf[j]] BY <1>2 DEF OwnInv, CommitsOwn
<1>5. outlived \subseteq Jobs BY <1>1 DEF TypeOK
<1>6. OutlivedAreGone' BY <1>2, <1>3, <1>5 DEF OwnInv, OutlivedAreGone
<1>7. CommitsOwn' BY <1>2, <1>3, <1>4 DEF OwnInv, CommitsOwn
<1> QED BY <1>6, <1>7 DEF OwnInv

(* The agents that write have not been collected from: they run, or their   *)
(* job is gone without a delivery.                                          *)
LEMMA WriteOwn ==
    ASSUME LockInv, WorkInv, OwnInv, NEW j \in Jobs, Write(j)
    PROVE  OwnInv'
<1>1. TypeOK BY DEF LockInv
<1>2. /\ j \in agents /\ dirt' = [dirt EXCEPT ![TaskOf[j]] = @ \cup {j}]
      /\ UNCHANGED <<pc, changed, outcome, outlived>>
  BY DEF Write, World
<1>3. /\ pc[j] = "running" \/ pc[j] = "gone"
      /\ outcome[j] # "delivered"
  BY <1>2 DEF WorkInv, AgentsAreKnown, Delivered, OwnInv, OutlivedAreGone
<1>4. \A k \in Jobs : k # j /\ k \in dirt'[TaskOf[k]] => k \in dirt[TaskOf[k]]
  BY <1>1, <1>2 DEF TypeOK
<1>5. OutlivedAreGone' BY <1>2 DEF OwnInv, OutlivedAreGone
<1>6. CommitsOwn' BY <1>2, <1>3, <1>4 DEF OwnInv, CommitsOwn
<1> QED BY <1>5, <1>6 DEF OwnInv

LEMMA CrashOwn ==
    ASSUME LockInv, WorkInv, OwnInv, NEW p \in Processes, Crash(p)
    PROVE  OwnInv'
<1>1. TypeOK BY DEF LockInv
<1>2. PICK stay \in SUBSET {j \in agents : At(j, "running") /\ ProcessOf[j] = p} :
          outlived' = outlived \cup stay
  BY DEF Crash
<1>3. /\ \A j \in Jobs : pc'[j] = IF ProcessOf[j] = p THEN "gone" ELSE pc[j]
      /\ UNCHANGED <<dirt, changed, outcome>>
  BY DEF Crash
<1>4. outlived' \subseteq Jobs BY <1>1, <1>2 DEF TypeOK
<1>5. \A j \in stay : pc'[j] = "gone" /\ outcome[j] # "delivered"
  BY <1>1, <1>2, <1>3 DEF At, WorkInv, Delivered, TypeOK
<1>6. OutlivedAreGone' BY <1>2, <1>3, <1>4, <1>5 DEF OwnInv, OutlivedAreGone
<1>7. CommitsOwn' BY <1>3 DEF OwnInv, CommitsOwn
<1> QED BY <1>6, <1>7 DEF OwnInv

LEMMA NextOwnInv ==
    ASSUME LockInv, WorkInv, OwnInv, [Next]_vars
    PROVE  OwnInv'
<1>1. ASSUME Age \/ (\E p \in Processes : Boot(p)) \/ UNCHANGED vars PROVE OwnInv'
  <2>1. UNCHANGED <<pc, outcome, dirt, changed, outlived>>
    BY <1>1 DEF Age, Boot, vars, Git, World
  <2> QED BY <2>1, OwnStays
<1>2. ASSUME NEW j \in Jobs,
             Begin(j) \/ Acquisition(j) \/ GiveUp(j) \/ Preparation(j) \/ Execution(j)
             \/ Write(j) \/ Ending(j)
      PROVE  OwnInv'
  BY <1>2, JobOwn, CollectOwn, CommitOwn, PushOwn, WriteOwn DEF Execution
<1>3. ASSUME NEW p \in Processes, Crash(p) PROVE OwnInv' BY <1>3, CrashOwn
<1> QED BY <1>1, <1>2, <1>3 DEF Next

LEMMA NextWorkInv ==
    ASSUME LockInv, WorkInv, [Next]_vars
    PROVE  WorkInv'
<1>1. ASSUME Age \/ (\E p \in Processes : Boot(p)) \/ UNCHANGED vars PROVE WorkInv'
  <2>1. UNCHANGED workVars BY <1>1 DEF Age, Boot, vars, workVars, Git, World
  <2> QED BY <2>1, WorkStays
<1>2. ASSUME NEW j \in Jobs,
             Begin(j) \/ Acquisition(j) \/ GiveUp(j) \/ Release(j) \/ UnlinkOwn(j) \/ Cleanup(j)
             \/ RemoveFails(j)
      PROVE  WorkInv'
  BY <1>2, LockStepsWork
<1>3. ASSUME NEW j \in Jobs, Preparation(j) \/ Execution(j) \/ Write(j) \/ Remove(j) PROVE WorkInv'
  BY <1>3, PreparationWork, ExecutionWork, WriteWork, RemoveWork
<1>4. ASSUME NEW p \in Processes, Crash(p) PROVE WorkInv' BY <1>4, CrashWork
<1> QED BY <1>1, <1>2, <1>3, <1>4 DEF Next, Ending

-----------------------------------------------------------------------------
(* The theorems *)

Inv == LockInv /\ WorkInv /\ OwnInv

(* The invariant is inductive where no two jobs reclaim at a time. *)
LEMMA InvHolds == Spec /\ []OneReclaims => []Inv
<1>1. Init => Inv BY InitLockInv, InitWorkInv, InitOwnInv DEF Inv
<1>2. Inv /\ OneReclaims /\ [Next]_vars => Inv'
  BY NextLockInv, NextWorkInv, NextOwnInv DEF Inv
<1> QED BY <1>1, <1>2, PTL DEF Spec

(* The lock file is that of the one job which prepares, runs, delivers or   *)
(* cleans up, however many processes share the clone, crash and come back,  *)
(* unless two jobs reclaim the lock of a dead one at the same time.         *)
THEOREM OwnerHoldsLockHolds == Spec /\ []OneReclaims => []OwnerHoldsLock
<1>1. Inv => OwnerHoldsLock BY DEF Inv, LockInv, HoldsLock, Holding, OwnerHoldsLock
<1> QED BY <1>1, InvHolds, PTL

(* Nobody resets, removes or replaces the tree in which a job works: the    *)
(* only job that could is the one that works there.                         *)
THEOREM WorkIsUndisturbedHolds == Spec /\ []OneReclaims => WorkIsUndisturbed
<1> DEFINE Undisturbed ==
      \A j \in Jobs : pc[j] \in Working /\ pc'[j] = pc[j]
          => /\ tree'[TaskOf[j]] = tree[TaskOf[j]]
             /\ dirt[TaskOf[j]] \subseteq dirt'[TaskOf[j]]
<1>1. ASSUME Inv, Next, NEW j \in Jobs, pc[j] \in Working, pc'[j] = pc[j]
      PROVE  tree'[TaskOf[j]] = tree[TaskOf[j]] /\ dirt[TaskOf[j]] \subseteq dirt'[TaskOf[j]]
  <2>1. TypeOK /\ pc[j] \in Owning /\ Alive(j)
    BY <1>1 DEF Inv, LockInv, UnderWayIsLive, Working, Owning
  <2>2. \A k \in Jobs : pc[k] \in Owning => k = j BY <1>1, <2>1, OwnerAlone DEF Inv
  <2> USE DEF At, Git, World
  <2>3. \A k \in Jobs : \A place : GoTo(k, place) => pc'[k] = place BY <2>1 DEF GoTo, TypeOK
  <2>4. ASSUME NEW k \in Jobs,
               Begin(k) \/ Acquisition(k) \/ GiveUp(k) \/ Prepare(k) \/ Start(k) \/ AgentEnds(k)
               \/ Push(k) \/ DeliveryFails(k) \/ Cleanup(k) \/ Release(k) \/ UnlinkOwn(k)
        PROVE  UNCHANGED <<tree, dirt>>
    BY <2>4 DEF Begin, Acquisition, TryCreate, WriteMetadata, WriteFails, Judge, CompareSnapshot,
       Reclaim, Retry, GiveUp, Prepare, Start, AgentEnds, Push, DeliveryFails, Cleanup, Release,
       UnlinkOwn
  <2>5. ASSUME NEW k \in Jobs, Reset(k) \/ Add(k) \/ PrepareFails(k) \/ Remove(k) \/ RemoveFails(k)
        PROVE  FALSE
    <3>1. pc[k] \in {"reset", "add", "remove"}
      BY <2>5 DEF Reset, Add, PrepareFails, Remove, RemoveFails
    <3> QED BY <1>1, <2>2, <3>1 DEF Working, Owning
  <2>6. ASSUME NEW k \in Jobs, CollectChanges(k) PROVE UNCHANGED <<tree, dirt>>
    BY <2>6 DEF CollectChanges
  <2>7. ASSUME NEW k \in Jobs, Commit(k) PROVE FALSE
    <3>1. pc[k] = "commit" /\ pc'[k] = "push" BY <2>3, <2>7 DEF Commit
    <3> QED BY <1>1, <2>2, <3>1 DEF Owning
  <2>8. ASSUME NEW k \in Jobs, Write(k)
        PROVE  tree' = tree /\ dirt[TaskOf[j]] \subseteq dirt'[TaskOf[j]]
    <3>1. tree' = tree /\ dirt' = [dirt EXCEPT ![TaskOf[k]] = @ \cup {k}] BY <2>8 DEF Write
    <3> QED BY <2>1, <3>1 DEF TypeOK
  <2>9. ASSUME NEW p \in Processes, Boot(p) PROVE UNCHANGED <<tree, dirt>> BY <2>9 DEF Boot
  <2>10. ASSUME NEW p \in Processes, Crash(p)
         PROVE  tree'[TaskOf[j]] = tree[TaskOf[j]] /\ dirt' = dirt
    <3>1. pc'[j] = IF ProcessOf[j] = p THEN "gone" ELSE pc[j] BY <2>10 DEF Crash
    <3>2. ProcessOf[j] # p BY <1>1, <3>1 DEF Working
    <3>3. \A k \in Jobs : ProcessOf[k] = p => pc[k] \notin {"add", "remove"}
      BY <2>2, <3>2 DEF Owning
    <3>4. \A k \in Jobs : ProcessOf[k] = p => Torn(k) = {Mine(k)} BY <3>3 DEF Torn
    <3>5. TaskOf[j] \in Tasks OBVIOUS
    <3>6. \/ tree'[TaskOf[j]] = tree[TaskOf[j]]
          \/ \E k \in Jobs : /\ ProcessOf[k] = p /\ TaskOf[k] = TaskOf[j]
                             /\ tree'[TaskOf[j]] \in Torn(k)
      BY <2>10, <3>5 DEF Crash
    <3>7. dirt' = dirt BY <2>10 DEF Crash
    <3> QED BY <3>4, <3>6, <3>7 DEF Mine
  <2>11. CASE Age BY <2>11 DEF Age
  <2> QED BY <1>1, <2>4, <2>5, <2>6, <2>7, <2>8, <2>9, <2>10, <2>11
          DEF Next, Preparation, Execution, Ending
<1>2. Inv /\ [Next]_vars => [Undisturbed]_vars BY <1>1
<1> HIDE DEF Undisturbed
<1> QED BY <1>2, InvHolds, PTL DEF Spec, WorkIsUndisturbed, Undisturbed

(* What an attempt left uncommitted is not delivered with a later one,      *)
(* whatever crashed in between.                                             *)
THEOREM StartsCleanHolds == Spec /\ []OneReclaims => StartsClean
<1> DEFINE Clean == \A j \in Jobs : Start(j) => dirt[TaskOf[j]] \subseteq outlived
<1>1. Inv => Clean BY DEF Inv, WorkInv, RunsClean, Start, At
<1>2. Inv => [Clean]_vars BY <1>1
<1> HIDE DEF Clean
<1> QED BY <1>2, InvHolds, PTL DEF StartsClean, Clean

(* A job that found changes and reports success has all of them on origin,  *)
(* where they stay, whoever pushes to the branch of the task; what its own  *)
(* agent wrote is among them, since nothing of it is left in the tree.  It  *)
(* found none when git status failed: then there is nothing to show.        *)
THEOREM DeliveredIsPushedHolds == Spec /\ []OneReclaims => []DeliveredIsPushed
<1>1. Inv => DeliveredIsPushed
  BY DEF Inv, WorkInv, Delivered, OwnInv, CommitsOwn, DeliveredIsPushed
<1> QED BY <1>1, InvHolds, PTL

(* Where one process at a time stands beside the dead ones of a clone, no   *)
(* two jobs reclaim: its jobs follow each other.                            *)
THEOREM OneProcessReclaims == Spec /\ []OneBesideTheDead => []OneReclaims
<1>1. Init => LockInv BY InitLockInv
<1>2. LockInv /\ OneReclaims /\ [Next]_vars => LockInv' BY NextLockInv
<1>3. LockInv /\ OneBesideTheDead => OneReclaims BY OneReclaimsThere
<1> QED BY <1>1, <1>2, <1>3, PTL DEF Spec

(* Two processes share a clone safely: when one is dead, one is left.       *)
THEOREM TwoProcessesReclaim ==
    ASSUME \A p, q, r \in Processes : p = q \/ q = r \/ p = r
    PROVE  Spec => []OneReclaims
<1>1. TypeOK /\ live \subseteq booted => OneBesideTheDead
  <2> SUFFICES ASSUME TypeOK, live \subseteq booted, live # booted, NEW p \in live, NEW q \in live
               PROVE  p = q
    BY DEF OneBesideTheDead
  <2>1. PICK r \in booted : r \notin live OBVIOUS
  <2> QED BY <2>1 DEF TypeOK
<1>2. LockInv => OneBesideTheDead BY <1>1 DEF LockInv, MakerHasRun
<1>3. Init => LockInv BY InitLockInv
<1>4. LockInv /\ OneReclaims /\ [Next]_vars => LockInv' BY NextLockInv
<1>5. LockInv /\ OneBesideTheDead => OneReclaims BY OneReclaimsThere
<1> QED BY <1>2, <1>3, <1>4, <1>5, PTL DEF Spec

(* Prepare, reset and remove of two jobs never overlap, and no lock is left *)
(* behind in a process that goes on.                                        *)
THEOREM OneOwnerHolds == Spec /\ []OneReclaims => [](OneOwner /\ NoOrphanedLock)
<1>1. LockInv => OneOwner BY OwnerAlone DEF OneOwner
<1>2. LockInv => NoOrphanedLock
  BY DEF LockInv, MakerIsUnderWay, Holding, Owning, NoOrphanedLock
<1>3. Inv => OneOwner /\ NoOrphanedLock BY <1>1, <1>2 DEF Inv
<1> QED BY <1>3, InvHolds, PTL

(* Every variable has a value of its type, whoever reclaims. *)
THEOREM TypeOKHolds == Spec => []TypeOK
<1>1. TypeOK /\ [Next]_vars => TypeOK'
  <2>1. CASE UNCHANGED vars BY <2>1 DEF vars, TypeOK
  <2> QED BY <2>1, AcquisitionType, WorkType, WorldType DEF Next, Ending
<1> QED BY <1>1, InitType, PTL DEF Spec

(* No attempt takes from origin what another attempt, here or in another    *)
(* clone, has pushed, even if two jobs own the tree: origin refuses.        *)
THEOREM PushedWorkStaysHolds == Spec => PushedWorkStays
<1> DEFINE Stays == \A t \in Tasks : remote[t] \subseteq remote'[t]
<1>1. ASSUME TypeOK, Next PROVE Stays
  <2> USE DEF Git, World
  <2>1. ASSUME NEW j \in Jobs, Push(j) PROVE Stays
    <3>1. /\ remote[TaskOf[j]] \subseteq branch[TaskOf[j]]
          /\ remote' = [remote EXCEPT ![TaskOf[j]] = branch[TaskOf[j]]]
      BY <2>1 DEF Push
    <3> QED BY <1>1, <3>1 DEF TypeOK
  <2>2. ASSUME NEW j \in Jobs, Begin(j) \/ Acquisition(j) \/ GiveUp(j) \/ Preparation(j) \/ Ending(j)
        PROVE  remote' = remote
    BY <2>2 DEF Begin, Acquisition, TryCreate, WriteMetadata, WriteFails, Judge, CompareSnapshot,
       Reclaim, Retry, GiveUp, Preparation, Prepare, Reset, Add, PrepareFails,
       Ending, Cleanup, Remove, RemoveFails, Release, UnlinkOwn
  <2>3. ASSUME NEW j \in Jobs,
               Start(j) \/ AgentEnds(j) \/ CollectChanges(j) \/ Commit(j) \/ DeliveryFails(j) \/ Write(j)
        PROVE  remote' = remote
    BY <2>3 DEF Start, AgentEnds, CollectChanges, Commit, DeliveryFails, Write
  <2>4. ASSUME Age \/ \E p \in Processes : Boot(p) \/ Crash(p) PROVE remote' = remote
    BY <2>4 DEF Age, Boot, Crash
  <2> QED BY <1>1, <2>1, <2>2, <2>3, <2>4 DEF Next, Execution
<1>2. TypeOK /\ [Next]_vars => [Stays]_vars BY <1>1
<1> HIDE DEF Stays
<1> QED BY <1>2, TypeOKHolds, PTL DEF Spec, PushedWorkStays, Stays

(* So two processes, with any number of jobs on any number of tasks, keep   *)
(* all of it without a further assumption.                                  *)
THEOREM TwoProcessesShare ==
    ASSUME \A p, q, r \in Processes : p = q \/ q = r \/ p = r
    PROVE  Spec => [](OwnerHoldsLock /\ DeliveredIsPushed) /\ WorkIsUndisturbed /\ StartsClean
BY TwoProcessesReclaim, OwnerHoldsLockHolds, DeliveredIsPushedHolds, WorkIsUndisturbedHolds,
   StartsCleanHolds, PTL
=============================================================================
